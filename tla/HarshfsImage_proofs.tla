------------------------ MODULE HarshfsImage_proofs ------------------------
(***************************************************************************)
(* Proofs about HarshfsImage.                                              *)
(*                                                                         *)
(* TreeInv: the links of the nodes spell the lists of children: each list  *)
(* runs from next_dir along next_in_current_dir to NULL, and no node is on *)
(* two.  So what the program finds along the links is the list, and an     *)
(* insertion is the promised step of HarshfsTree, whether the node is then *)
(* recorded or freed.  A node is recorded at most once, in the order of    *)
(* the addresses.                                                          *)
(*                                                                         *)
(* ImageInv adds the image: three sums over the recorded nodes tell where  *)
(* data is put, how much room is allocated and how far the reader skips,   *)
(* and slot k lies where k - 1 nodes end.                                  *)
(***************************************************************************)
EXTENDS HarshfsImage, SequenceTheorems, FunctionTheorems, FiniteSetTheorems,
        WellFoundedInduction, TLAPS

\* The tree that is promised, with what is proved of it.
Abstract == INSTANCE HarshfsTree_proofs WITH name <- Names, kids <- KidsOf, refused <- Refused

---------------------------------------------------------------------------
\* A set that holds 0 and with a number its successor holds all.
LEMMA Induct ==
  ASSUME NEW S \in SUBSET Nat, 0 \in S, \A n \in S : n + 1 \in S
  PROVE  Nat \subseteq S
<1>. DEFINE less == OpToRel(<, Nat)
<1>1. IsWellFoundedOn(less, Nat) BY NatLessThanWellFounded
<1>. HIDE DEF less
<1>. SUFFICES ASSUME Nat \ S # {} PROVE FALSE OBVIOUS
<1>2. PICK x \in Nat \ S : \A y \in Nat \ S : ~(<<y, x>> \in less) BY <1>1, WFMin
<1>3. ASSUME NEW y \in Nat \ S PROVE x <= y
  <2>1. <<y, x>> \in Nat \X Nat /\ <<y, x>>[1] = y /\ <<y, x>>[2] = x OBVIOUS
  <2>2. y < x => <<y, x>> \in less BY <2>1 DEF less, OpToRel
  <2>. QED BY <1>2, <2>2
<1>4. x - 1 \in Nat /\ x - 1 \in S BY <1>3
<1>. QED BY <1>4
---------------------------------------------------------------------------
(* Lists along links. *)
\* s follows the links next to their end.
Chain(next, s) ==
  \A i \in 1 .. Len(s) : next[s[i]] = IF i < Len(s) THEN s[i + 1] ELSE NULL

\* The lists of ks share no entry.
ListsApart(P, ks) ==
  \A p, q \in P : \A i \in 1 .. Len(ks[p]), j \in 1 .. Len(ks[q]) :
    ks[p][i] = ks[q][j] => p = q /\ i = j

\* What a function that follows the links gives for the entry i of a chain.
LEMMA ChainFollowed ==
  ASSUME NEW N \in Nat, NEW next, NEW s \in Seq(1 .. N), Chain(next, s), NEW list,
         \A n \in 0 .. N : list[n] = IF n = NULL THEN <<>> ELSE <<n>> \o list[next[n]]
  PROVE  \A i \in 1 .. Len(s) : list[s[i]] = SubSeq(s, i, Len(s))
<1>. DEFINE L == Len(s)
            D == {d \in Nat : d < L => list[s[L - d]] = SubSeq(s, L - d, L)}
<1>1. L \in Nat /\ \A i \in 1 .. L : s[i] \in 1 .. N OBVIOUS
<1>6. \A n \in 1 .. N : list[n] = <<n>> \o list[next[n]]
  <2>. TAKE n \in 1 .. N
  <2>1. n \in 0 .. N /\ n # NULL BY DEF NULL
  <2>. QED BY <2>1
<1>0. \A i \in 1 .. L : SubSeq(s, i, L) = <<s[i]>> \o SubSeq(s, i + 1, L)
  BY SubSeqRecursiveFirst
<1>2. 0 \in D
  <2>. SUFFICES ASSUME 0 < L PROVE list[s[L]] = SubSeq(s, L, L) BY <1>1
  <2>7. NULL \in 0 .. N BY DEF NULL
  <2>1. list[NULL] = <<>> BY <2>7, Zenon
  <2>6. s[L] \in 1 .. N BY <1>1
  <2>2. list[s[L]] = <<s[L]>> \o list[next[s[L]]] BY ONLY <1>6, <2>6
  <2>3. next[s[L]] = NULL BY <1>1 DEF Chain
  <2>4. SubSeq(s, L + 1, L) = <<>> BY <1>1
  <2>5. SubSeq(s, L, L) = <<s[L]>> \o SubSeq(s, L + 1, L) BY <1>0, <1>1
  <2>. QED BY ONLY <2>1, <2>2, <2>3, <2>4, <2>5
<1>3. ASSUME NEW d \in D PROVE d + 1 \in D
  <2>. SUFFICES ASSUME d + 1 < L PROVE list[s[L - (d + 1)]] = SubSeq(s, L - (d + 1), L) BY <1>1
  <2>. DEFINE i == L - (d + 1)
  <2>1. i \in 1 .. L /\ i < L /\ i + 1 \in 1 .. L /\ i + 1 = L - d BY <1>1
  <2>2. list[s[i + 1]] = SubSeq(s, i + 1, L) BY <2>1
  <2>6. s[i] \in 1 .. N BY <1>1, <2>1
  <2>3. list[s[i]] = <<s[i]>> \o list[next[s[i]]] BY ONLY <1>6, <2>6
  <2>4. next[s[i]] = s[i + 1] BY <2>1 DEF Chain
  <2>5. <<s[i]>> \o SubSeq(s, i + 1, L) = SubSeq(s, i, L) BY <1>0, <2>1
  <2>. QED BY ONLY <2>2, <2>3, <2>4, <2>5
<1>4. Nat \subseteq D BY <1>2, <1>3, Induct
<1>5. ASSUME NEW i \in 1 .. L PROVE list[s[i]] = SubSeq(s, i, L)
  <2>1. L - i \in Nat /\ L - i < L /\ L - (L - i) = i BY <1>1
  <2>. QED BY <1>4, <2>1
<1>. QED BY <1>5

\* There is such a function.
LEMMA ListsExist ==
  ASSUME NEW N \in Nat, NEW next, NEW P, NEW ks \in [P -> Seq(1 .. N)], ListsApart(P, ks),
         \A p \in P : Chain(next, ks[p]),
         \A n \in 1 .. N : next[n] = NULL \/ \E p \in P : \E i \in 1 .. Len(ks[p]) : n = ks[p][i]
  PROVE  \E list : list = [n \in 0 .. N |-> IF n = NULL THEN <<>> ELSE <<n>> \o list[next[n]]]
<1>. DEFINE Rest(n, t) == \E p \in P : \E i \in 1 .. Len(ks[p]) :
                            n = ks[p][i] /\ t = SubSeq(ks[p], i, Len(ks[p]))
            rest == [n \in 0 .. N |-> IF n = NULL THEN <<>>
                                      ELSE IF \E t : Rest(n, t) THEN CHOOSE t : Rest(n, t)
                                      ELSE <<n>>]
<1>1. ASSUME NEW p \in P, NEW i \in 1 .. Len(ks[p])
      PROVE  rest[ks[p][i]] = SubSeq(ks[p], i, Len(ks[p]))
  <2>. DEFINE n == ks[p][i]
              r == SubSeq(ks[p], i, Len(ks[p]))
  <2>1. n \in 1 .. N BY ElementOfSeq
  <2>2. Rest(n, r) OBVIOUS
  <2>3. ASSUME NEW t, Rest(n, t) PROVE t = r
    BY <2>3 DEF ListsApart
  <2>. HIDE DEF Rest
  <2>4. rest[n] = CHOOSE t : Rest(n, t) BY <2>1, <2>2 DEF NULL
  <2>. QED BY <2>2, <2>3, <2>4
<1>2. ASSUME NEW n \in 0 .. N
      PROVE  rest[n] = IF n = NULL THEN <<>> ELSE <<n>> \o rest[next[n]]
  <2>1. CASE n = NULL BY <2>1
  <2>2. CASE n # NULL /\ \E p \in P : \E i \in 1 .. Len(ks[p]) : n = ks[p][i]
    <3>0. PICK p \in P : \E i \in 1 .. Len(ks[p]) : n = ks[p][i] BY <2>2
    <3>1. PICK i \in 1 .. Len(ks[p]) : n = ks[p][i] BY <3>0
    <3>. DEFINE s == ks[p]
    <3>. HIDE DEF rest
    <3>2. s \in Seq(1 .. N) /\ Len(s) \in Nat /\ Chain(next, s) OBVIOUS
    <3>3. rest[n] = SubSeq(s, i, Len(s)) BY <1>1, <3>1
    <3>4. SubSeq(s, i, Len(s)) = <<s[i]>> \o SubSeq(s, i + 1, Len(s)) BY <3>2, SubSeqRecursiveFirst
    <3>5. rest[next[n]] = SubSeq(s, i + 1, Len(s))
      <4>1. CASE i < Len(s)
        <5>1. next[n] = s[i + 1] /\ i + 1 \in 1 .. Len(s) BY <3>1, <3>2, <4>1 DEF Chain
        <5>. QED BY <1>1, <5>1
      <4>2. CASE ~(i < Len(s))
        <5>1. next[n] = NULL BY <3>1, <3>2, <4>2 DEF Chain
        <5>2. rest[NULL] = <<>> BY DEF rest, NULL
        <5>3. SubSeq(s, i + 1, Len(s)) = <<>> BY <3>2, <4>2
        <5>. QED BY <5>1, <5>2, <5>3
      <4>. QED BY <4>1, <4>2
    <3>. QED BY <2>2, <3>1, <3>3, <3>4, <3>5
  <2>3. CASE n # NULL /\ ~\E p \in P : \E i \in 1 .. Len(ks[p]) : n = ks[p][i]
    <3>1. next[n] = NULL BY <2>3 DEF NULL
    <3>2. rest[NULL] = <<>> BY DEF NULL
    <3>3. ~\E t : Rest(n, t) BY <2>3
    <3>. HIDE DEF Rest
    <3>4. rest[n] = <<n>> BY <2>3, <3>3
    <3>5. <<n>> \o <<>> = <<n>> OBVIOUS
    <3>. HIDE DEF rest
    <3>. QED BY <2>3, <3>1, <3>2, <3>4, <3>5
  <2>. QED BY <2>1, <2>2, <2>3
<1>3. rest = [n \in 0 .. N |-> rest[n]] OBVIOUS
<1>. HIDE DEF rest
<1>4. rest = [n \in 0 .. N |-> IF n = NULL THEN <<>> ELSE <<n>> \o rest[next[n]]]
  BY <1>2, <1>3
<1>. QED BY <1>4
---------------------------------------------------------------------------
(* The nodes as lists of children. *)
Node == [name: NAMES, harshfs_node_type: {FILE_CODE, DIRECTORY}, size: Nat,
         data: BOOLEAN, next_in_current_dir: Nat, previous_in_current_dir: Nat,
         next_dir: Nat, previous_dir: Nat]

N == Len(node)
NextInDir == [n \in 1 .. N |-> node[n].next_in_current_dir]

\* The links of the nodes spell the lists of children ks.
Spells(ks) ==
  /\ ks \in [1 .. N -> Seq(1 .. N)] /\ ListsApart(1 .. N, ks)
  /\ \A p \in 1 .. N : node[p].next_dir = IF ks[p] = <<>> THEN NULL ELSE ks[p][1]
  /\ \A p \in 1 .. N : Chain(NextInDir, ks[p])
  /\ \A p \in 1 .. N : \A i \in 1 .. Len(ks[p]) : node[ks[p][i]].previous_dir = p
  /\ \A n \in 1 .. N :
       NextInDir[n] = NULL \/ \E p \in 1 .. N : \E i \in 1 .. Len(ks[p]) : n = ks[p][i]

\* Each record is of a node of its own; their addresses are a node apart.
M == Len(addresses)
Nth(k) == addresses[k].node
Address(k) == BASE + MAGIC + k * NODE
Numbered ==
  /\ addresses \in Seq([node: 1 .. N, address: Nat])
  /\ \A k \in 1 .. M : addresses[k].address = Address(k)
  /\ \A j, k \in 1 .. M : Nth(j) = Nth(k) => j = k

LEMMA NumberedFacts ==
  ASSUME Numbered
  PROVE  /\ M \in Nat /\ DOMAIN addresses = 1 .. M
         /\ \A k \in 1 .. M : Nth(k) \in 1 .. N /\ Nth(k) \in Recorded
         /\ Recorded = {Nth(k) : k \in 1 .. M}
<1>1. addresses \in Seq([node: 1 .. N, address: Nat]) BY DEF Numbered
<1>2. M \in Nat /\ DOMAIN addresses = 1 .. M BY <1>1 DEF M
<1>3. \A k \in 1 .. M : Nth(k) \in 1 .. N
  <2>. TAKE k \in 1 .. M
  <2>1. PICK R : R = [node: 1 .. N, address: Nat] OBVIOUS
  <2>2. addresses \in Seq(R) BY <1>1, <2>1
  <2>3. addresses[k] \in R BY ONLY <1>2, <2>2, k \in 1 .. M DEF M
  <2>. QED BY <2>1, <2>3 DEF Nth
<1>4. Recorded = {Nth(k) : k \in 1 .. M} BY <1>2, Zenon DEF Recorded, Nth
<1>. QED BY <1>2, <1>3, <1>4

\* Followed from the first child on, the links give the list.
LEMMA FollowedIs ==
  ASSUME N \in Nat, NEW ks, Spells(ks), NEW f,
         \A n \in 0 .. N : f[n] = IF n = NULL THEN <<>> ELSE <<n>> \o f[NextInDir[n]]
  PROVE  \A p \in 1 .. N : f[node[p].next_dir] = ks[p]
<1>. TAKE p \in 1 .. N
<1>1. PICK s : s = ks[p] OBVIOUS
<1>2. s \in Seq(1 .. N) /\ Chain(NextInDir, s) BY <1>1 DEF Spells
<1>3. \A i \in 1 .. Len(s) : f[s[i]] = SubSeq(s, i, Len(s))
  <2>0. PICK next : next = NextInDir OBVIOUS
  <2>1. PICK n \in Nat : n = N OBVIOUS
  <2>2. s \in Seq(1 .. n) /\ Chain(next, s) BY <1>2, <2>0, <2>1
  <2>3. \A m \in 0 .. n : f[m] = IF m = NULL THEN <<>> ELSE <<m>> \o f[next[m]]
    BY <2>0, <2>1
  <2>4. \A i \in 1 .. Len(s) : f[s[i]] = SubSeq(s, i, Len(s)) BY ONLY <2>2, <2>3, ChainFollowed
  <2>. QED BY <2>4
<1>4. node[p].next_dir = IF s = <<>> THEN NULL ELSE s[1] BY <1>1 DEF Spells
<1>5. CASE s = <<>>
  <2>1. NULL \in 0 .. N BY DEF NULL
  <2>2. f[NULL] = <<>> BY <2>1, Zenon
  <2>. QED BY <1>1, <1>4, <1>5, <2>2
<1>6. CASE s # <<>>
  <2>1. 1 \in 1 .. Len(s) BY <1>2, <1>6
  <2>2. SubSeq(s, 1, Len(s)) = s BY <1>2, SubSeqFull
  <2>. QED BY <1>1, <1>3, <1>4, <1>6, <2>1, <2>2
<1>. QED BY <1>5, <1>6

\* There is a function that follows the links.
LEMMA FollowerExists ==
  ASSUME N \in Nat, NEW ks, Spells(ks)
  PROVE  \E list : list = [n \in 0 .. N |->
                            IF n = NULL THEN <<>> ELSE <<n>> \o list[NextInDir[n]]]
<1>1. /\ ks \in [1 .. N -> Seq(1 .. N)] /\ ListsApart(1 .. N, ks)
      /\ \A p \in 1 .. N : Chain(NextInDir, ks[p])
      /\ \A n \in 1 .. N :
           NextInDir[n] = NULL \/ \E p \in 1 .. N : \E i \in 1 .. Len(ks[p]) : n = ks[p][i]
  BY Zenon DEF Spells
<1>. QED BY <1>1, ListsExist, Zenon

\* What ListFrom follows from next_dir on is the list of children.
LEMMA SiblingsAre ==
  ASSUME N \in Nat, NEW ks, Spells(ks)
  PROVE  \A p \in 1 .. N : Siblings(p) = ks[p]
<1>. DEFINE F == CHOOSE list : list = [n \in 0 .. Len(node) |->
                   IF n = NULL THEN <<>> ELSE <<n>> \o list[node[n].next_in_current_dir]]
<1>1. \A first : ListFrom(first) = F[first] BY DEF ListFrom
<1>2. PICK list : list = [n \in 0 .. N |->
                   IF n = NULL THEN <<>> ELSE <<n>> \o list[NextInDir[n]]]
  BY FollowerExists
<1>3. \A n \in 0 .. N : n # NULL => NextInDir[n] = node[n].next_in_current_dir
  BY DEF NextInDir, NULL
<1>4. list = [n \in 0 .. Len(node) |->
                IF n = NULL THEN <<>> ELSE <<n>> \o list[node[n].next_in_current_dir]]
  BY <1>2, <1>3 DEF N
<1>5. F = [n \in 0 .. Len(node) |->
             IF n = NULL THEN <<>> ELSE <<n>> \o F[node[n].next_in_current_dir]]
  BY <1>4
<1>. HIDE DEF F
<1>6. PICK f : f = F OBVIOUS
<1>7. \A n \in 0 .. N : f[n] = IF n = NULL THEN <<>> ELSE <<n>> \o f[NextInDir[n]]
  BY <1>3, <1>5, <1>6 DEF N
<1>8. \A p \in 1 .. N : f[node[p].next_dir] = ks[p] BY <1>7, FollowedIs
<1>. QED BY <1>1, <1>6, <1>8 DEF Siblings

\* So the lists of children are the ones that the links spell.
LEMMA KidsAre ==
  ASSUME node \in Seq(Node), NEW ks, Spells(ks)
  PROVE  KidsOf = ks
<1>0. N \in Nat /\ DOMAIN node = 1 .. N BY DEF N
<1>1. \A p \in 1 .. N : Siblings(p) = ks[p] BY <1>0, SiblingsAre
<1>2. KidsOf = <<>> \o [p \in 1 .. N |-> ks[p]] BY <1>0, <1>1 DEF KidsOf
<1>3. ks \in Seq(Seq(1 .. N)) BY <1>0 DEF Spells
<1>4. ks = [p \in 1 .. N |-> ks[p]] BY DEF Spells
<1>5. <<>> \o ks = ks BY <1>3, ConcatEmptySeq
<1>. QED BY <1>2, <1>4, <1>5
---------------------------------------------------------------------------
(* Pointers that are written. *)
\* n holds what m does, and the pointers of a new node set what the tree is read by.
SameNode(n, m) ==
  /\ n.name = m.name /\ n.harshfs_node_type = m.harshfs_node_type
  /\ n.size = m.size /\ n.data = m.data /\ n.previous_dir = m.previous_dir

\* What a write to next_dir changes.
LEMMA WriteNextDir ==
  ASSUME NEW nd \in Seq(Node), NEW a \in 1 .. Len(nd), NEW v \in Nat
  PROVE  LET w == [nd EXCEPT ![a].next_dir = v] IN
         /\ w \in Seq(Node) /\ Len(w) = Len(nd)
         /\ \A n \in 1 .. Len(nd) :
              /\ SameNode(w[n], nd[n])
              /\ w[n].next_in_current_dir = nd[n].next_in_current_dir
              /\ w[n].next_dir = IF n = a THEN v ELSE nd[n].next_dir
<1>. DEFINE r == [nd[a] EXCEPT !.next_dir = v]
<1>1. nd[a] \in Node OBVIOUS
<1>2. r \in Node BY <1>1 DEF Node
<1>3. /\ SameNode(r, nd[a]) /\ r.next_in_current_dir = nd[a].next_in_current_dir
      /\ r.next_dir = v
  BY <1>1 DEF Node, SameNode
<1>. HIDE DEF r
<1>4. /\ [nd EXCEPT ![a] = r] \in Seq(Node) /\ Len([nd EXCEPT ![a] = r]) = Len(nd)
      /\ \A j \in 1 .. Len(nd) : [nd EXCEPT ![a] = r][j] = IF j = a THEN r ELSE nd[j]
  BY <1>2, ExceptSeq
<1>5. [nd EXCEPT ![a].next_dir = v] = [nd EXCEPT ![a] = r] BY Zenon DEF r
<1>6. \A n \in 1 .. Len(nd) : SameNode(nd[n], nd[n]) BY DEF SameNode
<1>. QED BY <1>3, <1>4, <1>5, <1>6

\* What a write to next_in_current_dir changes.
LEMMA WriteNextInDir ==
  ASSUME NEW nd \in Seq(Node), NEW a \in 1 .. Len(nd), NEW v \in Nat
  PROVE  LET w == [nd EXCEPT ![a].next_in_current_dir = v] IN
         /\ w \in Seq(Node) /\ Len(w) = Len(nd)
         /\ \A n \in 1 .. Len(nd) :
              /\ SameNode(w[n], nd[n])
              /\ w[n].next_in_current_dir = IF n = a THEN v ELSE nd[n].next_in_current_dir
              /\ w[n].next_dir = nd[n].next_dir
<1>. DEFINE r == [nd[a] EXCEPT !.next_in_current_dir = v]
<1>1. nd[a] \in Node OBVIOUS
<1>2. r \in Node BY <1>1 DEF Node
<1>3. SameNode(r, nd[a]) /\ r.next_in_current_dir = v /\ r.next_dir = nd[a].next_dir
  BY <1>1 DEF Node, SameNode
<1>. HIDE DEF r
<1>4. /\ [nd EXCEPT ![a] = r] \in Seq(Node) /\ Len([nd EXCEPT ![a] = r]) = Len(nd)
      /\ \A j \in 1 .. Len(nd) : [nd EXCEPT ![a] = r][j] = IF j = a THEN r ELSE nd[j]
  BY <1>2, ExceptSeq
<1>5. [nd EXCEPT ![a].next_in_current_dir = v] = [nd EXCEPT ![a] = r] BY Zenon DEF r
<1>6. \A n \in 1 .. Len(nd) : SameNode(nd[n], nd[n]) BY DEF SameNode
<1>. QED BY <1>3, <1>4, <1>5, <1>6

TailOf(s) == IF s = <<>> THEN NULL ELSE s[Len(s)]

\* insert_harshfs_node stops at the youngest child.
LEMMA LastIs ==
  ASSUME N \in Nat, NEW ks, Spells(ks), NEW p \in 1 .. N
  PROVE  /\ Last(p) = TailOf(ks[p]) /\ Last(p) \in 0 .. N
         /\ Last(p) = NULL <=> ks[p] = <<>>
         /\ Siblings(p) = ks[p] /\ ks[p] \in Seq(1 .. N)
         /\ node[p].next_dir = NULL <=> ks[p] = <<>>
<1>1. PICK s \in Seq(1 .. N) : s = ks[p] BY DEF Spells
<1>2. Siblings(p) = s BY <1>1, SiblingsAre
<1>3. node[p].next_dir = IF s = <<>> THEN NULL ELSE s[1] BY <1>1 DEF Spells
<1>4. s # <<>> => Len(s) \in 1 .. Len(s) /\ s[Len(s)] \in 1 .. N /\ s[1] \in 1 .. N OBVIOUS
<1>5. node[p].next_dir = NULL <=> s = <<>> BY <1>3, <1>4 DEF NULL
<1>6. Last(p) = IF s = <<>> THEN NULL ELSE s[Len(s)] BY <1>2, <1>5 DEF Last
<1>7. Last(p) \in 0 .. N BY <1>4, <1>6 DEF NULL
<1>8. Last(p) = NULL <=> s = <<>> BY <1>4, <1>6 DEF NULL
<1>. QED BY <1>1, <1>2, <1>5, <1>6, <1>7, <1>8 DEF TailOf

\* The one pointer that it sets.
LEMMA LinkedFacts ==
  ASSUME node \in Seq(Node), NEW ks, Spells(ks), NEW p \in 1 .. N
  PROVE  /\ Linked(p) \in Seq(Node) /\ Len(Linked(p)) = N
         /\ \A n \in 1 .. N :
              /\ SameNode(Linked(p)[n], node[n])
              /\ Linked(p)[n].next_dir =
                   IF n = p /\ ks[p] = <<>> THEN N + 1 ELSE node[n].next_dir
              /\ Linked(p)[n].next_in_current_dir =
                   IF n = Last(p) THEN N + 1 ELSE node[n].next_in_current_dir
<1>1. N \in Nat /\ N = Len(node) /\ New = N + 1 BY DEF N, New
<1>2. Last(p) \in 0 .. N /\ (Last(p) = NULL <=> ks[p] = <<>>) BY <1>1, LastIs
<1>5. PICK w : w = Linked(p) OBVIOUS
<1>6. PICK v \in Nat : v = N + 1 BY <1>1
<1>3. CASE Last(p) = NULL
  <2>1. w = [node EXCEPT ![p].next_dir = v] BY <1>1, <1>3, <1>5, <1>6 DEF Linked
  <2>2. \A n \in 1 .. N : n # Last(p) BY <1>3 DEF NULL
  <2>3. p \in 1 .. Len(node) BY <1>1
  <2>4. /\ w \in Seq(Node) /\ Len(w) = Len(node)
        /\ \A n \in 1 .. Len(node) :
              /\ SameNode(w[n], node[n])
              /\ w[n].next_in_current_dir = node[n].next_in_current_dir
              /\ w[n].next_dir = IF n = p THEN v ELSE node[n].next_dir
    BY <2>1, <2>3, WriteNextDir
  <2>. QED BY ONLY <1>1, <1>2, <1>3, <1>5, <1>6, <2>2, <2>4
<1>4. CASE Last(p) # NULL
  <2>0. PICK a \in 1 .. Len(node) : a = Last(p) BY <1>1, <1>2, <1>4 DEF NULL
  <2>1. w = [node EXCEPT ![a].next_in_current_dir = v]
    BY <1>1, <1>4, <1>5, <1>6, <2>0 DEF Linked
  <2>4. /\ w \in Seq(Node) /\ Len(w) = Len(node)
        /\ \A n \in 1 .. Len(node) :
              /\ SameNode(w[n], node[n])
              /\ w[n].next_in_current_dir = IF n = a THEN v ELSE node[n].next_in_current_dir
              /\ w[n].next_dir = node[n].next_dir
    BY <2>1, WriteNextInDir
  <2>. QED BY ONLY <1>1, <1>2, <1>4, <1>5, <1>6, <2>0, <2>4
<1>. QED BY <1>3, <1>4
---------------------------------------------------------------------------
(* A new child. *)
\* The lists of children with v as the youngest child of p.
Grown(ks, p, v) == Append([ks EXCEPT ![p] = Append(ks[p], v)], <<>>)

Grows(n, v, ks, p, g) ==
  /\ n \in Nat /\ v = n + 1 /\ ks \in [1 .. n -> Seq(1 .. n)] /\ p \in 1 .. n
  /\ g = Grown(ks, p, v)

\* Only the list of p gains an entry.
LEMMA GrownFacts ==
  ASSUME NEW n, NEW v, NEW ks, NEW p, NEW g, Grows(n, v, ks, p, g)
  PROVE  /\ g \in [1 .. v -> Seq(1 .. v)]
         /\ g[v] = <<>> /\ g[p] = Append(ks[p], v)
         /\ \A q \in (1 .. n) \ {p} : g[q] = ks[q]
<1>. DEFINE s == Append(ks[p], v)
            k == [ks EXCEPT ![p] = s]
<1>. /\ n \in Nat /\ v = n + 1 /\ ks \in [1 .. n -> Seq(1 .. n)] /\ p \in 1 .. n
     /\ g = Grown(ks, p, v)
  BY Zenon DEF Grows
<1>1. v \in Nat /\ 1 .. n \subseteq 1 .. v OBVIOUS
<1>2. \A q \in 1 .. n : ks[q] \in Seq(1 .. v) BY <1>1, SeqMonotonic
<1>3. s \in Seq(1 .. v) BY <1>2
<1>4. /\ k \in [1 .. n -> Seq(1 .. v)] /\ k[p] = s
      /\ \A q \in (1 .. n) \ {p} : k[q] = ks[q]
  BY <1>2, <1>3
<1>5. k \in Seq(Seq(1 .. v)) /\ Len(k) = n BY ONLY <1>4, n \in Nat
<1>6. <<>> \in Seq(1 .. v) OBVIOUS
<1>. HIDE DEF k, s
<1>7. /\ Append(k, <<>>) \in Seq(Seq(1 .. v)) /\ Len(Append(k, <<>>)) = n + 1
      /\ \A i \in 1 .. n : Append(k, <<>>)[i] = k[i]
      /\ Append(k, <<>>)[n + 1] = <<>>
  <2>1. PICK T : T = Seq(1 .. v) OBVIOUS
  <2>2. PICK e \in T : e = <<>> BY <1>6, <2>1
  <2>3. PICK l \in Seq(T) : l = k BY <1>5, <2>1
  <2>4. /\ Append(l, e) \in Seq(T) /\ Len(Append(l, e)) = Len(l) + 1
        /\ \A i \in 1 .. Len(l) : Append(l, e)[i] = l[i]
        /\ Append(l, e)[Len(l) + 1] = e
    BY AppendProperties
  <2>. QED BY <1>5, <2>1, <2>2, <2>3, <2>4, Zenon
<1>8. Append(k, <<>>) = Grown(ks, p, v) BY DEF k, s, Grown
<1>10. /\ g \in Seq(Seq(1 .. v)) /\ Len(g) = v /\ g[v] = <<>>
       /\ \A i \in 1 .. n : g[i] = k[i]
  BY ONLY <1>7, <1>8, g = Grown(ks, p, v), v = n + 1
<1>11. g \in [1 .. v -> Seq(1 .. v)] BY <1>10, <1>1
<1>. QED BY <1>4, <1>10, <1>11 DEF s

\* A list gains an entry that no list had.
Gains(n, v, ks, p, g) ==
  /\ n \in Nat /\ v = n + 1 /\ ks \in [1 .. n -> Seq(1 .. n)] /\ p \in 1 .. n
  /\ ListsApart(1 .. n, ks)
  /\ g[v] = <<>> /\ g[p] = Append(ks[p], v) /\ \A q \in (1 .. n) \ {p} : g[q] = ks[q]

\* The lists stay apart.
LEMMA GrownApart ==
  ASSUME NEW n, NEW v, NEW ks, NEW p, NEW g, Gains(n, v, ks, p, g)
  PROVE  /\ ListsApart(1 .. v, g)
         /\ \A q \in 1 .. v : \A i \in 1 .. Len(g[q]) :
              \/ q = p /\ i = Len(ks[p]) + 1 /\ g[q][i] = v
              \/ q \in 1 .. n /\ i \in 1 .. Len(ks[q]) /\ g[q][i] = ks[q][i]
         /\ \A q \in 1 .. n : \A i \in 1 .. Len(ks[q]) : i \in 1 .. Len(g[q]) /\ g[q][i] = ks[q][i]
         /\ Len(ks[p]) \in Nat /\ Len(g[p]) = Len(ks[p]) + 1 /\ g[p][Len(ks[p]) + 1] = v
<1>. /\ n \in Nat /\ v = n + 1 /\ ks \in [1 .. n -> Seq(1 .. n)] /\ p \in 1 .. n
     /\ ListsApart(1 .. n, ks)
     /\ g[v] = <<>> /\ g[p] = Append(ks[p], v) /\ \A q \in (1 .. n) \ {p} : g[q] = ks[q]
  BY Zenon DEF Gains
<1>1. \A q \in 1 .. n : /\ ks[q] \in Seq(1 .. n) /\ Len(ks[q]) \in Nat
                        /\ \A i \in 1 .. Len(ks[q]) : ks[q][i] \in 1 .. n
  BY ONLY n \in Nat, ks \in [1 .. n -> Seq(1 .. n)]
<1>2. PICK s \in Seq(Nat) : s = ks[p] BY <1>1, SeqMonotonic
<1>3. Append(s, v) \in Seq(Nat) /\ Len(Append(s, v)) = Len(s) + 1 /\ Append(s, v)[Len(s) + 1] = v
      /\ \A i \in 1 .. Len(s) : Append(s, v)[i] = s[i]
  BY <1>2
<1>4. /\ Len(g[p]) = Len(ks[p]) + 1 /\ g[p][Len(ks[p]) + 1] = v
      /\ \A i \in 1 .. Len(ks[p]) : g[p][i] = ks[p][i]
  BY <1>2, <1>3
<1>5. Len(g[v]) = 0 OBVIOUS
<1>6. ASSUME NEW q \in 1 .. v, NEW i \in 1 .. Len(g[q])
      PROVE  \/ q = p /\ i = Len(ks[p]) + 1 /\ g[q][i] = v
             \/ q \in 1 .. n /\ i \in 1 .. Len(ks[q]) /\ g[q][i] = ks[q][i]
  <2>1. q # v
    <3>. SUFFICES ASSUME q = v PROVE FALSE OBVIOUS
    <3>1. i \in 1 .. 0 BY <1>5
    <3>. QED BY ONLY <3>1
  <2>2. q \in 1 .. n BY <2>1
  <2>3. CASE q # p BY <2>2, <2>3
  <2>4. CASE q = p
    <3>1. Len(s) \in Nat /\ Len(g[p]) = Len(s) + 1 BY <1>2, <1>4
    <3>2. i = Len(s) + 1 \/ i \in 1 .. Len(s) BY <2>4, <3>1
    <3>. QED BY <1>2, <1>4, <2>4, <3>2
  <2>. QED BY <2>3, <2>4
<1>7. ASSUME NEW q \in 1 .. n, NEW i \in 1 .. Len(ks[q])
      PROVE  i \in 1 .. Len(g[q]) /\ g[q][i] = ks[q][i]
  <2>1. CASE q # p
    <3>1. g[q] = ks[q] BY <2>1
    <3>. QED BY <3>1
  <2>2. CASE q = p
    <3>1. Len(s) \in Nat /\ Len(g[p]) = Len(s) + 1 /\ i \in 1 .. Len(s) BY <1>2, <1>4, <2>2
    <3>2. i \in 1 .. Len(g[p]) BY <3>1
    <3>. QED BY <1>4, <2>2, <3>2
  <2>. QED BY <2>1, <2>2
<1>9. \A q, r \in 1 .. n : \A i \in 1 .. Len(ks[q]), j \in 1 .. Len(ks[r]) :
        ks[q][i] = ks[r][j] => q = r /\ i = j
  BY Zenon DEF ListsApart
<1>10. \A t \in 1 .. n : \A k \in 1 .. Len(ks[t]) : ks[t][k] # v
  <2>. TAKE t \in 1 .. n
  <2>. TAKE k \in 1 .. Len(ks[t])
  <2>1. ks[t][k] \in 1 .. n BY <1>1
  <2>. QED BY ONLY <2>1, v = n + 1, n \in Nat
<1>8. ASSUME NEW q \in 1 .. v, NEW r \in 1 .. v, NEW i \in 1 .. Len(g[q]),
             NEW j \in 1 .. Len(g[r]), g[q][i] = g[r][j]
      PROVE  q = r /\ i = j
  <2>1. CASE g[q][i] = v
    <3>1. q = p /\ i = Len(ks[p]) + 1 BY <1>6, <1>10, <2>1
    <3>2. r = p /\ j = Len(ks[p]) + 1 BY <1>6, <1>8, <1>10, <2>1
    <3>. QED BY <3>1, <3>2
  <2>2. CASE g[q][i] # v
    <3>1. q \in 1 .. n /\ i \in 1 .. Len(ks[q]) /\ g[q][i] = ks[q][i] BY <1>6, <2>2
    <3>2. r \in 1 .. n /\ j \in 1 .. Len(ks[r]) /\ g[r][j] = ks[r][j] BY <1>6, <1>8, <2>2
    <3>3. ks[q][i] = ks[r][j] BY <1>8, <3>1, <3>2
    <3>. QED BY ONLY <1>9, <3>1, <3>2, <3>3
  <2>. QED BY <2>1, <2>2
<1>11. ListsApart(1 .. v, g) BY <1>8, Zenon DEF ListsApart
<1>. QED BY <1>1, <1>4, <1>6, <1>7, <1>11
---------------------------------------------------------------------------
\* The node r is added as number v, the youngest child of p.
Adds(ks, p, r, v) ==
  /\ node \in Seq(Node) /\ Spells(ks) /\ p \in 1 .. N /\ r \in Node /\ v = N + 1
  /\ node' = Append(Linked(p), r)

\* What a new node changes in the nodes ...
LEMMA AddNodes ==
  ASSUME NEW ks, NEW p, NEW r, NEW v, Adds(ks, p, r, v)
  PROVE  /\ node' \in Seq(Node) /\ N' = v /\ node'[v] = r
         /\ \A n \in 1 .. N :
              /\ SameNode(node'[n], node[n])
              /\ node'[n].next_dir = IF n = p /\ ks[p] = <<>> THEN v ELSE node[n].next_dir
              /\ node'[n].next_in_current_dir =
                   IF n = Last(p) THEN v ELSE node[n].next_in_current_dir
<1>. /\ node \in Seq(Node) /\ Spells(ks) /\ p \in 1 .. N /\ r \in Node /\ v = N + 1
     /\ node' = Append(Linked(p), r)
  BY Zenon DEF Adds
<1>1. PICK w : w = Linked(p) OBVIOUS
<1>2. /\ w \in Seq(Node) /\ Len(w) = N
      /\ \A n \in 1 .. N :
              /\ SameNode(w[n], node[n])
              /\ w[n].next_dir = IF n = p /\ ks[p] = <<>> THEN v ELSE node[n].next_dir
              /\ w[n].next_in_current_dir = IF n = Last(p) THEN v ELSE node[n].next_in_current_dir
  BY <1>1, LinkedFacts
<1>3. PICK T : T = Node OBVIOUS
<1>4. w \in Seq(T) /\ r \in T BY <1>2, <1>3
<1>5. /\ Append(w, r) \in Seq(T) /\ Len(Append(w, r)) = Len(w) + 1
      /\ \A i \in 1 .. Len(w) : Append(w, r)[i] = w[i]
      /\ Append(w, r)[Len(w) + 1] = r
  BY ONLY <1>4, AppendProperties
<1>6. /\ node' \in Seq(Node) /\ Len(node') = v /\ node'[v] = r
      /\ \A n \in 1 .. N : node'[n] = w[n]
  BY <1>1, <1>2, <1>3, <1>5
<1>. QED BY <1>2, <1>6 DEF N

\* ... and in the lists of children that they spell.
LEMMA AddSpells ==
  ASSUME NEW ks, NEW p, NEW r, NEW v, Adds(ks, p, r, v),
         r.next_in_current_dir = NULL, r.next_dir = NULL, r.previous_dir = p
  PROVE  Spells(Grown(ks, p, v))'
<1>. node \in Seq(Node) /\ Spells(ks) /\ p \in 1 .. N /\ r \in Node /\ v = N + 1
  BY Zenon DEF Adds
<1>1. PICK n \in Nat : n = N BY DEF N
<1>2. PICK g : g = Grown(ks, p, v) OBVIOUS
<1>3. /\ ks \in [1 .. n -> Seq(1 .. n)] /\ ListsApart(1 .. n, ks) /\ v = n + 1 /\ p \in 1 .. n
      /\ N' = v /\ node'[v] = r
  <2>1. ks \in [1 .. N -> Seq(1 .. N)] /\ ListsApart(1 .. N, ks) BY Zenon DEF Spells
  <2>2. N' = v /\ node'[v] = r BY ONLY Adds(ks, p, r, v), AddNodes
  <2>. QED BY <1>1, <2>1, <2>2
<1>4. PICK last : last = Last(p) OBVIOUS
<1>5. \A m \in 1 .. n :
        /\ node'[m].previous_dir = node[m].previous_dir
        /\ node'[m].next_dir = IF m = p /\ ks[p] = <<>> THEN v ELSE node[m].next_dir
        /\ node'[m].next_in_current_dir = IF m = last THEN v ELSE node[m].next_in_current_dir
  <2>1. \A m \in 1 .. N :
          /\ SameNode(node'[m], node[m])
          /\ node'[m].next_dir = IF m = p /\ ks[p] = <<>> THEN v ELSE node[m].next_dir
          /\ node'[m].next_in_current_dir =
               IF m = Last(p) THEN v ELSE node[m].next_in_current_dir
    BY ONLY Adds(ks, p, r, v), AddNodes
  <2>2. \A m \in 1 .. N : node'[m].previous_dir = node[m].previous_dir
    BY <2>1, Zenon DEF SameNode
  <2>. QED BY <1>1, <1>4, <2>1, <2>2
<1>6. /\ g \in [1 .. v -> Seq(1 .. v)] /\ g[v] = <<>> /\ g[p] = Append(ks[p], v)
      /\ \A q \in (1 .. n) \ {p} : g[q] = ks[q]
  <2>1. Grows(n, v, ks, p, g) BY <1>2, <1>3, Zenon DEF Grows
  <2>. QED BY ONLY <2>1, GrownFacts
<1>7. /\ ListsApart(1 .. v, g)
      /\ \A q \in 1 .. v : \A i \in 1 .. Len(g[q]) :
           \/ q = p /\ i = Len(ks[p]) + 1 /\ g[q][i] = v
           \/ q \in 1 .. n /\ i \in 1 .. Len(ks[q]) /\ g[q][i] = ks[q][i]
      /\ \A q \in 1 .. n : \A i \in 1 .. Len(ks[q]) : i \in 1 .. Len(g[q]) /\ g[q][i] = ks[q][i]
      /\ Len(ks[p]) \in Nat /\ Len(g[p]) = Len(ks[p]) + 1 /\ g[p][Len(ks[p]) + 1] = v
  <2>1. Gains(n, v, ks, p, g) BY <1>3, <1>6, Zenon DEF Gains
  <2>. QED BY ONLY <2>1, GrownApart
<1>8. last = (IF ks[p] = <<>> THEN NULL ELSE ks[p][Len(ks[p])])
  BY <1>1, <1>4, LastIs, Zenon DEF TailOf
<1>9. \A q \in 1 .. n : /\ Len(ks[q]) \in Nat /\ (ks[q] = <<>> <=> Len(ks[q]) = 0)
                        /\ \A i \in 1 .. Len(ks[q]) : ks[q][i] \in 1 .. n
  BY <1>3
<1>10. /\ \A q \in 1 .. n : node[q].next_dir = IF ks[q] = <<>> THEN NULL ELSE ks[q][1]
       /\ \A q \in 1 .. n : \A i \in 1 .. Len(ks[q]) :
            node[ks[q][i]].next_in_current_dir = IF i < Len(ks[q]) THEN ks[q][i + 1] ELSE NULL
       /\ \A q \in 1 .. n : \A i \in 1 .. Len(ks[q]) : node[ks[q][i]].previous_dir = q
       /\ \A m \in 1 .. n : \/ node[m].next_in_current_dir = NULL
                            \/ \E q \in 1 .. n : \E i \in 1 .. Len(ks[q]) : m = ks[q][i]
  <2>1. \A m \in 1 .. n : NextInDir[m] = node[m].next_in_current_dir BY <1>1 DEF NextInDir
  <2>2. \A q \in 1 .. n : \A i \in 1 .. Len(ks[q]) :
          NextInDir[ks[q][i]] = IF i < Len(ks[q]) THEN ks[q][i + 1] ELSE NULL
    BY <1>1 DEF Spells, Chain
  <2>3. \A m \in 1 .. n : \/ NextInDir[m] = NULL
                          \/ \E q \in 1 .. n : \E i \in 1 .. Len(ks[q]) : m = ks[q][i]
    BY <1>1 DEF Spells
  <2>4. /\ \A q \in 1 .. n : node[q].next_dir = IF ks[q] = <<>> THEN NULL ELSE ks[q][1]
        /\ \A q \in 1 .. n : \A i \in 1 .. Len(ks[q]) : node[ks[q][i]].previous_dir = q
    BY <1>1, Zenon DEF Spells
  <2>5. \A q \in 1 .. n : \A i \in 1 .. Len(ks[q]) :
          node[ks[q][i]].next_in_current_dir = IF i < Len(ks[q]) THEN ks[q][i + 1] ELSE NULL
    BY ONLY <1>9, <2>1, <2>2, Zenon
  <2>6. \A m \in 1 .. n : \/ node[m].next_in_current_dir = NULL
                          \/ \E q \in 1 .. n : \E i \in 1 .. Len(ks[q]) : m = ks[q][i]
    BY ONLY <2>1, <2>3, Zenon
  <2>. QED BY ONLY <2>4, <2>5, <2>6, Zenon
<1>11. \A q \in 1 .. n : \A i \in 1 .. Len(ks[q]) :
         ks[q][i] = last <=> q = p /\ i = Len(ks[p])
  <2>. SUFFICES ASSUME NEW q \in 1 .. n, NEW i \in 1 .. Len(ks[q])
                PROVE  ks[q][i] = last <=> q = p /\ i = Len(ks[p])
    OBVIOUS
  <2>1. CASE ks[p] = <<>>
    <3>1. last = 0 /\ Len(ks[p]) = 0 BY <1>3, <1>8, <1>9, <2>1 DEF NULL
    <3>. QED BY <1>9, <3>1
  <2>2. CASE ks[p] # <<>>
    <3>1. Len(ks[p]) \in 1 .. Len(ks[p]) /\ last = ks[p][Len(ks[p])] BY <1>3, <1>8, <1>9, <2>2
    <3>2. \A a, b \in 1 .. n : \A j \in 1 .. Len(ks[a]), k \in 1 .. Len(ks[b]) :
            ks[a][j] = ks[b][k] => a = b /\ j = k
      BY <1>3, Zenon DEF ListsApart
    <3>. QED BY ONLY <1>3, <3>1, <3>2
  <2>. QED BY <2>1, <2>2
<1>12. \A q \in 1 .. v : node'[q].next_dir = IF g[q] = <<>> THEN NULL ELSE g[q][1]
  <2>. TAKE q \in 1 .. v
  <2>1. CASE q = v BY <1>3, <1>6, <2>1
  <2>2. CASE q = p
    <3>1. g[p] # <<>> /\ 1 \in 1 .. Len(g[p]) BY <1>7
    <3>2. CASE ks[p] = <<>>
      <4>1. g[p][1] = v BY <1>3, <1>7, <1>9, <3>2
      <4>. QED BY <1>3, <1>5, <2>2, <3>1, <3>2, <4>1
    <3>3. CASE ks[p] # <<>>
      <4>1. 1 \in 1 .. Len(ks[p]) BY <1>3, <1>9, <3>3
      <4>2. g[p][1] = ks[p][1] BY <1>3, <1>7, <4>1
      <4>. QED BY <1>3, <1>5, <1>10, <2>2, <3>1, <3>3, <4>2
    <3>. QED BY <3>2, <3>3
  <2>3. CASE q \in (1 .. n) \ {p}
    <3>1. g[q] = ks[q] /\ q \in 1 .. n /\ q # p BY <1>6, <2>3
    <3>2. node'[q].next_dir = node[q].next_dir BY <1>5, <3>1
    <3>. QED BY <1>10, <3>1, <3>2
  <2>4. q \in 1 .. n \/ q = v BY ONLY <1>3, n \in Nat, q \in 1 .. v
  <2>. QED BY <2>1, <2>2, <2>3, <2>4
<1>13. \A q \in 1 .. v : \A i \in 1 .. Len(g[q]) :
         /\ node'[g[q][i]].next_in_current_dir = IF i < Len(g[q]) THEN g[q][i + 1] ELSE NULL
         /\ node'[g[q][i]].previous_dir = q
  <2>. SUFFICES ASSUME NEW q \in 1 .. v, NEW i \in 1 .. Len(g[q])
                PROVE  /\ node'[g[q][i]].next_in_current_dir =
                            IF i < Len(g[q]) THEN g[q][i + 1] ELSE NULL
                       /\ node'[g[q][i]].previous_dir = q
    OBVIOUS
  <2>1. CASE q = p /\ i = Len(ks[p]) + 1 /\ g[q][i] = v
    <3>1. ~(i < Len(g[q])) BY <1>7, <2>1
    <3>. QED BY ONLY <1>3, <2>1, <3>1, r.next_in_current_dir = NULL, r.previous_dir = p
  <2>2. CASE q \in 1 .. n /\ i \in 1 .. Len(ks[q]) /\ g[q][i] = ks[q][i]
    <3>. DEFINE m == ks[q][i]
    <3>1. m \in 1 .. n /\ g[q][i] = m BY <1>9, <2>2
    <3>2. node'[m].previous_dir = q BY <1>5, <1>10, <2>2, <3>1
    <3>3. CASE m = last
      <4>1. q = p /\ i = Len(ks[p]) BY <1>11, <2>2, <3>3
      <4>2. g[q][i + 1] = v /\ i < Len(g[q]) BY <1>7, <4>1
      <4>3. node'[m].next_in_current_dir = v BY <1>5, <3>1, <3>3
      <4>. QED BY <3>1, <3>2, <4>2, <4>3
    <3>4. CASE m # last
      <4>1. node'[m].next_in_current_dir = IF i < Len(ks[q]) THEN ks[q][i + 1] ELSE NULL
        BY <1>5, <1>10, <2>2, <3>1, <3>4
      <4>2. ~(q = p /\ i = Len(ks[p])) BY <1>11, <2>2, <3>4
      <4>3. Len(ks[q]) \in Nat BY <1>9, <2>2
      <4>4. CASE i < Len(ks[q])
        <5>1. i + 1 \in 1 .. Len(ks[q]) BY <2>2, <4>3, <4>4
        <5>2. i + 1 \in 1 .. Len(g[q]) /\ g[q][i + 1] = ks[q][i + 1] BY <1>7, <2>2, <5>1
        <5>. QED BY <3>1, <3>2, <4>1, <4>4, <5>2
      <4>5. CASE ~(i < Len(ks[q]))
        <5>1. i = Len(ks[q]) BY <2>2, <4>3, <4>5
        <5>2. q # p BY <4>2, <5>1
        <5>3. g[q] = ks[q] BY <1>6, <2>2, <5>2
        <5>. QED BY <3>1, <3>2, <4>1, <4>5, <5>3
      <4>. QED BY <4>4, <4>5
    <3>. QED BY <3>3, <3>4
  <2>. QED BY <1>7, <2>1, <2>2
<1>14. \A m \in 1 .. v : \/ node'[m].next_in_current_dir = NULL
                         \/ \E q \in 1 .. v : \E i \in 1 .. Len(g[q]) : m = g[q][i]
  <2>. SUFFICES ASSUME NEW m \in 1 .. v
                PROVE  \/ node'[m].next_in_current_dir = NULL
                       \/ \E q \in 1 .. v : \E i \in 1 .. Len(g[q]) : m = g[q][i]
    OBVIOUS
  <2>1. CASE m = v BY <1>3, <2>1
  <2>2. CASE m # v /\ \E q \in 1 .. n : \E i \in 1 .. Len(ks[q]) : m = ks[q][i]
    <3>1. PICK q \in 1 .. n : \E i \in 1 .. Len(ks[q]) : m = ks[q][i] BY <2>2
    <3>2. PICK i \in 1 .. Len(ks[q]) : m = ks[q][i] BY <3>1
    <3>3. q \in 1 .. v /\ i \in 1 .. Len(g[q]) /\ m = g[q][i] BY <1>3, <1>7, <3>2
    <3>. QED BY <3>3
  <2>3. CASE m # v /\ ~\E q \in 1 .. n : \E i \in 1 .. Len(ks[q]) : m = ks[q][i]
    <3>1. m \in 1 .. n BY <1>3, <2>3
    <3>2. node[m].next_in_current_dir = NULL BY <1>10, <2>3, <3>1
    <3>3. CASE ks[p] = <<>>
      <4>1. m # last BY <1>8, <3>1, <3>3 DEF NULL
      <4>. QED BY <1>5, <3>1, <3>2, <4>1
    <3>4. CASE ks[p] # <<>>
      <4>1. Len(ks[p]) \in 1 .. Len(ks[p]) BY <1>3, <1>9, <3>4
      <4>2. m # last BY <1>3, <1>8, <2>3, <3>4, <4>1
      <4>. QED BY <1>5, <3>1, <3>2, <4>2
    <3>. QED BY <3>3, <3>4
  <2>. QED BY <2>1, <2>2, <2>3
<1>15. Spells(g)'
  <2>1. \A m \in 1 .. v : NextInDir'[m] = node'[m].next_in_current_dir BY <1>3 DEF NextInDir
  <2>2. \A q \in 1 .. v : \A i \in 1 .. Len(g[q]) : g[q][i] \in 1 .. v
    <3>. TAKE q \in 1 .. v
    <3>1. g[q] \in Seq(1 .. v) BY <1>6
    <3>. QED BY <3>1
  <2>3. \A q \in 1 .. v : Chain(NextInDir', g[q])
    <3>. TAKE q \in 1 .. v
    <3>1. \A i \in 1 .. Len(g[q]) :
            NextInDir'[g[q][i]] = IF i < Len(g[q]) THEN g[q][i + 1] ELSE NULL
      <4>. TAKE i \in 1 .. Len(g[q])
      <4>1. NextInDir'[g[q][i]] = node'[g[q][i]].next_in_current_dir BY ONLY <2>1, <2>2
      <4>. QED BY <1>13, <4>1, Zenon
    <3>. QED BY <3>1, Zenon DEF Chain
  <2>4. \A m \in 1 .. v : \/ NextInDir'[m] = NULL
                          \/ \E q \in 1 .. v : \E i \in 1 .. Len(g[q]) : m = g[q][i]
    BY <1>14, <2>1
  <2>. QED BY <1>3, <1>6, <1>7, <1>12, <1>13, <2>3, <2>4 DEF Spells
<1>. QED BY <1>2, <1>15
---------------------------------------------------------------------------
\* The lists that the links spell are the lists of children, before and after a step.
SpelledAreKids ==
  \A ks : node \in Seq(Node) /\ Spells(ks) => KidsOf = ks

LEMMA SpelledKids == SpelledAreKids /\ SpelledAreKids'
<1>1. SpelledAreKids BY KidsAre, Zenon DEF SpelledAreKids
<1>. QED BY <1>1, PTL
---------------------------------------------------------------------------
(* The tree. *)
\* Where k nodes behind the header end.
End(k) == MAGIC + k * NODE

\* The nodes, their record and their links.
Building == step \in {"build", "aborted"}
TreeInv ==
  /\ node \in Seq(Node) /\ Numbered /\ Spells(KidsOf)
  /\ Building => filesystem_address = Address(M)

\* The names in the order of the nodes.
LEMMA NamesAre ==
  ASSUME node \in Seq(Node)
  PROVE  Names = [n \in 1 .. N |-> node[n].name] /\ Names \in Seq(NAMES) /\ Len(Names) = N
<1>1. N \in Nat /\ DOMAIN node = 1 .. N /\ \A n \in 1 .. N : node[n] \in Node BY DEF N
<1>2. \A n \in 1 .. N : node[n].name \in NAMES BY <1>1 DEF Node
<1>4. Names = <<>> \o [n \in 1 .. N |-> node[n].name] BY <1>1 DEF Names
<1>5. PICK s : s = [n \in 1 .. N |-> node[n].name] OBVIOUS
<1>6. s \in Seq(NAMES) /\ Len(s) = N BY <1>1, <1>2, <1>5
<1>7. <<>> \o s = s BY <1>6, ConcatEmptySeq
<1>. QED BY <1>4, <1>5, <1>6, <1>7

NamesFact ==
  node \in Seq(Node) =>
    Names = [n \in 1 .. N |-> node[n].name] /\ Names \in Seq(NAMES) /\ Len(Names) = N
LEMMA NamesHold == NamesFact /\ NamesFact'
<1>1. NamesFact BY NamesAre, Zenon DEF NamesFact
<1>. QED BY <1>1, PTL

\* A step that leaves the nodes and their record alone.
LEMMA TreeKept ==
  ASSUME TreeInv, UNCHANGED tree,
         Building' => Building /\ filesystem_address' = filesystem_address
  PROVE  TreeInv' /\ UNCHANGED <<Names, KidsOf, Refused>>
<1>. USE DEF tree
<1>1. PICK ks : ks = KidsOf OBVIOUS
<1>2. /\ N' = N /\ M' = M /\ NextInDir' = NextInDir /\ Recorded' = Recorded
      /\ \A n : Address(n)' = Address(n) /\ Nth(n)' = Nth(n)
  BY DEF N, M, NextInDir, Address, Nth, Recorded
<1>3. node' \in Seq(Node) /\ Numbered' BY <1>2 DEF TreeInv, Numbered
<1>9. Spells(ks) BY <1>1, Zenon DEF TreeInv
<1>4. Spells(ks)'
  <2>1. node' = node BY DEF TreeInv
  <2>. QED BY ONLY <1>9, <1>2, <2>1 DEF Spells
<1>5. KidsOf' = ks BY <1>3, <1>4, SpelledKids, Zenon DEF SpelledAreKids
<1>6. Spells(KidsOf)'
  <2>1. PICK k : k = KidsOf' OBVIOUS
  <2>2. Spells(k)' BY <1>4, <1>5, <2>1
  <2>. QED BY ONLY <2>1, <2>2 DEF Spells
<1>7. Names' = Names BY <1>2, <1>3, NamesHold, Zenon DEF NamesFact, TreeInv
<1>8. (Building => filesystem_address = Address(M))'
  BY <1>2 DEF TreeInv
<1>10. Refused' = Refused BY <1>2 DEF Refused
<1>. QED BY <1>1, <1>3, <1>5, <1>6, <1>7, <1>8, <1>10 DEF TreeInv
---------------------------------------------------------------------------
\* Addresses and ends are one node apart.
LEMMA Places ==
  \A n \in Nat : /\ Address(n) \in Nat /\ End(n) \in Nat /\ Address(n) = BASE + End(n)
                 /\ Address(n + 1) = Address(n) + NODE /\ End(n + 1) = End(n) + NODE
<1>1. \A n \in Nat : n * NODE \in Nat /\ (n + 1) * NODE = n * NODE + NODE BY ImageConstants
<1>. QED BY <1>1, ImageConstants DEF Address, End, MAGIC

\* A record of fewer nodes is one of more.
LEMMA RecordWidens ==
  ASSUME NEW n \in Nat, NEW a \in Seq([node: 1 .. n, address: Nat])
  PROVE  a \in Seq([node: 1 .. n + 1, address: Nat])
<1>1. PICK R : R = [node: 1 .. n, address: Nat] OBVIOUS
<1>2. PICK S : S = [node: 1 .. n + 1, address: Nat] OBVIOUS
<1>3. \A x \in R : x \in S BY <1>1, <1>2
<1>4. a \in Seq(R) BY <1>1
<1>5. a \in Seq(S) BY ONLY <1>3, <1>4
<1>. QED BY <1>2, <1>5

\* A new node is recorded with the next address ...
LEMMA RecordAppended ==
  ASSUME N \in Nat, Numbered, N' = N + 1,
         addresses' = Append(addresses, [node |-> N + 1, address |-> Address(M + 1)])
  PROVE  /\ Numbered' /\ M' = M + 1 /\ Recorded' = Recorded \cup {N + 1}
         /\ addresses'[M + 1].node = N + 1 /\ \A k \in 1 .. M : Nth(k)' = Nth(k)
<1>1. PICK n \in Nat, m \in Nat : n = N /\ m = M BY NumberedFacts
<1>2. PICK x \in Nat : x = Address(m + 1)
  <2>1. m + 1 \in Nat OBVIOUS
  <2>. QED BY <2>1, Places
<1>3. PICK e : e = [node |-> n + 1, address |-> x] OBVIOUS
<1>4. PICK S : S = [node: 1 .. n + 1, address: Nat] OBVIOUS
<1>5. PICK a : a = addresses OBVIOUS
<1>6. a \in Seq(S) /\ Len(a) = m
  <2>1. a \in Seq([node: 1 .. n, address: Nat]) BY <1>1, <1>5 DEF Numbered
  <2>. QED BY <1>1, <1>4, <1>5, <2>1, RecordWidens DEF M
<1>7. e \in S BY <1>3, <1>4
<1>8. PICK w : w = Append(a, e) OBVIOUS
<1>9. w \in Seq(S) /\ Len(w) = m + 1 /\ w[m + 1] = e /\ \A i \in 1 .. m : w[i] = a[i]
  BY ONLY <1>6, <1>7, <1>8, AppendProperties
<1>10. addresses' = w /\ M' = m + 1 /\ N' = n + 1 BY <1>1, <1>2, <1>3, <1>5, <1>8, <1>9 DEF M
<1>11. \A k \in 1 .. m : Nth(k)' = Nth(k) /\ addresses'[k] = addresses[k]
  BY <1>5, <1>9, <1>10 DEF Nth
<1>12. \A k \in 1 .. m : Nth(k) \in 1 .. n BY <1>1, NumberedFacts
<1>13. Nth(m + 1)' = n + 1 /\ addresses'[m + 1].address = x BY <1>3, <1>9, <1>10 DEF Nth
<1>14. \A k \in 1 .. m + 1 : k = m + 1 \/ k \in 1 .. m OBVIOUS
<1>15. \A k : Address(k)' = Address(k) BY DEF Address
<1>16. addresses' \in Seq([node: 1 .. N', address: Nat]) BY <1>4, <1>9, <1>10
<1>17. \A k \in 1 .. M' : addresses'[k].address = Address(k)'
  <2>1. \A k \in 1 .. m : addresses[k].address = Address(k) BY <1>1 DEF Numbered
  <2>2. \A k \in 1 .. m + 1 : addresses'[k].address = Address(k)
    BY <1>2, <1>11, <1>13, <1>14, <2>1
  <2>. QED BY <1>10, <1>15, <2>2
<1>18. \A j, k \in 1 .. M' : Nth(j)' = Nth(k)' => j = k
  <2>1. \A j, k \in 1 .. m : Nth(j) = Nth(k) => j = k BY <1>1, Zenon DEF Numbered
  <2>2. \A k \in 1 .. m : Nth(k)' # n + 1 BY <1>11, <1>12
  <2>3. \A j, k \in 1 .. m + 1 : Nth(j)' = Nth(k)' => j = k
    BY ONLY <1>11, <1>13, <1>14, <2>1, <2>2
  <2>. QED BY <1>10, <2>3
<1>19. Numbered' BY <1>16, <1>17, <1>18 DEF Numbered
<1>20. Recorded' = Recorded \cup {n + 1}
  <2>1. Recorded = {Nth(k) : k \in 1 .. m} BY <1>1, NumberedFacts
  <2>2. DOMAIN w = 1 .. m + 1 BY ONLY <1>9, m \in Nat
  <2>3. Recorded' = {w[k].node : k \in 1 .. m + 1} BY <1>10, <2>2 DEF Recorded
  <2>4. \A k \in 1 .. m + 1 : w[k].node = IF k = m + 1 THEN n + 1 ELSE Nth(k)
    BY <1>10, <1>11, <1>13, <1>14 DEF Nth
  <2>. QED BY ONLY <2>1, <2>3, <2>4, <1>14, m \in Nat
<1>. QED BY <1>1, <1>10, <1>11, <1>13, <1>19, <1>20 DEF Nth

\* ... or, if its data is refused, not.
LEMMA RecordStays ==
  ASSUME N \in Nat, Numbered, N' = N + 1, addresses' = addresses
  PROVE  Numbered' /\ M' = M /\ Recorded' = Recorded /\ \A k \in 1 .. M : Nth(k)' = Nth(k)
<1>1. addresses' \in Seq([node: 1 .. N + 1, address: Nat]) BY RecordWidens DEF Numbered
<1>2. /\ M' = M /\ Recorded' = Recorded
      /\ \A k : Nth(k)' = Nth(k) /\ Address(k)' = Address(k)
  BY DEF M, Recorded, Nth, Address
<1>. QED BY <1>1, <1>2 DEF Numbered

\* What set_node returns is a node without children.
LEMMA NewNode ==
  ASSUME NEW nm \in NAMES, NEW t \in {FILE_CODE, DIRECTORY}, NEW prev \in Nat, NEW parent \in Nat,
         NEW d \in SIZES \cup {NODATA}
  PROVE  LET r == set_node(nm, t, prev, parent, d) IN
         /\ r \in Node /\ r.name = nm
         /\ r.next_in_current_dir = NULL /\ r.next_dir = NULL /\ r.previous_dir = parent
<1>1. PICK b \in BOOLEAN : b = (d \in Nat)
  <2>1. (d \in Nat) \in BOOLEAN BY SMT
  <2>. QED BY <2>1, Zenon
<1>2. PICK s \in Nat : s = Size(d) BY ImageConstants DEF Size, NODATA
<1>3. set_node(nm, t, prev, parent, d) =
        [name |-> nm, harshfs_node_type |-> t, size |-> s, data |-> b,
         next_in_current_dir |-> NULL, previous_in_current_dir |-> prev,
         next_dir |-> NULL, previous_dir |-> parent]
  BY <1>1, <1>2, Zenon DEF set_node
<1>4. NULL \in Nat BY DEF NULL
<1>5. PICK z \in Nat : z = NULL BY <1>4
<1>. QED BY <1>3, <1>5 DEF Node
---------------------------------------------------------------------------
\* What a step that links a node with the data d makes of the nodes ...
Inserted(d) ==
  /\ node' \in Seq(Node) /\ N' = N + 1
  /\ node'[N + 1].data = (d \in Nat) /\ node'[N + 1].size = Size(d)
  /\ \A n \in 1 .. N : SameNode(node'[n], node[n])

\* ... and of those that are recorded.
Entry(k) == node[Nth(k)]
EntriesKept == \A k \in 1 .. M : SameNode(Entry(k)', Entry(k))
NewEntry(d) ==
  /\ EntriesKept /\ M' = M + 1
  /\ \E k \in Nat : k = M + 1 /\ Entry(k)'.data = (d \in Nat) /\ Entry(k)'.size = Size(d)

\* The node of a record keeps what it holds.
LEMMA EntriesStay ==
  ASSUME Numbered, NEW d, Inserted(d), \A k \in 1 .. M : Nth(k)' = Nth(k)
  PROVE  EntriesKept
<1>1. \A k \in 1 .. M : Nth(k) \in 1 .. N BY NumberedFacts
<1>2. \A n \in 1 .. N : SameNode(node'[n], node[n]) BY Zenon DEF Inserted
<1>3. \A k \in 1 .. M : Entry(k)' = node'[Nth(k)] /\ Entry(k) = node[Nth(k)] BY DEF Entry
<1>. QED BY <1>1, <1>2, <1>3, Zenon DEF EntriesKept

LEMMA EntryAdded ==
  ASSUME Numbered, NEW d, Inserted(d), M' = M + 1, addresses'[M + 1].node = N + 1,
         \A k \in 1 .. M : Nth(k)' = Nth(k)
  PROVE  NewEntry(d)
<1>1. PICK m \in Nat : m = M + 1
  <2>1. M + 1 \in Nat BY NumberedFacts
  <2>. QED BY <2>1
<1>4. PICK v : v = N + 1 OBVIOUS
<1>2. Entry(m)' = node'[v] BY <1>1, <1>4 DEF Entry, Nth
<1>3. node'[v].data = (d \in Nat) /\ node'[v].size = Size(d) BY <1>4, Zenon DEF Inserted
<1>. QED BY <1>1, <1>2, <1>3, EntriesStay, Zenon DEF NewEntry

\* add_root: the promised root.
LEMMA RootAdded ==
  ASSUME TreeInv, NEW nm \in NAMES, add_root(nm)
  PROVE  TreeInv' /\ Tree!AddRoot(nm) /\ NewEntry(NODATA) /\ M = 0
<1>1. PICK r : r = set_node(nm, DIRECTORY, NULL, NULL, NODATA) OBVIOUS
<1>2. r \in Node /\ r.name = nm /\ r.next_dir = NULL /\ r.next_in_current_dir = NULL
  BY <1>1, NewNode DEF DIRECTORY, NULL
<1>3. /\ node = <<>> /\ node' = <<r>> /\ step = "build" /\ step' = step
      /\ filesystem_address' = filesystem_address + NODE
      /\ addresses' = Append(addresses, [node |-> 1, address |-> filesystem_address'])
  BY <1>1 DEF add_root, record
<1>4. node' \in Seq(Node) /\ N = 0 /\ N' = 1 /\ node'[1] = r BY <1>2, <1>3 DEF N
<1>5. M = 0 /\ filesystem_address' = Address(1)
  <2>1. M = 0
    <3>1. M \in Nat /\ \A i \in 1 .. M : Nth(i) \in 1 .. N BY NumberedFacts DEF TreeInv
    <3>2. M # 0 => 1 \in 1 .. M BY <3>1
    <3>. QED BY <1>4, <3>1, <3>2
  <2>. QED BY <1>3, <2>1, Places DEF TreeInv, Building
<1>6. /\ Numbered' /\ M' = M + 1 /\ Recorded' = Recorded \cup {N + 1}
      /\ addresses'[M + 1].node = N + 1 /\ \A i \in 1 .. M : Nth(i)' = Nth(i)
  <2>1. Numbered /\ N \in Nat /\ N' = N + 1 /\ N + 1 = 1 /\ M + 1 = 1 BY <1>4, <1>5 DEF TreeInv
  <2>2. addresses' = Append(addresses, [node |-> N + 1, address |-> Address(M + 1)])
    BY <1>3, <1>5, <2>1
  <2>. QED BY <2>1, <2>2, RecordAppended
<1>7. PICK g : g = << <<>> >> OBVIOUS
<1>8. Spells(g)'
  <2>5. g \in Seq(Seq(1 .. 1)) /\ Len(g) = 1 /\ g[1] = <<>> /\ Len(g[1]) = 0 BY ONLY <1>7
  <2>6. g \in [1 .. 1 -> Seq(1 .. 1)] BY ONLY <2>5
  <2>7. \A p \in 1 .. 1 : p = 1 OBVIOUS
  <2>1. g \in [1 .. 1 -> Seq(1 .. 1)] /\ \A p \in 1 .. 1 : g[p] = <<>> /\ Len(g[p]) = 0 /\ p = 1
    BY ONLY <2>5, <2>6, <2>7
  <2>2. \A p \in 1 .. 1 : \A i \in 1 .. Len(g[p]) : FALSE BY <2>1
  <2>3. ListsApart(1 .. 1, g) /\ \A p \in 1 .. 1 : Chain(NextInDir', g[p])
    BY <2>2 DEF ListsApart, Chain
  <2>4. \A n \in 1 .. 1 : NextInDir'[n] = NULL /\ node'[n].next_dir = NULL
    BY <1>2, <1>4 DEF NextInDir
  <2>. QED BY <1>4, <2>1, <2>2, <2>3, <2>4 DEF Spells
<1>9. KidsOf' = g BY <1>4, <1>8, SpelledKids DEF SpelledAreKids
<1>10. Spells(KidsOf)'
  <2>1. PICK k : k = KidsOf' OBVIOUS
  <2>2. Spells(k)' BY <1>8, <1>9, <2>1
  <2>. QED BY ONLY <2>1, <2>2 DEF Spells
<1>11. Names = <<>> /\ Names' = <<nm>>
  <2>1. Names \in Seq(NAMES) /\ Len(Names) = 0 BY <1>4, NamesHold DEF NamesFact, TreeInv
  <2>2. Names' = [n \in 1 .. 1 |-> node'[n].name] BY <1>4, NamesHold DEF NamesFact
  <2>3. Names' = [n \in 1 .. 1 |-> nm] BY <1>2, <1>4, <2>2
  <2>. QED BY <2>1, <2>3
<1>12. TreeInv'
  <2>1. M' = 1 /\ Address(1)' = Address(1) BY <1>5, <1>6 DEF Address
  <2>2. filesystem_address' = Address(M)'
    <3>1. PICK m : m = M' OBVIOUS
    <3>2. Address(M)' = Address(m)' BY <3>1 DEF Address
    <3>. QED BY <1>5, <2>1, <3>1, <3>2
  <2>. QED BY <1>4, <1>6, <1>10, <2>2 DEF TreeInv
<1>13. Refused' = Refused
  <2>1. DOMAIN node' = {1} /\ DOMAIN node = {} BY <1>3
  <2>2. 1 \in Recorded' BY <1>4, <1>6
  <2>. QED BY <2>1, <2>2 DEF Refused
<1>14. Tree!AddRoot(nm) BY <1>7, <1>9, <1>11, <1>13 DEF Tree!AddRoot
<1>15. NewEntry(NODATA)
  <2>1. r.data = (NODATA \in Nat) /\ r.size = Size(NODATA) BY <1>1, Zenon DEF set_node
  <2>2. N' = N + 1 /\ node'[N + 1] = r /\ \A n \in 1 .. N : FALSE BY <1>4
  <2>3. Inserted(NODATA) BY <1>4, <2>1, <2>2, Zenon DEF Inserted
  <2>4. Numbered BY DEF TreeInv
  <2>. QED BY <1>6, <2>3, <2>4, EntryAdded
<1>. QED BY <1>5, <1>12, <1>14, <1>15

\* A parent that the caller can name is a node.
LEMMA ParentsAre ==
  ASSUME TreeInv PROVE Parents \subseteq 1 .. N
BY NumberedFacts DEF Parents, TreeInv

\* FILE_NAME_EXISTS compares with the names of the children, or the own one without any.
LEMMA TakenIs ==
  ASSUME TreeInv, NEW nm, NEW p \in 1 .. N
  PROVE  FILE_NAME_EXISTS(p, nm) <=> Tree!Taken(p, nm)
<1>1. N \in Nat BY DEF N, TreeInv
<1>2. PICK ks : ks = KidsOf OBVIOUS
<1>3. Spells(ks) BY <1>2, Zenon DEF TreeInv
<1>4. Names = [n \in 1 .. N |-> node[n].name] BY NamesHold DEF NamesFact, TreeInv
<1>5. PICK s \in Seq(1 .. N) : s = ks[p] BY <1>3 DEF Spells
<1>6. Siblings(p) = s /\ (node[p].next_dir = NULL <=> s = <<>>) BY <1>1, <1>3, <1>5, LastIs
<1>7. \A i \in DOMAIN s : s[i] \in 1 .. N /\ Names[s[i]] = node[s[i]].name
  <2>1. \A i \in DOMAIN s : s[i] \in 1 .. N BY ONLY <1>1, s \in Seq(1 .. N), ElementOfSeq
  <2>. QED BY <1>4, <2>1
<1>8. Names[p] = node[p].name BY <1>4
<1>9. FILE_NAME_EXISTS(p, nm) <=> IF s = <<>> THEN node[p].name = nm
                                  ELSE \E i \in DOMAIN s : node[s[i]].name = nm
  BY <1>6 DEF FILE_NAME_EXISTS
<1>10. Tree!Taken(p, nm) <=> IF s = <<>> THEN Names[p] = nm
                             ELSE \E i \in DOMAIN s : Names[s[i]] = nm
  BY <1>2, <1>5 DEF Tree!Taken
<1>. QED BY <1>7, <1>8, <1>9, <1>10

\* insert_harshfs_node: the promised child.
LEMMA ChildLinked ==
  ASSUME TreeInv, NEW nm \in NAMES, NEW p \in Parents, NEW t \in {FILE_CODE, DIRECTORY},
         NEW d \in SIZES \cup {NODATA}, insert_harshfs_node(p, t, nm, d)
  PROVE  Inserted(d) /\ Spells(KidsOf)' /\ Tree!Link(p, nm)
<1>0. p \in 1 .. N /\ N \in Nat BY ParentsAre DEF N, TreeInv
<1>1. PICK ks : ks = KidsOf OBVIOUS
<1>2. Spells(ks) BY <1>1, Zenon DEF TreeInv
<1>3. PICK v \in Nat : v = N + 1 BY <1>0
<1>4. PICK r : r = set_node(nm, t, Last(p), p, d) OBVIOUS
<1>5. PICK last \in Nat : last = Last(p) BY <1>0, <1>2, LastIs
<1>6. r \in Node /\ r.name = nm /\ r.next_dir = NULL /\ r.next_in_current_dir = NULL
      /\ r.previous_dir = p
  BY <1>0, <1>4, <1>5, NewNode
<1>7. v <= MAXNODES /\ ~FILE_NAME_EXISTS(p, nm) /\ node' = Append(Linked(p), r)
  BY <1>3, <1>4 DEF insert_harshfs_node, Wanted, New, N
<1>8. Adds(ks, p, r, v) BY <1>0, <1>2, <1>3, <1>6, <1>7, Zenon DEF Adds, TreeInv
<1>9. node' \in Seq(Node) /\ N' = v /\ node'[v] = r /\ \A n \in 1 .. N : SameNode(node'[n], node[n])
  BY ONLY <1>8, AddNodes
<1>12. PICK g : g = Grown(ks, p, v) OBVIOUS
<1>13. Spells(Grown(ks, p, v))' BY ONLY <1>6, <1>8, AddSpells
<1>14. Spells(g)' BY ONLY <1>12, <1>13 DEF Spells
<1>15. KidsOf' = g BY <1>9, <1>14, SpelledKids, Zenon DEF SpelledAreKids
<1>16. Spells(KidsOf)'
  <2>1. PICK k : k = KidsOf' OBVIOUS
  <2>2. Spells(k)' BY <1>14, <1>15, <2>1
  <2>. QED BY ONLY <2>1, <2>2 DEF Spells
<1>17. PICK a \in Seq(NAMES) : a = Names BY NamesHold DEF NamesFact, TreeInv
<1>18. a = [n \in 1 .. N |-> node[n].name] /\ Len(a) = N
  BY <1>17, NamesHold DEF NamesFact, TreeInv
<1>19. Names' = Append(a, nm)
  <2>1. Names' = [n \in 1 .. v |-> node'[n].name] /\ Names' \in Seq(NAMES) /\ Len(Names') = v
    BY <1>9, NamesHold DEF NamesFact
  <2>2. \A n \in 1 .. N : node'[n].name = node[n].name BY <1>9, Zenon DEF SameNode
  <2>5. PICK w \in Seq(NAMES) : w = Names' BY <2>1
  <2>3. \A n \in 1 .. v : n = v \/ n \in 1 .. N BY <1>0, <1>3
  <2>4. w = [n \in 1 .. v |-> IF n = v THEN nm ELSE a[n]]
    <3>1. \A n \in 1 .. v : node'[n].name = IF n = v THEN nm ELSE a[n]
      BY <1>6, <1>9, <1>18, <2>2, <2>3
    <3>. QED BY <2>1, <2>5, <3>1
  <2>6. PICK u : u = Append(a, nm) OBVIOUS
  <2>7. u \in Seq(NAMES) /\ Len(u) = v /\ u[v] = nm /\ \A n \in 1 .. N : u[n] = a[n]
    <3>1. Len(a) + 1 = v /\ Len(a) = N BY <1>3, <1>18
    <3>2. a \in Seq(NAMES) /\ nm \in NAMES OBVIOUS
    <3>. QED BY ONLY <2>6, <3>1, <3>2, AppendProperties
  <2>8. u = [n \in 1 .. v |-> u[n]] BY ONLY <2>7
  <2>9. u = w BY <2>3, <2>4, <2>7, <2>8
  <2>. QED BY <2>5, <2>6, <2>9
<1>21. Tree!Link(p, nm)
  <2>1. ~Tree!Taken(p, nm) BY <1>0, <1>7, TakenIs
  <2>2. Len(Names) < MAXNODES /\ Names' = Append(Names, nm) /\ Len(Names) + 1 = v
    BY <1>0, <1>3, <1>7, <1>17, <1>18, <1>19, ImageConstants
  <2>3. KidsOf' = Append([ks EXCEPT ![p] = Append(ks[p], v)], <<>>) BY <1>12, <1>15 DEF Grown
  <2>4. p \notin Refused BY DEF Refused, Parents
  <2>. QED BY <1>1, <2>1, <2>2, <2>3, <2>4 DEF Tree!Link
<1>22. Inserted(d)
  <2>1. r.data = (d \in Nat) /\ r.size = Size(d) BY <1>4, Zenon DEF set_node
  <2>. QED BY <1>3, <1>9, <2>1, Zenon DEF Inserted
<1>. QED BY <1>16, <1>21, <1>22

\* add_directory and add_file: it is recorded.
LEMMA NodeAdded ==
  ASSUME TreeInv, NEW nm \in NAMES, NEW p \in Parents, NEW t \in {FILE_CODE, DIRECTORY},
         NEW d \in SIZES \cup {NODATA}, add_node(p, t, nm, d)
  PROVE  TreeInv' /\ Tree!Add(p, nm) /\ NewEntry(d) /\ M # 0
<1>1. Inserted(d) /\ Spells(KidsOf)' /\ Tree!Link(p, nm) BY ChildLinked DEF add_node
<1>2. /\ step = "build" /\ step' = step
      /\ filesystem_address' = filesystem_address + NODE
      /\ addresses' = Append(addresses, [node |-> N + 1, address |-> filesystem_address'])
  BY DEF add_node, insert_harshfs_node, Wanted, record, New, N
<1>3. Numbered /\ N \in Nat /\ M \in Nat /\ N' = N + 1 /\ node' \in Seq(Node)
  BY <1>1, NumberedFacts DEF TreeInv, N, Inserted
<1>4. filesystem_address' = Address(M + 1) BY <1>2, <1>3, Places DEF TreeInv, Building
<1>5. /\ Numbered' /\ M' = M + 1 /\ Recorded' = Recorded \cup {N + 1}
      /\ addresses'[M + 1].node = N + 1 /\ \A k \in 1 .. M : Nth(k)' = Nth(k)
  BY <1>2, <1>3, <1>4, RecordAppended
<1>6. TreeInv'
  <2>1. filesystem_address' = Address(M)' BY <1>4, <1>5 DEF Address
  <2>. QED BY <1>1, <1>3, <1>5, <2>1 DEF TreeInv
<1>7. Refused' = Refused
  <2>1. DOMAIN node' = DOMAIN node \cup {N + 1} /\ N + 1 \notin DOMAIN node
    BY <1>3 DEF TreeInv, N
  <2>. QED BY <1>5, <2>1 DEF Refused
<1>8. NewEntry(d) BY <1>1, <1>3, <1>5, EntryAdded
<1>9. M # 0
  <2>1. Recorded # {} BY DEF Parents
  <2>. QED BY <1>3, <2>1, NumberedFacts
<1>. QED BY <1>1, <1>6, <1>7, <1>8, <1>9 DEF Tree!Add

\* add_file with data that is refused: it is freed, and a child all the same.
LEMMA NodeRefused ==
  ASSUME TreeInv, NEW nm \in NAMES, NEW p \in Parents, add_invalid(p, nm)
  PROVE  TreeInv' /\ Tree!Refuse(p, nm) /\ EntriesKept /\ M' = M
<1>0. NODATA \in SIZES \cup {NODATA} /\ FILE_CODE \in {FILE_CODE, DIRECTORY} OBVIOUS
<1>1. Inserted(NODATA) /\ Spells(KidsOf)' /\ Tree!Link(p, nm)
  BY <1>0, ChildLinked DEF add_invalid
<1>2. step = "build" /\ filesystem_address' = filesystem_address /\ addresses' = addresses
  BY DEF add_invalid, insert_harshfs_node, Wanted, sizes
<1>3. Numbered /\ N \in Nat /\ N' = N + 1 /\ node' \in Seq(Node)
  BY <1>1 DEF TreeInv, N, Inserted
<1>4. Numbered' /\ M' = M /\ Recorded' = Recorded /\ \A k \in 1 .. M : Nth(k)' = Nth(k)
  BY <1>2, <1>3, RecordStays
<1>5. TreeInv'
  <2>1. filesystem_address = Address(M) BY <1>2 DEF TreeInv, Building
  <2>2. filesystem_address' = Address(M)' BY <1>2, <1>4, <2>1 DEF Address
  <2>. QED BY <1>1, <1>3, <1>4, <2>2 DEF TreeInv
<1>6. Refused' = Refused \cup {Len(Names) + 1}
  <2>1. DOMAIN node' = DOMAIN node \cup {N + 1} BY <1>3 DEF TreeInv, N
  <2>2. N + 1 \notin Recorded BY <1>3, NumberedFacts
  <2>3. Len(Names) = N BY NamesHold DEF NamesFact, TreeInv
  <2>. QED BY <1>4, <2>1, <2>2, <2>3 DEF Refused
<1>7. EntriesKept BY <1>1, <1>3, <1>4, EntriesStay
<1>. QED BY <1>1, <1>4, <1>5, <1>6, <1>7 DEF Tree!Refuse
---------------------------------------------------------------------------
\* Before the root there is no tree.
LEMMA InitTree ==
  ASSUME Init PROVE TreeInv /\ Tree!Init
<1>1. node = <<>> /\ addresses = <<>> /\ filesystem_address = BASE + MAGIC BY DEF Init
<1>2. node \in Seq(Node) /\ N = 0 BY <1>1 DEF N
<1>3. M = 0 /\ Numbered BY <1>1, <1>2 DEF M, Numbered
<1>4. PICK ks : ks = <<>> OBVIOUS
<1>5. Spells(ks)
  <2>1. ks \in [1 .. 0 -> Seq(1 .. 0)] BY <1>4
  <2>. QED BY <1>2, <2>1 DEF Spells, ListsApart
<1>6. KidsOf = ks BY <1>2, <1>5, KidsAre
<1>7. Spells(KidsOf)
  <2>1. PICK k : k = KidsOf OBVIOUS
  <2>. QED BY <1>5, <1>6, Zenon
<1>8. Names = <<>>
  <2>1. Names \in Seq(NAMES) /\ Len(Names) = 0 BY <1>2, NamesAre
  <2>. QED BY <2>1
<1>9. filesystem_address = Address(M) BY <1>1, <1>3, ImageConstants DEF Address, MAGIC
<1>10. Refused = {} BY <1>1 DEF Refused
<1>. QED BY <1>2, <1>3, <1>4, <1>6, <1>7, <1>8, <1>9, <1>10 DEF TreeInv, Tree!Init

\* Every step keeps the tree or adds the node that is promised.
LEMMA NextTree ==
  ASSUME TreeInv, [Next]_vars PROVE TreeInv' /\ [Tree!Next]_(Tree!vars)
<1>1. ASSUME UNCHANGED tree,
             Building' => Building /\ filesystem_address' = filesystem_address
      PROVE  TreeInv' /\ [Tree!Next]_(Tree!vars)
  BY <1>1, TreeKept DEF Tree!vars
<1>7. Parents \subseteq DOMAIN Names
  <2>1. N \in Nat /\ Names = [n \in 1 .. N |-> node[n].name]
    BY NamesHold DEF NamesFact, TreeInv, N
  <2>. QED BY <2>1, ParentsAre
<1>2. ASSUME NEW nm \in NAMES, add_root(nm) PROVE TreeInv' /\ [Tree!Next]_(Tree!vars)
  BY <1>2, RootAdded, Zenon DEF Tree!Next
<1>3. ASSUME NEW nm \in NAMES, NEW p \in Parents, NEW t \in {FILE_CODE, DIRECTORY},
             NEW d \in SIZES \cup {NODATA}, add_node(p, t, nm, d)
      PROVE  TreeInv' /\ [Tree!Next]_(Tree!vars)
  <2>1. TreeInv' /\ Tree!Add(p, nm) BY <1>3, NodeAdded
  <2>2. p \in DOMAIN Names BY <1>7
  <2>. QED BY <2>1, <2>2, Zenon DEF Tree!Next
<1>4. CASE \E nm \in NAMES : \E p \in Parents :
             \/ add_directory(p, nm)
             \/ \E d \in SIZES \cup {NODATA} : add_file(p, nm, d)
             \/ add_invalid(p, nm)
  <2>1. PICK nm \in NAMES, p \in Parents :
             \/ add_directory(p, nm)
             \/ \E d \in SIZES \cup {NODATA} : add_file(p, nm, d)
             \/ add_invalid(p, nm)
    BY <1>4
  <2>2. CASE add_directory(p, nm) BY <1>3, <2>2 DEF add_directory
  <2>3. CASE \E d \in SIZES \cup {NODATA} : add_file(p, nm, d) BY <1>3, <2>3 DEF add_file
  <2>4. CASE add_invalid(p, nm)
    <3>1. TreeInv' /\ Tree!Refuse(p, nm) BY <2>4, NodeRefused
    <3>2. p \in DOMAIN Names BY <1>7
    <3>. QED BY <3>1, <3>2, Zenon DEF Tree!Next
  <2>. QED BY <2>1, <2>2, <2>3, <2>4
<1>5. CASE Main
  <2>1. UNCHANGED tree /\ ~Building'
    BY <1>5 DEF Main, creating_image, image_node, image_footer, read_harshfs_image,
                free_all_memory, Building
  <2>. QED BY <1>1, <2>1
<1>6. CASE UNCHANGED vars BY <1>1, <1>6 DEF vars, sizes, Building
<1>. QED BY <1>2, <1>4, <1>5, <1>6 DEF Next

\* The record and the links of the nodes, of create_kernel_initrd.c's insert_harshfs_node.
THEOREM TreeHolds == Spec => []TreeInv
<1>1. Init => TreeInv BY InitTree
<1>2. TreeInv /\ [Next]_vars => TreeInv' BY NextTree
<1>. QED BY <1>1, <1>2, PTL DEF Spec

(***************************************************************************)
(* The linked nodes are the promised tree: each insert_harshfs_node adds   *)
(* the youngest child of one recorded node, also when it then frees the    *)
(* new one and the program goes on, and no other step changes the tree.    *)
(***************************************************************************)
THEOREM TreeRefinement == Spec => ImplementsTree
<1>1. Init => Tree!Init BY InitTree
<1>2. TreeInv /\ [Next]_vars => [Tree!Next]_(Tree!vars) BY NextTree
<1>. QED BY <1>1, <1>2, TreeHolds, PTL DEF Spec, ImplementsTree, Tree!Spec

(***************************************************************************)
(* The nodes stay one tree in which a path names one node, a freed one     *)
(* that is still linked too, and nothing hangs below such a one: what is   *)
(* proved of HarshfsTree holds of the nodes that implement it.             *)
(***************************************************************************)
THEOREM TreeIsSound == Spec => []TreeStands
<1>1. Init => Abstract!Init BY InitTree DEF Tree!Init, Abstract!Init
<1>2. TreeInv /\ [Next]_vars => [Abstract!Next]_(Abstract!vars)
  BY NextTree DEF Tree!Next, Tree!vars, Tree!AddRoot, Tree!Link, Tree!Add, Tree!Refuse,
                  Tree!Taken,
                  Abstract!Next, Abstract!vars, Abstract!AddRoot, Abstract!Link, Abstract!Add,
                  Abstract!Refuse, Abstract!Taken
<1>3. Spec => Abstract!Spec BY <1>1, <1>2, TreeHolds, PTL DEF Spec, Abstract!Spec
<1>4. Abstract!TreeInv => TreeStands
  BY DEF TreeStands, Tree!OneTree, Tree!SiblingsDistinct, Tree!Nodes, Tree!Child,
         Abstract!TreeInv, Abstract!OneTree, Abstract!SiblingsDistinct, Abstract!Nodes,
         Abstract!Child
<1>5. Abstract!Spec => []Abstract!TreeInv BY Abstract!TreeInvHolds
<1>. QED BY <1>3, <1>4, <1>5, PTL
---------------------------------------------------------------------------
(* What the data takes. *)
\* What the data of the first k recorded nodes takes: all, of the nodes that have any (overall_fs_size);
\* dat, of those with at least a byte (creating_image); tot, as if each had (latest_size).
HasData(n) == Entry(n).data /\ Entry(n).size # 0
Sums(all, dat, tot) ==
  /\ all \in [0 .. M -> Nat] /\ dat \in [0 .. M -> Nat] /\ tot \in [0 .. M -> Nat]
  /\ all[0] = 0 /\ dat[0] = 0 /\ tot[0] = 0
  /\ \A k \in 0 .. M - 1 :
       /\ all[k + 1] = all[k] + (IF Entry(k + 1).data THEN Framed(Entry(k + 1).size) ELSE 0)
       /\ dat[k + 1] = dat[k] + (IF HasData(k + 1) THEN Framed(Entry(k + 1).size) ELSE 0)
       /\ tot[k + 1] = tot[k] + Framed(Entry(k + 1).size)
  /\ \A j, k \in 0 .. M : j <= k => dat[j] <= dat[k]
  /\ \A k \in 1 .. M : dat[k] <= all[k] /\ all[k] < tot[k]

Extends(g, f, n, a) ==
  /\ n \in Nat /\ f \in [0 .. n -> Nat] /\ a \in Nat
  /\ g = [k \in 0 .. n + 1 |-> IF k = n + 1 THEN f[n] + a ELSE f[k]]

ExtendsTo(g, f, n, a) ==
  g \in [0 .. n + 1 -> Nat] /\ g[n + 1] = f[n] + a /\ \A k \in 0 .. n : g[k] = f[k]

\* A sum goes on by one summand.
LEMMA ExtendedFacts ==
  ASSUME NEW g, NEW f, NEW n, NEW a, Extends(g, f, n, a)
  PROVE  ExtendsTo(g, f, n, a)
<1>. n \in Nat /\ f \in [0 .. n -> Nat] /\ a \in Nat BY DEF Extends
<1>1. \A k \in 0 .. n + 1 : k = n + 1 \/ k \in 0 .. n OBVIOUS
<1>2. \A k \in 0 .. n : f[k] \in Nat /\ k # n + 1 /\ k \in 0 .. n + 1 OBVIOUS
<1>3. n \in 0 .. n /\ n + 1 \in 0 .. n + 1 OBVIOUS
<1>. QED BY ONLY <1>1, <1>2, <1>3, Extends(g, f, n, a) DEF Extends, ExtendsTo

\* The three sums take in a node that is added. (The root has no data: all stays below tot.)
LEMMA SumsExtended ==
  ASSUME M \in Nat, NEW all, NEW dat, NEW tot, Sums(all, dat, tot),
         M' = M + 1, NEW b \in BOOLEAN, NEW s \in Nat, M = 0 => ~b,
         NEW v \in Nat, v = M + 1, Entry(v)'.data = b, Entry(v)'.size = s,
         EntriesKept, \A k \in 1 .. M : Entry(k).size \in Nat
  PROVE  \E all2, dat2, tot2 : /\ Sums(all2, dat2, tot2)'
                               /\ all2[M + 1] = all[M] + (IF b THEN Framed(s) ELSE 0)
<1>1. PICK m \in Nat : m = M OBVIOUS
<1>2. PICK a \in Nat : a = (IF b THEN Framed(s) ELSE 0) BY DEF Framed, MAGIC
<1>3. PICK d \in Nat : d = (IF b /\ s # 0 THEN Framed(s) ELSE 0) BY DEF Framed, MAGIC
<1>4. PICK t \in Nat : t = Framed(s) BY DEF Framed, MAGIC
<1>5. /\ all \in [0 .. m -> Nat] /\ dat \in [0 .. m -> Nat] /\ tot \in [0 .. m -> Nat]
      /\ all[0] = 0 /\ dat[0] = 0 /\ tot[0] = 0
  BY <1>1, Zenon DEF Sums
<1>6. /\ \A j, k \in 0 .. m : j <= k => dat[j] <= dat[k]
      /\ \A k \in 1 .. m : dat[k] <= all[k] /\ all[k] < tot[k]
  BY <1>1, Zenon DEF Sums
<1>7. \A k \in 0 .. m - 1 :
       /\ all[k + 1] = all[k] + (IF Entry(k + 1).data THEN Framed(Entry(k + 1).size) ELSE 0)
       /\ dat[k + 1] = dat[k] + (IF HasData(k + 1) THEN Framed(Entry(k + 1).size) ELSE 0)
       /\ tot[k + 1] = tot[k] + Framed(Entry(k + 1).size)
  BY <1>1, Zenon DEF Sums
<1>8. PICK A : Extends(A, all, m, a) BY <1>5 DEF Extends
<1>9. PICK D : Extends(D, dat, m, d) BY <1>5 DEF Extends
<1>10. PICK U : Extends(U, tot, m, t) BY <1>5 DEF Extends
<1>11. A \in [0 .. m + 1 -> Nat] /\ A[m + 1] = all[m] + a /\ \A k \in 0 .. m : A[k] = all[k]
  <2>1. ExtendsTo(A, all, m, a) BY ONLY <1>8, ExtendedFacts
  <2>. QED BY ONLY <2>1, Zenon DEF ExtendsTo
<1>12. D \in [0 .. m + 1 -> Nat] /\ D[m + 1] = dat[m] + d /\ \A k \in 0 .. m : D[k] = dat[k]
  <2>1. ExtendsTo(D, dat, m, d) BY ONLY <1>9, ExtendedFacts
  <2>. QED BY ONLY <2>1, Zenon DEF ExtendsTo
<1>13. U \in [0 .. m + 1 -> Nat] /\ U[m + 1] = tot[m] + t /\ \A k \in 0 .. m : U[k] = tot[k]
  <2>1. ExtendsTo(U, tot, m, t) BY ONLY <1>10, ExtendedFacts
  <2>. QED BY ONLY <2>1, Zenon DEF ExtendsTo
<1>14. \A n \in 1 .. m : /\ Entry(n)'.data = Entry(n).data /\ Entry(n)'.size = Entry(n).size
                         /\ HasData(n)' <=> HasData(n)
  <2>. TAKE n \in 1 .. m
  <2>1. SameNode(Entry(n)', Entry(n)) BY <1>1, Zenon DEF EntriesKept
  <2>2. Entry(n)'.data = Entry(n).data /\ Entry(n)'.size = Entry(n).size
    BY ONLY <2>1 DEF SameNode
  <2>3. HasData(n)' <=> Entry(n)'.data /\ Entry(n)'.size # 0 BY DEF HasData
  <2>4. HasData(n) <=> Entry(n).data /\ Entry(n).size # 0 BY DEF HasData
  <2>. QED BY ONLY <2>2, <2>3, <2>4, Zenon
<1>20. v = m + 1 /\ Entry(m + 1)'.data = b /\ Entry(m + 1)'.size = s
  <2>1. v = m + 1 BY <1>1
  <2>2. Entry(v)' = Entry(m + 1)' BY <2>1 DEF Entry, Nth
  <2>. QED BY <2>1, <2>2
<1>15. \A k \in 0 .. m :
       /\ A[k + 1] = A[k] + (IF Entry(k + 1)'.data THEN Framed(Entry(k + 1)'.size) ELSE 0)
       /\ D[k + 1] = D[k] + (IF HasData(k + 1)' THEN Framed(Entry(k + 1)'.size) ELSE 0)
       /\ U[k + 1] = U[k] + Framed(Entry(k + 1)'.size)
  <2>. TAKE k \in 0 .. m
  <2>1. CASE k = m
    <3>1. HasData(m + 1)' <=> b /\ s # 0 BY <1>20 DEF HasData
    <3>2. A[m] = all[m] /\ D[m] = dat[m] /\ U[m] = tot[m] BY <1>11, <1>12, <1>13
    <3>. QED BY <1>1, <1>2, <1>3, <1>4, <1>11, <1>12, <1>13, <1>20, <2>1, <3>1, <3>2
  <2>2. CASE k # m
    <3>1. k \in 0 .. m - 1 /\ k \in 0 .. m /\ k + 1 \in 0 .. m /\ k + 1 \in 1 .. m BY <2>2
    <3>2. /\ A[k] = all[k] /\ A[k + 1] = all[k + 1] /\ D[k] = dat[k] /\ D[k + 1] = dat[k + 1]
          /\ U[k] = tot[k] /\ U[k + 1] = tot[k + 1]
      BY ONLY <3>1, <1>11, <1>12, <1>13
    <3>3. /\ Entry(k + 1)'.data = Entry(k + 1).data /\ Entry(k + 1)'.size = Entry(k + 1).size
          /\ HasData(k + 1)' <=> HasData(k + 1)
      BY ONLY <3>1, <1>14
    <3>. QED BY <1>7, <3>1, <3>2, <3>3, Zenon
  <2>. QED BY <2>1, <2>2
<1>16. \A j, k \in 0 .. m + 1 : j <= k => D[j] <= D[k]
  <2>1. \A k \in 0 .. m + 1 : k = m + 1 \/ k \in 0 .. m OBVIOUS
  <2>2. \A j \in 0 .. m : j <= m /\ dat[j] \in Nat /\ m \in 0 .. m BY <1>5
  <2>. QED BY ONLY <1>6, <1>12, <2>1, <2>2, m \in Nat, d \in Nat
<1>17. \A k \in 1 .. m + 1 : D[k] <= A[k] /\ A[k] < U[k]
  <2>. TAKE k \in 1 .. m + 1
  <2>1. CASE k = m + 1
    <3>0. all[m] \in Nat /\ dat[m] \in Nat /\ tot[m] \in Nat BY <1>5
    <3>1. d <= a /\ a <= t /\ (~b => a < t /\ d = 0)
      BY <1>2, <1>3, <1>4 DEF Framed, MAGIC
    <3>2. CASE m = 0
      <4>1. ~b /\ all[m] = 0 /\ dat[m] = 0 /\ tot[m] = 0 BY <1>1, <1>5, <3>2
      <4>. QED BY ONLY <1>11, <1>12, <1>13, <2>1, <3>1, <4>1, a \in Nat, d \in Nat, t \in Nat
    <3>3. CASE m # 0
      <4>1. m \in 1 .. m BY <3>3
      <4>2. dat[m] <= all[m] /\ all[m] < tot[m] BY ONLY <1>6, <4>1
      <4>3. PICK x \in Nat : x = all[m] BY <3>0
      <4>4. PICK y \in Nat : y = dat[m] BY <3>0
      <4>5. PICK z \in Nat : z = tot[m] BY <3>0
      <4>6. D[k] = y + d /\ A[k] = x + a /\ U[k] = z + t
        BY ONLY <1>11, <1>12, <1>13, <2>1, <4>3, <4>4, <4>5, Zenon
      <4>7. y <= x /\ x < z BY ONLY <4>2, <4>3, <4>4, <4>5, Zenon
      <4>8. y + d <= x + a /\ x + a < z + t
        BY ONLY <3>1, <4>7, a \in Nat, d \in Nat, t \in Nat, x \in Nat, y \in Nat, z \in Nat
      <4>. QED BY ONLY <4>6, <4>8, Zenon
    <3>. QED BY <3>2, <3>3
  <2>2. CASE k # m + 1
    <3>1. k \in 1 .. m /\ k \in 0 .. m BY <2>2
    <3>. QED BY ONLY <1>6, <1>11, <1>12, <1>13, <3>1
  <2>. QED BY <2>1, <2>2
<1>18. Sums(A, D, U)'
  <2>1. M' = m + 1 /\ (m + 1) - 1 = m /\ 0 \in 0 .. m BY <1>1
  <2>. QED BY <1>5, <1>11, <1>12, <1>13, <1>15, <1>16, <1>17, <2>1 DEF Sums
<1>19. A[M + 1] = all[M] + (IF b THEN Framed(s) ELSE 0) BY <1>1, <1>2, <1>11
<1>. QED BY <1>18, <1>19
---------------------------------------------------------------------------
(* The image. *)
SlotType == [at: Nat, name: NAMES, size: Nat, link: [Links -> Nat], data: Nat]
Region == [at: Nat, size: Nat]

\* While nodes are added: room for them and their data, nothing written.
GrownSizes(all) ==
  /\ overall_fs_size = End(M) + all[M]
  /\ final_file_address = IF M = 0 THEN 0 ELSE Address(M)
  /\ image = 0 /\ slots = <<>> /\ regions = <<>> /\ footer = 0

SlotsLaid ==
  /\ slots \in Seq(SlotType) /\ Len(slots) <= M
  /\ \A k \in 1 .. Len(slots) :
       /\ slots[k].at = End(k - 1) /\ slots[k].name = Entry(k).name
       /\ slots[k].size = Entry(k).size
       /\ slots[k].link = [l \in Links |-> get_node_address(Entry(k)[l])]

\* Region i is the data of a node in a slot; together they begin where the slots end.
RegionsLaid(dat) ==
  /\ regions \in Seq(Region)
  /\ \A i \in 1 .. Len(regions) : \E k \in 1 .. Len(slots) :
       /\ HasData(k) /\ regions[i].at = End(M) + dat[k - 1]
       /\ regions[i].size = Framed(Entry(k).size)
  /\ \A i, j \in 1 .. Len(regions) : i < j => regions[i].at + regions[i].size <= regions[j].at
  /\ Len(regions) = 0 => dat[Len(slots)] = 0
  /\ Len(regions) # 0 => regions[1].at = End(M)

\* While the image is laid out, and after.
LaidSizes(all, dat) ==
  /\ M > 0 /\ overall_fs_size = End(M) + all[M] + MAGIC
  /\ filesystem_address \in Nat
  /\ image = End(Len(slots)) /\ final_file_address = Address(M) + dat[Len(slots)]
  /\ IF step = "nodes" THEN footer = 0 ELSE Len(slots) = M /\ footer = End(M) + dat[M]

ReadUp(tot) ==
  /\ get_file \in Nat /\ latest_size \in Nat /\ listed \in Seq(Nat)
  /\ step \in {"build", "aborted", "nodes"} =>
       get_file = MAGIC /\ latest_size = 0 /\ listed = <<>>
  /\ step = "read" => /\ Len(listed) <= M /\ latest_size = tot[Len(listed)]
                      /\ \/ get_file = End(Len(listed))
                         \/ Len(listed) = M /\ get_file > overall_fs_size - MAGIC
  /\ step \in {"free", "done"} => Len(listed) = 0 \/ Len(listed) = M
  /\ \A i \in 1 .. Len(listed) : listed[i] = End(i - 1) /\ i <= M

LaidOut(all, dat, tot) ==
  /\ Sums(all, dat, tot)
  /\ Building => GrownSizes(all)
  /\ ~Building => LaidSizes(all, dat)
  /\ SlotsLaid /\ RegionsLaid(dat) /\ ReadUp(tot)

ImageInv ==
  /\ TreeInv /\ step \in {"build", "nodes", "read", "free", "done", "aborted"}
  /\ \E all, dat, tot : LaidOut(all, dat, tot)

\* The recorded nodes are nodes.
LEMMA EntriesTyped ==
  ASSUME TreeInv PROVE M \in Nat /\ \A k \in 1 .. M : Entry(k) \in Node /\ Entry(k).size \in Nat
<1>1. M \in Nat /\ \A k \in 1 .. M : Nth(k) \in 1 .. Len(node) BY NumberedFacts DEF TreeInv, N
<1>2. \A n \in 1 .. Len(node) : node[n] \in Node
  <2>1. PICK S : S = Node OBVIOUS
  <2>2. node \in Seq(S) BY <2>1 DEF TreeInv
  <2>3. \A n \in 1 .. Len(node) : node[n] \in S BY ONLY <2>2
  <2>. QED BY <2>1, <2>3
<1>3. \A k \in 1 .. M : Entry(k) \in Node BY <1>1, <1>2 DEF Entry
<1>4. \A r \in Node : r.size \in Nat BY ONLY DEF Node
<1>. QED BY <1>1, <1>3, <1>4, Zenon

\* Before the root nothing is summed up, written or read.
LEMMA InitImage ==
  ASSUME Init PROVE ImageInv
<1>1. TreeInv BY InitTree
<1>2. /\ addresses = <<>> /\ step = "build" /\ overall_fs_size = MAGIC /\ final_file_address = 0
      /\ image = 0 /\ slots = <<>> /\ regions = <<>> /\ footer = 0
      /\ get_file = MAGIC /\ latest_size = 0 /\ listed = <<>>
  BY DEF Init
<1>3. M = 0 BY <1>2 DEF M
<1>4. PICK f : f = [k \in 0 .. 0 |-> 0] OBVIOUS
<1>5. f \in [0 .. 0 -> Nat] /\ f[0] = 0 /\ \A k \in 0 .. 0 : k = 0 BY <1>4
<1>6. Sums(f, f, f) BY <1>3, <1>5 DEF Sums
<1>7. End(0) = MAGIC BY ImageConstants DEF End, MAGIC
<1>8. GrownSizes(f) BY <1>2, <1>3, <1>5, <1>7 DEF GrownSizes, MAGIC
<1>9. SlotsLaid BY <1>2, <1>3 DEF SlotsLaid
<1>10. RegionsLaid(f) BY <1>2, <1>3, <1>5 DEF RegionsLaid
<1>11. ReadUp(f) BY <1>2, <1>3 DEF ReadUp, MAGIC
<1>12. Building BY <1>2 DEF Building
<1>13. LaidOut(f, f, f) BY <1>6, <1>8, <1>9, <1>10, <1>11, <1>12 DEF LaidOut
<1>. QED BY <1>1, <1>2, <1>13 DEF ImageInv

\* A node that is added: overall_fs_size grows by what the node and its data take.
LEMMA SizesGrow ==
  ASSUME ImageInv, step = "build", TreeInv', NEW d \in SIZES \cup {NODATA}, NewEntry(d),
         M = 0 => d = NODATA, NEW n, record(n, d), UNCHANGED <<step, written, reading>>
  PROVE  ImageInv'
<1>1. PICK all, dat, tot : LaidOut(all, dat, tot) BY Zenon DEF ImageInv
<1>2. /\ Sums(all, dat, tot) /\ GrownSizes(all) /\ SlotsLaid /\ RegionsLaid(dat) /\ ReadUp(tot)
  BY <1>1 DEF LaidOut, Building
<1>3. PICK b \in BOOLEAN : b = (d \in Nat)
  <2>1. (d \in Nat) \in BOOLEAN BY SMT
  <2>. QED BY <2>1, Zenon
<1>4. PICK s \in Nat : s = Size(d) BY ImageConstants DEF Size, NODATA
<1>5. M \in Nat /\ \A k \in 1 .. M : Entry(k).size \in Nat BY EntriesTyped DEF ImageInv
<1>6. M' = M + 1 /\ EntriesKept BY Zenon DEF NewEntry
<1>7. PICK v \in Nat : v = M + 1 /\ Entry(v)'.data = b /\ Entry(v)'.size = s
  BY <1>3, <1>4, Zenon DEF NewEntry
<1>8. M = 0 => ~b
  <2>1. NODATA \notin Nat BY DEF NODATA
  <2>. QED BY <1>3, <2>1, Zenon
<1>10. PICK all2, dat2, tot2 : /\ Sums(all2, dat2, tot2)'
                               /\ all2[M + 1] = all[M] + (IF b THEN Framed(s) ELSE 0)
  BY <1>2, <1>5, <1>6, <1>7, <1>8, SumsExtended
<1>11. /\ slots = <<>> /\ regions = <<>> /\ slots' = <<>> /\ regions' = <<>>
       /\ image' = 0 /\ footer' = 0 /\ step' = "build"
       /\ get_file' = MAGIC /\ latest_size' = 0 /\ listed' = <<>>
  BY <1>2 DEF GrownSizes, ReadUp, written, reading
<1>12. filesystem_address' = Address(M + 1)
  BY <1>5, Places DEF record, ImageInv, TreeInv, Building
<1>13. GrownSizes(all2)'
  <2>1. overall_fs_size' = overall_fs_size + NODE + (IF b THEN Framed(s) ELSE 0)
    <3>1. CASE d \in Nat BY <1>3, <1>4, <3>1 DEF record, Size
    <3>2. CASE d \notin Nat BY <1>3, <3>2 DEF record
    <3>. QED BY <3>1, <3>2
  <2>2. all[M] \in Nat /\ End(M) \in Nat BY <1>2, <1>5, Places DEF Sums
  <2>3. PICK x \in Nat : x = (IF b THEN Framed(s) ELSE 0) BY DEF Framed, MAGIC
  <2>4. overall_fs_size' = End(M + 1) + all2[M + 1]
    <3>1. overall_fs_size = End(M) + all[M] BY <1>2, Zenon DEF GrownSizes
    <3>2. PICK e \in Nat, y \in Nat : e = End(M) /\ y = all[M] BY <2>2
    <3>3. End(M + 1) = e + NODE BY <1>5, <3>2, Places
    <3>4. all2[M + 1] = y + x BY <1>10, <2>3, <3>2
    <3>5. overall_fs_size' = (e + y) + NODE + x BY <2>1, <2>3, <3>1, <3>2
    <3>6. NODE \in Nat BY ImageConstants
    <3>. QED BY ONLY <3>3, <3>4, <3>5, <3>6, x \in Nat, y \in Nat, e \in Nat
  <2>5. final_file_address' = Address(M + 1) BY <1>12 DEF record
  <2>6. End(M)' = End(M + 1) /\ Address(M)' = Address(M + 1) /\ M' # 0
    BY <1>5, <1>6 DEF End, Address
  <2>. QED BY <1>11, <2>4, <2>5, <2>6, <1>6 DEF GrownSizes
<1>14. SlotsLaid' BY <1>5, <1>6, <1>11 DEF SlotsLaid
<1>15. RegionsLaid(dat2)'
  <2>1. dat2[0] = 0 BY <1>10, Zenon DEF Sums
  <2>. QED BY <1>11, <2>1 DEF RegionsLaid
<1>16. ReadUp(tot2)' BY <1>11 DEF ReadUp, MAGIC
<1>17. LaidOut(all2, dat2, tot2)'
  BY <1>10, <1>11, <1>13, <1>14, <1>15, <1>16 DEF LaidOut, Building
<1>. QED BY <1>11, <1>17 DEF ImageInv
---------------------------------------------------------------------------
\* The data of a node is refused: nothing is recorded, and main goes on or not.
LEMMA SizesStay ==
  ASSUME ImageInv, step = "build", step' \in {"build", "aborted"}, TreeInv', M' = M, EntriesKept,
         UNCHANGED <<sizes, written, reading>>
  PROVE  ImageInv'
<1>1. PICK all, dat, tot : LaidOut(all, dat, tot) BY Zenon DEF ImageInv
<1>2. /\ Sums(all, dat, tot) /\ GrownSizes(all) /\ SlotsLaid /\ RegionsLaid(dat) /\ ReadUp(tot)
  BY <1>1 DEF LaidOut, Building
<1>3. /\ slots = <<>> /\ regions = <<>> /\ slots' = <<>> /\ regions' = <<>>
      /\ image' = 0 /\ footer' = 0
      /\ overall_fs_size' = overall_fs_size /\ final_file_address' = final_file_address
      /\ get_file' = MAGIC /\ latest_size' = 0 /\ listed' = <<>>
  BY <1>2 DEF GrownSizes, ReadUp, sizes, written, reading
<1>4. PICK m \in Nat : m = M /\ m = M' BY EntriesTyped DEF ImageInv
<1>. DEFINE Same(n) == /\ Entry(n)'.data = Entry(n).data /\ Entry(n)'.size = Entry(n).size
                       /\ HasData(n)' <=> HasData(n)
<1>5. \A n \in 1 .. m : Same(n)
  <2>. TAKE n \in 1 .. m
  <2>1. SameNode(Entry(n)', Entry(n)) BY <1>4, Zenon DEF EntriesKept
  <2>2. Entry(n)'.data = Entry(n).data /\ Entry(n)'.size = Entry(n).size
    BY ONLY <2>1 DEF SameNode
  <2>3. HasData(n)' <=> Entry(n)'.data /\ Entry(n)'.size # 0 BY DEF HasData
  <2>4. HasData(n) <=> Entry(n).data /\ Entry(n).size # 0 BY DEF HasData
  <2>. QED BY ONLY <2>2, <2>3, <2>4, Zenon
<1>6. Sums(all, dat, tot)'
  <2>1. \A k \in 0 .. m - 1 : k + 1 \in 1 .. m OBVIOUS
  <2>2. \A k \in 0 .. m - 1 :
          /\ all[k + 1] = all[k] + (IF Entry(k + 1).data THEN Framed(Entry(k + 1).size) ELSE 0)
          /\ dat[k + 1] = dat[k] + (IF HasData(k + 1) THEN Framed(Entry(k + 1).size) ELSE 0)
          /\ tot[k + 1] = tot[k] + Framed(Entry(k + 1).size)
    BY <1>2, <1>4, Zenon DEF Sums
  <2>3. \A k \in 0 .. m - 1 :
          /\ all[k + 1] = all[k] + (IF Entry(k + 1)'.data THEN Framed(Entry(k + 1)'.size) ELSE 0)
          /\ dat[k + 1] = dat[k] + (IF HasData(k + 1)' THEN Framed(Entry(k + 1)'.size) ELSE 0)
          /\ tot[k + 1] = tot[k] + Framed(Entry(k + 1)'.size)
    <3>. TAKE k \in 0 .. m - 1
    <3>1. k + 1 \in 1 .. m BY <2>1
    <3>2. Same(k + 1)
      <4>. HIDE DEF Same
      <4>. QED BY ONLY <3>1, <1>5, Zenon
    <3>. QED BY <2>2, <3>2, Zenon
  <2>4. /\ all \in [0 .. m -> Nat] /\ dat \in [0 .. m -> Nat] /\ tot \in [0 .. m -> Nat]
        /\ all[0] = 0 /\ dat[0] = 0 /\ tot[0] = 0
        /\ \A j, k \in 0 .. m : j <= k => dat[j] <= dat[k]
        /\ \A k \in 1 .. m : dat[k] <= all[k] /\ all[k] < tot[k]
    BY <1>2, <1>4, Zenon DEF Sums
  <2>. QED BY <1>4, <2>3, <2>4, Zenon DEF Sums
<1>7. GrownSizes(all)'
  <2>1. End(m)' = End(m) /\ Address(m)' = Address(m) BY DEF End, Address
  <2>. QED BY <1>2, <1>3, <1>4, <2>1 DEF GrownSizes, End, Address
<1>8. SlotsLaid' BY <1>3, <1>4 DEF SlotsLaid
<1>9. RegionsLaid(dat)'
  <2>1. dat[0] = 0 BY <1>2, Zenon DEF Sums
  <2>. QED BY <1>3, <2>1 DEF RegionsLaid
<1>10. ReadUp(tot)' BY <1>3 DEF ReadUp, MAGIC
<1>11. LaidOut(all, dat, tot)' BY <1>6, <1>7, <1>8, <1>9, <1>10 DEF LaidOut, Building
<1>. QED BY <1>11 DEF ImageInv
---------------------------------------------------------------------------
\* get_node_address finds the address of a recorded node, and 0 for NULL and a freed one.
LEMMA GetAddress ==
  ASSUME Numbered, NEW n
  PROVE  /\ \A k \in 1 .. M : n = Nth(k) => get_node_address(n) = Address(k)
         /\ n \notin Recorded => get_node_address(n) = 0
         /\ get_node_address(n) \in Nat
<1>1. /\ M \in Nat /\ DOMAIN addresses = 1 .. M /\ Recorded = {Nth(k) : k \in 1 .. M}
  BY NumberedFacts
<1>2. \A k \in 1 .. M : addresses[k].address = Address(k) BY DEF Numbered
<1>3. \A j, k \in 1 .. M : Nth(j) = Nth(k) => j = k BY Zenon DEF Numbered
<1>4. ASSUME NEW k \in 1 .. M, n = Nth(k)
      PROVE  get_node_address(n) = Address(k) /\ Address(k) \in Nat
  <2>1. \A i \in DOMAIN addresses : addresses[i].node = n <=> i = k
    BY <1>1, <1>3, <1>4 DEF Nth
  <2>2. k \in DOMAIN addresses /\ n \in Recorded BY <1>1, <1>4
  <2>3. (CHOOSE i \in DOMAIN addresses : addresses[i].node = n) = k BY <2>1, <2>2
  <2>4. get_node_address(n) = addresses[k].address BY <2>2, <2>3, Zenon DEF get_node_address
  <2>5. k \in Nat OBVIOUS
  <2>. QED BY <1>2, <2>4, <2>5, Places
<1>5. n \notin Recorded => get_node_address(n) = 0 BY DEF get_node_address
<1>6. n \in Recorded => \E k \in 1 .. M : n = Nth(k) BY <1>1
<1>. QED BY <1>4, <1>5, <1>6

\* What is said of the nodes stays as long as they and their record do.
LEMMA NodesKept ==
  ASSUME UNCHANGED tree
  PROVE  /\ M' = M /\ \A k : Entry(k)' = Entry(k) /\ (HasData(k)' <=> HasData(k))
         /\ \A n : get_node_address(n)' = get_node_address(n)
         /\ \A all, dat, tot : Sums(all, dat, tot) => Sums(all, dat, tot)'
<1>0. node' = node /\ addresses' = addresses BY DEF tree
<1>1. M' = M BY <1>0 DEF M
<1>2. \A n : get_node_address(n)' = get_node_address(n)
  <2>. TAKE n
  <2>1. PICK a : a = addresses OBVIOUS
  <2>2. PICK S : S = Recorded OBVIOUS
  <2>3. a = addresses' /\ S = Recorded' BY <1>0, <2>1, <2>2 DEF Recorded
  <2>4. get_node_address(n) =
          IF n \in S THEN a[CHOOSE i \in DOMAIN a : a[i].node = n].address ELSE 0
    BY ONLY <2>1, <2>2 DEF get_node_address
  <2>5. get_node_address(n)' =
          IF n \in S THEN a[CHOOSE i \in DOMAIN a : a[i].node = n].address ELSE 0
    BY ONLY <2>3 DEF get_node_address
  <2>. QED BY ONLY <2>4, <2>5
<1>3. \A k : Entry(k)' = Entry(k) BY <1>0 DEF Entry, Nth
<1>4. \A k : HasData(k)' <=> HasData(k) BY <1>3 DEF HasData
<1>5. ASSUME NEW all, NEW dat, NEW tot, Sums(all, dat, tot) PROVE Sums(all, dat, tot)'
  BY <1>1, <1>3, <1>4, <1>5 DEF Sums
<1>. QED BY <1>1, <1>2, <1>3, <1>4, <1>5

LEMMA SlotsKept ==
  ASSUME UNCHANGED tree, slots' = slots, SlotsLaid PROVE SlotsLaid'
<1>1. /\ M' = M /\ \A k : Entry(k)' = Entry(k)
      /\ \A n : get_node_address(n)' = get_node_address(n)
  BY NodesKept
<1>. QED BY <1>1 DEF SlotsLaid, End

LEMMA RegionsKept ==
  ASSUME UNCHANGED tree, slots' = slots, regions' = regions, NEW dat, RegionsLaid(dat)
  PROVE  RegionsLaid(dat)'
<1>1. M' = M /\ \A k : Entry(k)' = Entry(k) /\ (HasData(k)' <=> HasData(k)) BY NodesKept
<1>. QED BY <1>1 DEF RegionsLaid, End

\* A step that only moves main on, if anything.
MovesOn ==
  /\ UNCHANGED tree /\ UNCHANGED sizes /\ UNCHANGED written /\ UNCHANGED reading
  /\ \/ step' = step
     \/ step = "free" /\ step' = "done"

LEMMA MovedOn ==
  ASSUME ImageInv, MovesOn PROVE ImageInv'
<1>. USE DEF MovesOn
<1>1. PICK all, dat, tot : LaidOut(all, dat, tot) BY Zenon DEF ImageInv
<1>2. /\ node' = node /\ addresses' = addresses /\ filesystem_address' = filesystem_address
      /\ final_file_address' = final_file_address /\ overall_fs_size' = overall_fs_size
      /\ image' = image /\ slots' = slots /\ regions' = regions /\ footer' = footer
      /\ get_file' = get_file /\ latest_size' = latest_size /\ listed' = listed
  BY DEF tree, sizes, written, reading
<1>12. UNCHANGED tree OBVIOUS
<1>3. TreeInv'
  <2>1. TreeInv /\ UNCHANGED tree BY DEF ImageInv
  <2>2. Building' => Building /\ filesystem_address' = filesystem_address
    BY <1>2 DEF Building
  <2>. QED BY <2>1, <2>2, TreeKept
<1>4. M' = M /\ Sums(all, dat, tot)' BY <1>1, <1>12, NodesKept DEF LaidOut
<1>5. SlotsLaid' /\ RegionsLaid(dat)' BY <1>1, <1>2, <1>12, SlotsKept, RegionsKept DEF LaidOut
<1>6. Building' <=> Building BY DEF Building
<1>7. Building => GrownSizes(all)'
  BY <1>1, <1>2, <1>4 DEF LaidOut, GrownSizes, End, Address
<1>8. ~Building => LaidSizes(all, dat)'
  BY <1>1, <1>2, <1>4 DEF LaidOut, LaidSizes, End, Address, Building
<1>9. ReadUp(tot)' BY <1>1, <1>2, <1>4 DEF LaidOut, ReadUp, End
<1>10. LaidOut(all, dat, tot)' BY <1>4, <1>5, <1>6, <1>7, <1>8, <1>9 DEF LaidOut
<1>11. step' \in {"build", "nodes", "read", "free", "done", "aborted"} BY DEF ImageInv
<1>. QED BY <1>3, <1>10, <1>11 DEF ImageInv

\* creating_image makes room for the footer and begins behind the header.
LEMMA ImageBegun ==
  ASSUME ImageInv, creating_image, TreeInv' PROVE ImageInv'
<1>1. PICK all, dat, tot : LaidOut(all, dat, tot) BY Zenon DEF ImageInv
<1>2. /\ node' = node /\ addresses' = addresses /\ addresses # <<>>
      /\ filesystem_address' = filesystem_address + MAGIC
      /\ final_file_address' = final_file_address /\ overall_fs_size' = overall_fs_size + MAGIC
      /\ image' = MAGIC /\ slots' = slots /\ regions' = regions /\ footer' = footer
      /\ step = "build" /\ step' = "nodes"
  BY DEF creating_image, tree
<1>3. get_file' = get_file /\ latest_size' = latest_size /\ listed' = listed /\ UNCHANGED tree
  BY DEF creating_image, reading
<1>4. M' = M /\ Sums(all, dat, tot)' BY <1>1, <1>3, NodesKept DEF LaidOut
<1>5. SlotsLaid' /\ RegionsLaid(dat)' BY <1>1, <1>2, <1>3, SlotsKept, RegionsKept DEF LaidOut
<1>6. M \in Nat /\ M # 0
  <2>1. M \in Nat BY NumberedFacts DEF ImageInv, TreeInv
  <2>2. addresses \in Seq([node: 1 .. N, address: Nat]) BY DEF ImageInv, TreeInv, Numbered
  <2>3. M = 0 => addresses = <<>> BY <2>2 DEF M
  <2>. QED BY <1>2, <2>1, <2>3
<1>7. GrownSizes(all) /\ filesystem_address = Address(M)
  BY <1>1, <1>2 DEF LaidOut, Building, ImageInv, TreeInv
<1>8. LaidSizes(all, dat)'
  <2>1. dat[0] = 0 /\ all[M] \in Nat BY <1>1, <1>6 DEF LaidOut, Sums
  <2>2. Address(M) \in Nat /\ End(M) \in Nat /\ End(0) = MAGIC
    BY <1>6, Places, ImageConstants DEF End, MAGIC
  <2>3. End(M)' = End(M) /\ Address(M)' = Address(M) /\ End(Len(slots))' = End(0) /\ Len(slots) = 0
    BY <1>2, <1>4, <1>7 DEF End, Address, GrownSizes
  <2>. QED BY <1>2, <1>4, <1>6, <1>7, <2>1, <2>2, <2>3 DEF LaidSizes, GrownSizes, MAGIC
<1>9. ReadUp(tot)' BY <1>1, <1>2, <1>3, <1>4 DEF LaidOut, ReadUp, End
<1>10. LaidOut(all, dat, tot)' BY <1>2, <1>4, <1>5, <1>8, <1>9 DEF LaidOut, Building
<1>. QED BY <1>2, <1>10 DEF ImageInv
---------------------------------------------------------------------------
\* The slot of node m is written where node m - 1 ends.
LEMMA SlotWritten ==
  ASSUME ImageInv, SlotsLaid, NEW m \in 1 .. M, image = End(m - 1), final_file_address \in Nat,
         NEW n, n = Nth(m)
  PROVE  /\ Slot(n) \in SlotType
         /\ Slot(n).at = End(m - 1) /\ Slot(n).name = Entry(m).name /\ Slot(n).size = Entry(m).size
         /\ Slot(n).link = [l \in Links |-> get_node_address(Entry(m)[l])]
<1>1. M \in Nat /\ Entry(m) \in Node /\ Entry(m) = node[n]
  BY EntriesTyped DEF ImageInv, Entry
<1>2. node[n].name \in NAMES /\ node[n].size \in Nat BY <1>1 DEF Node
<1>3. \A x : get_node_address(x) \in Nat BY GetAddress DEF ImageInv, TreeInv
<1>4. PICK w \in [Links -> Nat] : w = [l \in Links |-> get_node_address(node[n][l])] BY <1>3
<1>5. PICK x \in Nat : x = IF node[n].data /\ node[n].size # 0 THEN final_file_address ELSE 0
  OBVIOUS
<1>8. Slot(n) = [at |-> End(m - 1), name |-> node[n].name, size |-> node[n].size,
                 link |-> w, data |-> x]
  BY <1>4, <1>5, Zenon DEF Slot
<1>9. End(m - 1) \in Nat BY <1>1, Places
<1>10. PICK nm \in NAMES, s \in Nat, e \in Nat :
         nm = node[n].name /\ s = node[n].size /\ e = End(m - 1)
  BY <1>2, <1>9
<1>11. Slot(n) = [at |-> e, name |-> nm, size |-> s, link |-> w, data |-> x] BY <1>8, <1>10, Zenon
<1>. QED BY <1>1, <1>4, <1>10, <1>11 DEF SlotType

\* It joins the slots.
LEMMA SlotAppended ==
  ASSUME ImageInv, SlotsLaid, NEW m \in 1 .. M, m = Len(slots) + 1, image = End(m - 1),
         final_file_address \in Nat, NEW n, n = Nth(m), slots' = Append(slots, Slot(n)),
         UNCHANGED tree
  PROVE  SlotsLaid' /\ Len(slots') = m
<1>1. PICK r : r = Slot(n) OBVIOUS
<1>2. /\ r \in SlotType
      /\ r.at = End(m - 1) /\ r.name = Entry(m).name /\ r.size = Entry(m).size
      /\ r.link = [l \in Links |-> get_node_address(Entry(m)[l])]
  BY <1>1, SlotWritten
<1>3. PICK S : S = SlotType OBVIOUS
<1>4. slots \in Seq(S) /\ r \in S BY <1>2, <1>3 DEF SlotsLaid
<1>5. PICK t : t = Append(slots, r) OBVIOUS
<1>6. t \in Seq(S) /\ Len(t) = Len(slots) + 1 /\ t[Len(slots) + 1] = r
      /\ \A k \in 1 .. Len(slots) : t[k] = slots[k]
  BY ONLY <1>4, <1>5, AppendProperties
<1>7. /\ M' = M /\ \A k : Entry(k)' = Entry(k)
      /\ \A x : get_node_address(x)' = get_node_address(x)
  BY NodesKept
<1>8. \A k : End(k)' = End(k) BY DEF End
<1>9. Len(slots) \in Nat /\ M \in Nat BY EntriesTyped DEF SlotsLaid, ImageInv
<1>10. slots' = t /\ Len(t) = m /\ t[m] = r /\ \A k \in 1 .. m : k = m \/ k \in 1 .. Len(slots)
  BY <1>1, <1>5, <1>6, <1>9
<1>11. \A k \in 1 .. m :
       /\ t[k].at = End(k - 1) /\ t[k].name = Entry(k).name
       /\ t[k].size = Entry(k).size
       /\ t[k].link = [l \in Links |-> get_node_address(Entry(k)[l])]
  <2>. TAKE k \in 1 .. m
  <2>1. CASE k = m BY <1>2, <1>10, <2>1
  <2>2. CASE k \in 1 .. Len(slots) BY <1>6, <2>2, Zenon DEF SlotsLaid
  <2>. QED BY <1>10, <2>1, <2>2
<1>12. t \in Seq(SlotType) /\ Len(t) <= M BY <1>3, <1>6, <1>10
<1>. QED BY <1>7, <1>8, <1>10, <1>11, <1>12 DEF SlotsLaid

\* The data of node m behind that of the nodes before it.
LEMMA RegionAppended ==
  ASSUME NEW all, NEW dat, NEW tot, Sums(all, dat, tot), RegionsLaid(dat), M \in Nat,
         NEW m \in 1 .. M, m = Len(slots) + 1, Len(slots') = m, UNCHANGED tree, HasData(m),
         \A n \in 1 .. M : Entry(n).size \in Nat,
         NEW r \in Region, r.at = End(M) + dat[m - 1], r.size = Framed(Entry(m).size),
         regions' = Append(regions, r)
  PROVE  RegionsLaid(dat)'
<1>1. regions \in Seq(Region) BY DEF RegionsLaid
<1>2. PICK S : S = Region OBVIOUS
<1>3. PICK t : t = Append(regions, r) OBVIOUS
<1>4. PICK n \in Nat : n = Len(regions) BY <1>1
<1>5. t \in Seq(S) /\ Len(t) = n + 1 /\ t[n + 1] = r /\ \A k \in 1 .. n : t[k] = regions[k]
  <2>1. regions \in Seq(S) /\ r \in S BY <1>1, <1>2
  <2>. QED BY ONLY <1>3, <1>4, <2>1, AppendProperties
<1>6. M' = M /\ (\A k : (HasData(k)' <=> HasData(k)) /\ Entry(k)' = Entry(k)) /\ End(M)' = End(M)
  BY NodesKept DEF End
<1>7. PICK e \in Nat : e = End(M) BY Places
<1>8. \A k \in 0 .. M : dat[k] \in Nat BY DEF Sums
<1>9. \A j, k \in 0 .. M : j <= k => dat[j] <= dat[k] BY Zenon DEF Sums
<1>10. \A k \in 1 .. M : HasData(k) => dat[k] = dat[k - 1] + Framed(Entry(k).size)
  <2>. TAKE k \in 1 .. M
  <2>1. k - 1 \in 0 .. M - 1 /\ (k - 1) + 1 = k OBVIOUS
  <2>2. \A j \in 0 .. M - 1 :
          dat[j + 1] = dat[j] + (IF HasData(j + 1) THEN Framed(Entry(j + 1).size) ELSE 0)
    BY Zenon DEF Sums
  <2>. QED BY <2>1, <2>2
<1>11. \A k \in 1 .. n : /\ t[k].at + t[k].size <= r.at
                         /\ \E x \in 1 .. m : /\ HasData(x) /\ t[k].at = End(M) + dat[x - 1]
                                              /\ t[k].size = Framed(Entry(x).size)
  <2>. TAKE k \in 1 .. n
  <2>1. PICK x \in 1 .. Len(slots) : /\ HasData(x) /\ regions[k].at = End(M) + dat[x - 1]
                                     /\ regions[k].size = Framed(Entry(x).size)
    BY <1>4 DEF RegionsLaid
  <2>2. x \in 1 .. M /\ x \in 0 .. M /\ x - 1 \in 0 .. M /\ m - 1 \in 0 .. M /\ x <= m - 1 /\ x \in 1 .. m
    OBVIOUS
  <2>3. dat[x] <= dat[m - 1] /\ dat[x] = dat[x - 1] + Framed(Entry(x).size)
    BY <1>9, <1>10, <2>1, <2>2
  <2>4. t[k] = regions[k] BY <1>5
  <2>5. dat[x] \in Nat /\ dat[x - 1] \in Nat /\ dat[m - 1] \in Nat BY <1>8, <2>2
  <2>6. Framed(Entry(x).size) \in Nat BY <2>2 DEF Framed, MAGIC
  <2>7. t[k].at + t[k].size <= r.at
    <3>1. PICK a \in Nat, f \in Nat, b \in Nat, c \in Nat :
            a = dat[x - 1] /\ f = Framed(Entry(x).size) /\ b = dat[x] /\ c = dat[m - 1]
      BY <2>5, <2>6
    <3>2. b <= c /\ b = a + f /\ t[k].at = e + a /\ t[k].size = f /\ r.at = e + c
      BY <1>7, <2>1, <2>3, <2>4, <3>1
    <3>. QED BY ONLY <3>2, a \in Nat, b \in Nat, c \in Nat, e \in Nat, f \in Nat
  <2>. QED BY <2>1, <2>2, <2>4, <2>7
<1>12. regions' = t /\ Len(t) = n + 1 /\ \A k \in 1 .. n + 1 : k = n + 1 \/ k \in 1 .. n
  BY <1>3, <1>5
<1>13. t \in Seq(Region) BY <1>2, <1>5
<1>14. \A k \in 1 .. n + 1 : \E x \in 1 .. m :
         /\ HasData(x) /\ t[k].at = End(M) + dat[x - 1] /\ t[k].size = Framed(Entry(x).size)
  <2>. TAKE k \in 1 .. n + 1
  <2>1. CASE k = n + 1
    <3>1. m \in 1 .. m /\ t[k] = r BY <1>5, <2>1
    <3>. QED BY <3>1
  <2>2. CASE k \in 1 .. n BY <1>11, <2>2
  <2>. QED BY <1>12, <2>1, <2>2
<1>15. ASSUME NEW i \in 1 .. n + 1, NEW j \in 1 .. n + 1, i < j
       PROVE  t[i].at + t[i].size <= t[j].at
  <2>1. i \in 1 .. n BY <1>15
  <2>2. CASE j = n + 1
    <3>1. t[j] = r BY <1>5, <2>2
    <3>. QED BY <1>11, <2>1, <3>1
  <2>3. CASE j \in 1 .. n
    <3>1. regions[i].at + regions[i].size <= regions[j].at BY <1>4, <1>15, <2>1, <2>3 DEF RegionsLaid
    <3>. QED BY <1>5, <2>1, <2>3, <3>1
  <2>. QED BY <1>12, <2>2, <2>3
<1>16. t[1].at = End(M)
  <2>1. CASE n = 0
    <3>1. dat[m - 1] = 0 /\ t[1] = r BY <1>4, <1>5, <2>1 DEF RegionsLaid
    <3>. QED BY <1>7, <3>1
  <2>2. CASE n # 0
    <3>1. 1 \in 1 .. n /\ regions[1].at = End(M) BY <1>4, <2>2 DEF RegionsLaid
    <3>. QED BY <1>5, <3>1
  <2>. QED BY <2>1, <2>2
<1>17. /\ \A i \in 1 .. Len(regions') : \E k \in 1 .. Len(slots') :
            /\ HasData(k)' /\ regions'[i].at = End(M)' + dat[k - 1]
            /\ regions'[i].size = Framed(Entry(k)'.size)
       /\ \A i, j \in 1 .. Len(regions') :
            i < j => regions'[i].at + regions'[i].size <= regions'[j].at
  <2>1. Len(regions') = n + 1 /\ regions' = t BY <1>12
  <2>. QED BY <1>6, <1>14, <1>15, <2>1, Zenon
<1>18. Len(regions') # 0 /\ regions'[1].at = End(M)' /\ regions' \in Seq(Region)
  BY <1>6, <1>12, <1>13, <1>16
<1>. QED BY <1>17, <1>18, Zenon DEF RegionsLaid

\* A slot is written for a node without data.
LEMMA RegionsStay ==
  ASSUME NEW all, NEW dat, NEW tot, Sums(all, dat, tot), RegionsLaid(dat), M \in Nat,
         NEW m \in 1 .. M, m = Len(slots) + 1, Len(slots') = m, UNCHANGED tree, ~HasData(m),
         regions' = regions
  PROVE  RegionsLaid(dat)'
<1>1. M' = M /\ (\A k : (HasData(k)' <=> HasData(k)) /\ Entry(k)' = Entry(k)) /\ End(M)' = End(M)
  BY NodesKept DEF End
<1>2. m - 1 \in 0 .. M - 1 /\ (m - 1) + 1 = m /\ m - 1 \in 0 .. M OBVIOUS
<1>3. dat[m] = dat[m - 1]
  <2>1. dat[m] = dat[m - 1] + 0 /\ dat[m - 1] \in Nat BY <1>2 DEF Sums
  <2>. QED BY <2>1
<1>4. 1 .. Len(slots) \subseteq 1 .. m /\ Len(slots) = m - 1 BY <1>2
<1>. QED BY <1>1, <1>3, <1>4 DEF RegionsLaid
---------------------------------------------------------------------------
\* A round of the loop: the slot, and the data behind that of the nodes before.
LEMMA NodeImaged ==
  ASSUME ImageInv, image_node, TreeInv' PROVE ImageInv'
<1>1. PICK all, dat, tot : LaidOut(all, dat, tot) BY Zenon DEF ImageInv
<1>2. /\ step = "nodes" /\ step' = step /\ Len(slots) < Len(addresses)
      /\ slots' = Append(slots, Slot(addresses[Len(slots) + 1].node))
      /\ image' = image + NODE
      /\ UNCHANGED tree /\ overall_fs_size' = overall_fs_size
      /\ footer' = footer
      /\ get_file' = get_file /\ latest_size' = latest_size /\ listed' = listed
  BY DEF image_node, reading
<1>3. /\ Sums(all, dat, tot) /\ LaidSizes(all, dat) /\ SlotsLaid /\ RegionsLaid(dat) /\ ReadUp(tot)
  BY <1>1, <1>2 DEF LaidOut, Building
<1>4. M \in Nat /\ Len(addresses) = M /\ \A k \in 1 .. M : Entry(k).size \in Nat
  BY EntriesTyped DEF ImageInv, M
<1>5. PICK m \in 1 .. M : m = Len(slots) + 1
  <2>1. Len(slots) \in Nat BY <1>3 DEF SlotsLaid
  <2>. QED BY <1>2, <1>4, <2>1
<1>6. PICK n : n = Nth(m) /\ n = addresses[Len(slots) + 1].node /\ Entry(m) = node[n]
  BY <1>5 DEF Nth, Entry
<1>7. slots' = Append(slots, Slot(n)) BY <1>2, <1>6
<1>8. m - 1 \in 0 .. M - 1 /\ (m - 1) + 1 = m /\ m - 1 \in 0 .. M /\ m \in 0 .. M /\ Len(slots) = m - 1
  <2>1. PICK l \in Nat : l = Len(slots) BY <1>3 DEF SlotsLaid
  <2>2. PICK k \in Nat : k = M BY <1>4
  <2>3. m \in 1 .. k /\ m = l + 1 BY <1>5, <2>1, <2>2
  <2>4. m - 1 \in 0 .. k - 1 /\ (m - 1) + 1 = m /\ m - 1 \in 0 .. k /\ m \in 0 .. k /\ l = m - 1
    BY ONLY <2>3, l \in Nat, k \in Nat
  <2>. QED BY <2>1, <2>2, <2>4
<1>9. PICK a \in Nat, e \in Nat, x \in Nat, y \in Nat :
        a = Address(M) /\ e = End(M) /\ x = dat[m - 1] /\ y = dat[m] /\ a = BASE + e
  BY <1>3, <1>4, <1>8, Places DEF Sums
<1>10. image = End(m - 1) /\ final_file_address = a + x BY <1>3, <1>8, <1>9 DEF LaidSizes
<1>11. SlotsLaid' /\ Len(slots') = m
  <2>1. final_file_address \in Nat BY <1>10
  <2>. QED BY <1>2, <1>3, <1>5, <1>6, <1>7, <1>10, <2>1, SlotAppended
<1>12. \A k \in 1 .. M : Entry(k).size \in Nat BY <1>4
<1>13. M' = M /\ Sums(all, dat, tot)' BY <1>2, <1>3, NodesKept
<1>14. PICK f \in Nat : f = Framed(Entry(m).size) BY <1>12 DEF Framed, MAGIC
<1>15. RegionsLaid(dat)' /\ final_file_address' = a + y /\ filesystem_address' \in Nat
  <2>1. y = x + (IF HasData(m) THEN f ELSE 0) BY <1>3, <1>8, <1>9, <1>14 DEF Sums
  <2>2. CASE HasData(m)
    <3>1. /\ regions' = Append(regions, [at |-> final_file_address - BASE, size |-> Framed(Entry(m).size)])
          /\ final_file_address' = final_file_address + Framed(Entry(m).size)
          /\ filesystem_address' = filesystem_address + Framed(Entry(m).size)
      BY <1>6, <2>2 DEF image_node, HasData, DataEnd
    <3>2. final_file_address' = a + y BY <1>10, <1>14, <2>1, <2>2, <3>1
    <3>3. filesystem_address' \in Nat BY <1>3, <1>14, <3>1 DEF LaidSizes
    <3>4. PICK b \in Nat : b = final_file_address - BASE /\ b = e + x
      BY <1>9, <1>10, ImageConstants
    <3>5. PICK r : r = [at |-> b, size |-> f] OBVIOUS
    <3>6. r \in Region /\ r.at = End(M) + dat[m - 1] /\ r.size = Framed(Entry(m).size)
      BY <1>9, <1>14, <3>4, <3>5 DEF Region
    <3>7. regions' = Append(regions, r) BY <1>14, <3>1, <3>4, <3>5
    <3>8. RegionsLaid(dat)'
      BY <1>2, <1>3, <1>4, <1>5, <1>11, <1>12, <2>2, <3>6, <3>7, RegionAppended
    <3>. QED BY <3>2, <3>3, <3>8
  <2>3. CASE ~HasData(m)
    <3>1. regions' = regions /\ final_file_address' = final_file_address
          /\ filesystem_address' = filesystem_address
      BY <1>6, <2>3 DEF image_node, HasData
    <3>2. RegionsLaid(dat)' BY <1>2, <1>3, <1>4, <1>5, <1>11, <2>3, <3>1, RegionsStay
    <3>. QED BY <1>3, <1>10, <2>1, <2>3, <3>1, <3>2 DEF LaidSizes
  <2>. QED BY <2>2, <2>3
<1>16. LaidSizes(all, dat)'
  <2>1. End(M)' = End(M) /\ Address(M)' = Address(M) BY <1>13 DEF End, Address
  <2>2. image' = End(m)
    <3>1. m - 1 \in Nat /\ End((m - 1) + 1) = End(m - 1) + NODE BY <1>8, Places
    <3>. QED BY <1>2, <1>8, <1>10, <3>1
  <2>3. End(Len(slots))' = End(m) BY <1>11 DEF End
  <2>. QED BY <1>2, <1>3, <1>9, <1>11, <1>13, <1>15, <2>1, <2>2, <2>3 DEF LaidSizes
<1>17. ReadUp(tot)' BY <1>2, <1>3, <1>13 DEF ReadUp, End
<1>18. LaidOut(all, dat, tot)' BY <1>2, <1>11, <1>13, <1>15, <1>16, <1>17 DEF LaidOut, Building
<1>. QED BY <1>2, <1>18 DEF ImageInv

\* The footer is written behind all data.
LEMMA FooterImaged ==
  ASSUME ImageInv, image_footer, TreeInv' PROVE ImageInv'
<1>1. PICK all, dat, tot : LaidOut(all, dat, tot) BY Zenon DEF ImageInv
<1>2. /\ step = "nodes" /\ step' \in {"read", "free"} /\ Len(slots) = Len(addresses)
      /\ slots' = slots /\ regions' = regions /\ image' = image
      /\ UNCHANGED tree /\ overall_fs_size' = overall_fs_size
      /\ final_file_address' = final_file_address /\ filesystem_address' = filesystem_address
      /\ footer' = final_file_address - BASE
      /\ get_file' = get_file /\ latest_size' = latest_size /\ listed' = listed
  BY DEF image_footer, reading, sizes
<1>3. /\ Sums(all, dat, tot) /\ LaidSizes(all, dat) /\ SlotsLaid /\ RegionsLaid(dat) /\ ReadUp(tot)
  BY <1>1, <1>2 DEF LaidOut, Building
<1>4. M \in Nat /\ Len(slots) = M
  <2>1. M \in Nat BY EntriesTyped DEF ImageInv
  <2>. QED BY <1>2, <2>1 DEF M
<1>5. M' = M /\ Sums(all, dat, tot)' BY <1>2, <1>3, NodesKept
<1>6. SlotsLaid' /\ RegionsLaid(dat)' BY <1>2, <1>3, SlotsKept, RegionsKept
<1>7. PICK a \in Nat, e \in Nat, y \in Nat :
        a = Address(M) /\ e = End(M) /\ y = dat[M] /\ a = BASE + e
  <2>1. dat[M] \in Nat BY <1>3, <1>4 DEF Sums
  <2>2. Address(M) \in Nat /\ End(M) \in Nat /\ Address(M) = BASE + End(M) BY <1>4, Places
  <2>. QED BY <2>1, <2>2
<1>8. footer' = e + y
  <2>1. final_file_address = a + y BY <1>3, <1>4, <1>7 DEF LaidSizes
  <2>. QED BY <1>2, <1>7, <2>1, ImageConstants
<1>9. LaidSizes(all, dat)'
  <2>1. End(M)' = End(M) /\ Address(M)' = Address(M) /\ End(Len(slots))' = End(Len(slots))
    BY <1>2, <1>5 DEF End, Address
  <2>. QED BY <1>2, <1>3, <1>4, <1>5, <1>7, <1>8, <2>1 DEF LaidSizes
<1>10. ReadUp(tot)'
  <2>1. End(0) = MAGIC /\ tot[0] = 0 BY <1>3, ImageConstants DEF End, MAGIC, Sums
  <2>. QED BY <1>2, <1>3, <1>4, <1>5, <2>1 DEF ReadUp, End
<1>11. LaidOut(all, dat, tot)' BY <1>2, <1>5, <1>6, <1>9, <1>10 DEF LaidOut, Building
<1>. QED BY <1>2, <1>11 DEF ImageInv
---------------------------------------------------------------------------
(* Reading the image. *)
\* Different nodes end at least a node apart.
LEMMA EndsApart ==
  \A j, k \in Nat : j < k => End(j) + NODE <= End(k)
<1>. TAKE j, k \in Nat
<1>. HAVE j < k
<1>. DEFINE d == k - (j + 1)
<1>1. d \in Nat /\ k = (j + 1) + d OBVIOUS
<1>2. d * NODE \in Nat /\ NODE \in Nat /\ j * NODE \in Nat BY <1>1, ImageConstants
<1>3. k * NODE = j * NODE + NODE + d * NODE
  <2>. HIDE DEF d
  <2>1. \A a, b, c \in Nat : ((a + 1) + b) * c = a * c + c + b * c OBVIOUS
  <2>. QED BY <1>1, <1>2, <2>1
<1>. QED BY <1>2, <1>3 DEF End, MAGIC

\* So an end names its node.
LEMMA EndsDiffer ==
  \A j, k \in Nat : End(j) = End(k) => j = k
<1>1. \A k \in Nat : End(k) \in Nat BY Places
<1>2. NODE \in Nat /\ NODE > 0 BY ImageConstants DEF MAGIC
<1>. TAKE j, k \in Nat
<1>3. j < k => End(j) < End(k)
  <2>. HAVE j < k
  <2>1. End(j) + NODE <= End(k) /\ End(j) \in Nat /\ End(k) \in Nat BY <1>1, EndsApart
  <2>. QED BY ONLY <1>2, <2>1
<1>4. k < j => End(k) < End(j)
  <2>. HAVE k < j
  <2>1. End(k) + NODE <= End(j) /\ End(j) \in Nat /\ End(k) \in Nat BY <1>1, EndsApart
  <2>. QED BY ONLY <1>2, <2>1
<1>5. End(j) \in Nat /\ End(k) \in Nat BY <1>1
<1>. QED BY ONLY <1>3, <1>4, <1>5, j \in Nat, k \in Nat

\* Where read_harshfs_image stands and what it finds there.
Reads(m) ==
  /\ m \in 0 .. M /\ M > 0 /\ Len(slots) = M
  /\ get_file > overall_fs_size - MAGIC \/ get_file = footer => m = M
  /\ get_file <= overall_fs_size - MAGIC /\ get_file # footer =>
       /\ get_file = End(m)
       /\ DataAt(get_file) => m = M /\ get_file + latest_size > overall_fs_size - MAGIC
       /\ ~DataAt(get_file) => /\ m < M /\ SlotsAt(get_file) = {m + 1}
                               /\ Passed(get_file) = Framed(Entry(m + 1).size)

\* It stands at a slot, or behind all of them, and there skips past the file.
LEMMA ReadFacts ==
  ASSUME M \in Nat, step = "read", NEW all, NEW dat, NEW tot, LaidOut(all, dat, tot)
  PROVE  Reads(Len(listed))
<1>1. /\ Sums(all, dat, tot) /\ LaidSizes(all, dat) /\ SlotsLaid /\ RegionsLaid(dat) /\ ReadUp(tot)
  BY DEF LaidOut, Building
<1>2. PICK m \in Nat : m = Len(listed) BY <1>1 DEF ReadUp
<1>3. PICK n \in Nat : n = M OBVIOUS
<1>4. /\ m <= n /\ latest_size = tot[m] /\ get_file \in Nat
      /\ get_file = End(m) \/ (m = n /\ get_file > overall_fs_size - MAGIC)
  BY <1>1, <1>2, <1>3 DEF ReadUp
<1>5. /\ n > 0 /\ overall_fs_size = End(n) + all[n] + MAGIC
      /\ Len(slots) = n /\ footer = End(n) + dat[n]
  BY <1>1, <1>3 DEF LaidSizes
<1>6. m \in 0 .. n /\ n \in 0 .. n /\ n \in 1 .. n BY <1>4, <1>5
<1>7. /\ \A k \in 0 .. n : dat[k] \in Nat /\ all[k] \in Nat /\ tot[k] \in Nat
      /\ all[n] < tot[n]
  <2>1. /\ all \in [0 .. n -> Nat] /\ dat \in [0 .. n -> Nat] /\ tot \in [0 .. n -> Nat]
        /\ \A k \in 1 .. n : all[k] < tot[k]
    BY <1>1, <1>3, Zenon DEF Sums
  <2>. QED BY <1>6, <2>1
<1>8. PICK e \in Nat, a \in Nat, d \in Nat : e = End(n) /\ a = all[n] /\ d = dat[n]
  BY <1>6, <1>7, Places
<1>9. overall_fs_size - MAGIC = e + a /\ footer = e + d
  <2>1. overall_fs_size = e + a + MAGIC BY <1>5, <1>8
  <2>. QED BY <1>5, <1>8, <2>1 DEF MAGIC
<1>10. m < n => End(m) < e
  <2>1. m < n => End(m) + NODE <= e BY <1>8, EndsApart
  <2>2. End(m) \in Nat /\ NODE \in Nat /\ NODE > 0 BY Places, ImageConstants DEF MAGIC
  <2>. QED BY ONLY <2>1, <2>2, e \in Nat
<1>11. get_file > overall_fs_size - MAGIC \/ get_file = footer => m = n
  <2>1. End(m) \in Nat BY Places
  <2>. QED BY ONLY <1>4, <1>9, <1>10, <2>1, m \in Nat, n \in Nat, e \in Nat, a \in Nat, d \in Nat
<1>12. ASSUME get_file <= overall_fs_size - MAGIC, get_file # footer
       PROVE  /\ get_file = End(m)
              /\ DataAt(get_file) => m = n /\ get_file + latest_size > overall_fs_size - MAGIC
              /\ ~DataAt(get_file) => /\ m < n /\ SlotsAt(get_file) = {m + 1}
                                      /\ Passed(get_file) = Framed(Entry(m + 1).size)
  <2>1. get_file = End(m)
    BY ONLY <1>4, <1>9, <1>12, e \in Nat, a \in Nat
  <2>2. ASSUME DataAt(get_file)
        PROVE  m = n /\ get_file + latest_size > overall_fs_size - MAGIC
    <3>1. PICK i \in 1 .. Len(regions) : regions[i].at = get_file
      BY <1>1, <2>2 DEF DataAt, RegionsLaid
    <3>2. PICK k \in 1 .. n : regions[i].at = e + dat[k - 1]
      BY <1>1, <1>3, <1>5, <1>8 DEF RegionsLaid
    <3>3. k - 1 \in 0 .. n OBVIOUS
    <3>4. dat[k - 1] \in Nat BY <1>7, <3>3
    <3>5. ~(End(m) < e) BY <1>8, <2>1, <3>1, <3>2, <3>4
    <3>6. m = n BY ONLY <1>4, <1>10, <3>5, m \in Nat, n \in Nat
    <3>7. get_file = e /\ latest_size = tot[n] /\ tot[n] \in Nat BY <1>4, <1>6, <1>7, <1>8, <2>1, <3>6
    <3>8. all[n] = a /\ a < tot[n] BY <1>7, <1>8
    <3>9. get_file + latest_size > overall_fs_size - MAGIC
      BY ONLY <1>9, <3>7, <3>8, e \in Nat, a \in Nat
    <3>. QED BY <3>6, <3>9
  <2>3. ASSUME ~DataAt(get_file)
        PROVE  /\ m < n /\ SlotsAt(get_file) = {m + 1}
               /\ Passed(get_file) = Framed(Entry(m + 1).size)
    <3>1. m # n
      <4>. SUFFICES ASSUME m = n PROVE FALSE OBVIOUS
      <4>1. get_file = e BY <1>8, <2>1
      <4>2. Len(regions) \in Nat /\ DOMAIN regions = 1 .. Len(regions) BY <1>1 DEF RegionsLaid
      <4>3. Len(regions) = 0
        <5>. SUFFICES ASSUME Len(regions) # 0 PROVE FALSE OBVIOUS
        <5>1. regions[1].at = e /\ 1 \in DOMAIN regions BY <1>1, <1>3, <1>8, <4>2 DEF RegionsLaid
        <5>. QED BY <2>3, <4>1, <5>1 DEF DataAt
      <4>4. d = 0 BY <1>1, <1>5, <1>8, <4>3 DEF RegionsLaid
      <4>. QED BY <1>9, <1>12, <4>1, <4>4
    <3>2. m < n /\ m + 1 \in 1 .. n BY <1>4, <3>1
    <3>3. DOMAIN slots = 1 .. n /\ \A k \in 1 .. n : slots[k].at = End(k - 1) /\ slots[k].size = Entry(k).size
      <4>1. slots \in Seq(SlotType) /\ \A k \in 1 .. Len(slots) :
              slots[k].at = End(k - 1) /\ slots[k].size = Entry(k).size
        BY <1>1, Zenon DEF SlotsLaid
      <4>2. DOMAIN slots = 1 .. Len(slots) BY ONLY <4>1
      <4>. QED BY <1>5, <4>1, <4>2, Zenon
    <3>4. \A k \in 1 .. n : slots[k].at = get_file <=> k = m + 1
      <4>. TAKE k \in 1 .. n
      <4>1. k - 1 \in Nat /\ (k - 1 = m <=> k = m + 1) OBVIOUS
      <4>2. slots[k].at = End(k - 1) BY <3>3
      <4>3. End(k - 1) = End(m) <=> k - 1 = m BY <4>1, EndsDiffer
      <4>. QED BY <2>1, <4>1, <4>2, <4>3
    <3>5. SlotsAt(get_file) = {m + 1} BY <3>2, <3>3, <3>4 DEF SlotsAt
    <3>6. (CHOOSE k \in SlotsAt(get_file) : TRUE) = m + 1 BY <3>5
    <3>7. Passed(get_file) = Framed(slots[m + 1].size) BY <3>6 DEF Passed
    <3>. QED BY <3>2, <3>3, <3>5, <3>7
  <2>. QED BY <2>1, <2>2, <2>3
<1>. QED BY <1>2, <1>3, <1>5, <1>6, <1>11, <1>12 DEF Reads

\* A round of its loop, or the end of it.
LEMMA ImageRead ==
  ASSUME ImageInv, read_harshfs_image, TreeInv' PROVE ImageInv'
<1>1. PICK all, dat, tot : LaidOut(all, dat, tot) BY Zenon DEF ImageInv
<1>2. /\ step = "read" /\ step' \in {"read", "free"}
      /\ UNCHANGED tree /\ filesystem_address' = filesystem_address
      /\ final_file_address' = final_file_address /\ overall_fs_size' = overall_fs_size
      /\ image' = image /\ slots' = slots /\ regions' = regions /\ footer' = footer
  BY DEF read_harshfs_image, sizes, written
<1>3. /\ Sums(all, dat, tot) /\ LaidSizes(all, dat) /\ SlotsLaid /\ RegionsLaid(dat) /\ ReadUp(tot)
  BY <1>1, <1>2 DEF LaidOut, Building
<1>4. M \in Nat BY EntriesTyped DEF ImageInv
<1>5. PICK m \in 0 .. M : m = Len(listed) /\ Reads(m)
  BY <1>1, <1>2, <1>4, ReadFacts DEF Reads
<1>6. M' = M /\ Sums(all, dat, tot)' BY <1>2, <1>3, NodesKept
<1>7. SlotsLaid' /\ RegionsLaid(dat)' BY <1>2, <1>3, SlotsKept, RegionsKept
<1>8. LaidSizes(all, dat)'
  <2>1. End(M)' = End(M) /\ Address(M)' = Address(M) /\ End(Len(slots))' = End(Len(slots))
    BY <1>2, <1>6 DEF End, Address
  <2>. QED BY <1>2, <1>3, <1>6, <2>1 DEF LaidSizes
<1>9. /\ get_file \in Nat /\ latest_size \in Nat /\ listed \in Seq(Nat) /\ latest_size = tot[m]
      /\ \A i \in 1 .. m : listed[i] = End(i - 1) /\ i <= M
  BY <1>2, <1>3, <1>5 DEF ReadUp
<1>10. \A k \in Nat : End(k)' = End(k) BY DEF End
<1>11. ReadUp(tot)'
  <2>1. CASE /\ get_file > overall_fs_size - MAGIC \/ get_file = footer
             /\ step' = "free" /\ UNCHANGED reading
    <3>1. m = M BY <1>5, <2>1 DEF Reads
    <3>. QED BY <1>5, <1>6, <1>9, <2>1, <3>1 DEF ReadUp, reading, End
  <2>2. CASE /\ get_file <= overall_fs_size - MAGIC /\ get_file # footer /\ DataAt(get_file)
             /\ get_file' = get_file + latest_size
             /\ UNCHANGED <<step, latest_size, listed>>
    <3>1. m = M /\ get_file' > overall_fs_size' - MAGIC BY <1>2, <1>5, <2>2 DEF Reads
    <3>2. get_file' \in Nat BY <1>9, <2>2
    <3>. QED BY <1>2, <1>5, <1>6, <1>9, <2>2, <3>1, <3>2 DEF ReadUp, End
  <2>3. CASE /\ get_file <= overall_fs_size - MAGIC /\ get_file # footer /\ ~DataAt(get_file)
             /\ latest_size' = latest_size + Passed(get_file)
             /\ listed' = Append(listed, get_file)
             /\ get_file' = get_file + NODE
             /\ UNCHANGED step
    <3>1. get_file = End(m) /\ m < M /\ Passed(get_file) = Framed(Entry(m + 1).size)
      BY <1>5, <2>3 DEF Reads
    <3>2. m \in 0 .. M - 1 /\ m \in Nat /\ m + 1 \in 0 .. M BY <1>4, <3>1
    <3>3. tot[m + 1] = tot[m] + Framed(Entry(m + 1).size) /\ tot[m + 1] \in Nat
      <4>1. tot \in [0 .. M -> Nat] BY <1>3, Zenon DEF Sums
      <4>2. \A k \in 0 .. M - 1 : tot[k + 1] = tot[k] + Framed(Entry(k + 1).size)
        BY <1>3, Zenon DEF Sums
      <4>. QED BY <3>2, <4>1, <4>2
    <3>4. latest_size' = tot[m + 1] BY <1>9, <2>3, <3>1, <3>3
    <3>5. get_file' = End(m + 1) /\ get_file' \in Nat BY <2>3, <3>1, <3>2, Places
    <3>6. listed' \in Seq(Nat) /\ Len(listed') = m + 1
          /\ \A i \in 1 .. m + 1 : listed'[i] = End(i - 1) /\ i <= M
      <4>1. PICK s \in Seq(Nat) : s = listed BY <1>9
      <4>2. PICK t : t = Append(s, get_file) OBVIOUS
      <4>3. t \in Seq(Nat) /\ Len(t) = m + 1 /\ t[m + 1] = get_file /\ \A i \in 1 .. m : t[i] = s[i]
        <5>1. Len(s) = m BY <1>5, <4>1
        <5>. QED BY ONLY <1>9, <4>2, <5>1, s \in Seq(Nat), AppendProperties
      <4>4. \A i \in 1 .. m + 1 : i = m + 1 \/ i \in 1 .. m BY <3>2
      <4>5. (m + 1) - 1 = m /\ m + 1 <= M BY <3>2, <1>4
      <4>6. \A i \in 1 .. m + 1 : t[i] = End(i - 1) /\ i <= M
        <5>. TAKE i \in 1 .. m + 1
        <5>1. CASE i = m + 1 BY <3>1, <4>3, <4>5, <5>1
        <5>2. CASE i \in 1 .. m BY <1>9, <4>1, <4>3, <5>2
        <5>. QED BY <4>4, <5>1, <5>2
      <4>. QED BY <2>3, <4>1, <4>2, <4>3, <4>6
    <3>. QED BY <1>2, <1>4, <1>6, <2>3, <3>2, <3>3, <3>4, <3>5, <3>6 DEF ReadUp, End
  <2>. QED BY <2>1, <2>2, <2>3 DEF read_harshfs_image
<1>12. LaidOut(all, dat, tot)' BY <1>2, <1>6, <1>7, <1>8, <1>11 DEF LaidOut, Building
<1>. QED BY <1>2, <1>12 DEF ImageInv
---------------------------------------------------------------------------
\* Every step keeps the image.
LEMMA NextImage ==
  ASSUME ImageInv, [Next]_vars PROVE ImageInv'
<1>1. TreeInv' BY NextTree DEF ImageInv
<1>3. TreeInv /\ M \in Nat /\ NODATA \in SIZES \cup {NODATA} BY EntriesTyped DEF ImageInv
<1>4. ASSUME NEW nm \in NAMES, add_root(nm) PROVE ImageInv'
  <2>1. NewEntry(NODATA) /\ M = 0 BY <1>3, <1>4, RootAdded
  <2>2. step = "build" /\ record(1, NODATA) /\ UNCHANGED <<step, written, reading>>
    BY <1>4 DEF add_root
  <2>. QED BY <1>1, <1>3, <2>1, <2>2, SizesGrow
<1>5. ASSUME NEW nm \in NAMES, NEW p \in Parents, NEW t \in {FILE_CODE, DIRECTORY},
             NEW d \in SIZES \cup {NODATA}, add_node(p, t, nm, d)
      PROVE  ImageInv'
  <2>1. NewEntry(d) /\ M # 0 BY <1>3, <1>5, NodeAdded
  <2>2. step = "build" /\ record(New, d) /\ UNCHANGED <<step, written, reading>>
    BY <1>5 DEF add_node, insert_harshfs_node, Wanted
  <2>. QED BY <1>1, <2>1, <2>2, SizesGrow
<1>6. CASE \E nm \in NAMES : \E p \in Parents :
             \/ add_directory(p, nm)
             \/ \E d \in SIZES \cup {NODATA} : add_file(p, nm, d)
             \/ add_invalid(p, nm)
  <2>1. PICK nm \in NAMES, p \in Parents :
             \/ add_directory(p, nm)
             \/ \E d \in SIZES \cup {NODATA} : add_file(p, nm, d)
             \/ add_invalid(p, nm)
    BY <1>6
  <2>2. CASE add_directory(p, nm) BY <1>3, <1>5, <2>2 DEF add_directory
  <2>3. CASE \E d \in SIZES \cup {NODATA} : add_file(p, nm, d) BY <1>5, <2>3 DEF add_file
  <2>4. CASE add_invalid(p, nm)
    <3>1. EntriesKept /\ M' = M BY <1>3, <2>4, NodeRefused
    <3>2. step = "build" /\ step' \in {"build", "aborted"} /\ UNCHANGED <<sizes, written, reading>>
      BY <2>4 DEF add_invalid, insert_harshfs_node, Wanted
    <3>. QED BY <1>1, <3>1, <3>2, SizesStay
  <2>. QED BY <2>1, <2>2, <2>3, <2>4
<1>7. CASE Main
  <2>1. CASE creating_image BY <1>1, <2>1, ImageBegun
  <2>2. CASE image_node BY <1>1, <2>2, NodeImaged
  <2>3. CASE image_footer BY <1>1, <2>3, FooterImaged
  <2>4. CASE read_harshfs_image BY <1>1, <2>4, ImageRead
  <2>5. CASE free_all_memory
    <3>1. MovesOn BY <2>5 DEF free_all_memory, MovesOn
    <3>. QED BY <3>1, MovedOn
  <2>. QED BY <1>7, <2>1, <2>2, <2>3, <2>4, <2>5 DEF Main
<1>8. CASE UNCHANGED vars
  <2>1. MovesOn BY <1>8 DEF vars, MovesOn
  <2>. QED BY <2>1, MovedOn
<1>. QED BY <1>4, <1>6, <1>7, <1>8 DEF Next

\* The layout of the image and the position of its reader (creating_image, read_harshfs_image).
THEOREM ImageInvHolds == Spec => []ImageInv
<1>1. Init => ImageInv BY InitImage
<1>2. ImageInv /\ [Next]_vars => ImageInv' BY NextImage
<1>. QED BY <1>1, <1>2, PTL DEF Spec
---------------------------------------------------------------------------
\* The variables have their types (create_kernel_initrd.c).
THEOREM ImageTyped == Spec => []TypeOK
<1>1. ImageInv => TypeOK
  <2>. SUFFICES ASSUME ImageInv PROVE TypeOK OBVIOUS
  <2>1. PICK all, dat, tot : LaidOut(all, dat, tot) BY Zenon DEF ImageInv
  <2>2. PICK n \in Nat : n = M BY EntriesTyped DEF ImageInv
  <2>3. addresses \in Seq([node: 1 .. Len(node), address: Nat]) BY DEF ImageInv, TreeInv, Numbered, N
  <2>4. /\ Sums(all, dat, tot) /\ SlotsLaid /\ RegionsLaid(dat) /\ ReadUp(tot)
        /\ Building => GrownSizes(all)
        /\ ~Building => LaidSizes(all, dat)
    BY <2>1, Zenon DEF LaidOut
  <2>5. \A k \in 0 .. n : all[k] \in Nat /\ dat[k] \in Nat BY <2>2, <2>4 DEF Sums
  <2>6. \A k \in Nat : Address(k) \in Nat /\ End(k) \in Nat BY Places
  <2>7. Len(slots) \in 0 .. n /\ n \in 0 .. n BY <2>2, <2>4 DEF SlotsLaid
  <2>8. {filesystem_address, final_file_address, overall_fs_size, image, footer, get_file,
         latest_size} \subseteq Nat
    <3>1. get_file \in Nat /\ latest_size \in Nat BY <2>4 DEF ReadUp
    <3>2. CASE Building
      <4>1. filesystem_address = Address(n) BY <2>2, <3>2 DEF ImageInv, TreeInv
      <4>2. /\ overall_fs_size = End(n) + all[n] /\ image = 0 /\ footer = 0
            /\ final_file_address = IF n = 0 THEN 0 ELSE Address(n)
        BY <2>2, <2>4, <3>2 DEF GrownSizes
      <4>3. all[n] \in Nat /\ End(n) \in Nat /\ Address(n) \in Nat BY <2>5, <2>6, <2>7
      <4>4. final_file_address \in Nat /\ overall_fs_size \in Nat /\ filesystem_address \in Nat
            /\ image \in Nat /\ footer \in Nat
        BY ONLY <4>1, <4>2, <4>3
      <4>. QED BY ONLY <3>1, <4>4
    <3>3. CASE ~Building
      <4>1. /\ overall_fs_size = End(n) + all[n] + MAGIC /\ filesystem_address \in Nat
            /\ image = End(Len(slots)) /\ final_file_address = Address(n) + dat[Len(slots)]
            /\ footer = 0 \/ footer = End(n) + dat[n]
        BY <2>2, <2>4, <3>3 DEF LaidSizes
      <4>2. End(n) \in Nat /\ Address(n) \in Nat /\ End(Len(slots)) \in Nat /\ MAGIC \in Nat
            /\ all[n] \in Nat /\ dat[n] \in Nat /\ dat[Len(slots)] \in Nat
        BY <2>5, <2>6, <2>7 DEF MAGIC
      <4>3. final_file_address \in Nat /\ overall_fs_size \in Nat /\ image \in Nat /\ footer \in Nat
        <5>1. PICK a \in Nat, e \in Nat, x \in Nat, y \in Nat, z \in Nat :
                a = Address(n) /\ e = End(n) /\ x = all[n] /\ y = dat[n] /\ z = dat[Len(slots)]
          BY <4>2
        <5>2. /\ final_file_address = a + z /\ overall_fs_size = e + x + MAGIC
              /\ footer = 0 \/ footer = e + y
          BY <4>1, <5>1
        <5>3. overall_fs_size \in Nat BY ONLY <5>2, x \in Nat, e \in Nat DEF MAGIC
        <5>4. final_file_address \in Nat /\ footer \in Nat
          BY ONLY <5>2, a \in Nat, z \in Nat, e \in Nat, y \in Nat
        <5>. QED BY <4>1, <4>2, <5>3, <5>4
      <4>. QED BY ONLY <3>1, <4>1, <4>3
    <3>. QED BY <3>2, <3>3
  <2>9. /\ slots \in Seq([at: Nat, name: NAMES, size: Nat, link: [Links -> Nat], data: Nat])
        /\ regions \in Seq([at: Nat, size: Nat]) /\ listed \in Seq(Nat)
    BY <2>4, Zenon DEF SlotsLaid, RegionsLaid, ReadUp, SlotType, Region
  <2>10. node \in Seq([name: NAMES, harshfs_node_type: {FILE_CODE, DIRECTORY}, size: Nat,
                   data: BOOLEAN, next_in_current_dir: Nat, previous_in_current_dir: Nat,
                   next_dir: Nat, previous_dir: Nat])
    BY Zenon DEF ImageInv, TreeInv, Node
  <2>11. step \in {"build", "nodes", "read", "free", "done", "aborted"} BY DEF ImageInv
  <2>. QED BY <2>3, <2>8, <2>9, <2>10, <2>11, Zenon DEF TypeOK
<1>. QED BY <1>1, ImageInvHolds, PTL

(***************************************************************************)
(* read_harshfs_image lists every slot in order and nothing else, whatever *)
(* sizes the data has: the sum by which it skips the data is at least what *)
(* the data takes, because the root has none.                              *)
(***************************************************************************)
THEOREM ReadingIsInOrder == Spec => []ReadsSlotsInOrder
<1>1. ImageInv => ReadsSlotsInOrder
  <2>. SUFFICES ASSUME ImageInv PROVE ReadsSlotsInOrder OBVIOUS
  <2>1. PICK all, dat, tot : LaidOut(all, dat, tot) BY Zenon DEF ImageInv
  <2>2. M \in Nat /\ step \in {"build", "nodes", "read", "free", "done", "aborted"}
    BY EntriesTyped DEF ImageInv
  <2>3. /\ SlotsLaid /\ RegionsLaid(dat) /\ ReadUp(tot)
        /\ ~Building => LaidSizes(all, dat)
    BY <2>1, Zenon DEF LaidOut
  <2>4. /\ listed \in Seq(Nat) /\ DOMAIN listed = 1 .. Len(listed) /\ Len(listed) \in Nat
        /\ \A i \in 1 .. Len(listed) : listed[i] = End(i - 1) /\ i <= M
        /\ step \in {"build", "aborted", "nodes"} => listed = <<>>
        /\ step \in {"free", "done"} => Len(listed) = 0 \/ Len(listed) = M
    BY <2>3 DEF ReadUp
  <2>5. DOMAIN slots = 1 .. Len(slots) /\ \A k \in 1 .. Len(slots) : slots[k].at = End(k - 1)
    <3>1. slots \in Seq(SlotType) /\ \A k \in 1 .. Len(slots) : slots[k].at = End(k - 1)
      BY <2>3, Zenon DEF SlotsLaid
    <3>. QED BY <3>1
  <2>6. step \in {"read", "free", "done"} => Len(slots) = M
    BY <2>3 DEF LaidSizes, Building
  <2>7. \A i \in DOMAIN listed : i \in DOMAIN slots /\ listed[i] = slots[i].at
    <3>. TAKE i \in DOMAIN listed
    <3>1. listed # <<>> /\ i \in 1 .. Len(listed) BY <2>4
    <3>2. step \in {"read", "free", "done"} BY <2>2, <2>4, <3>1
    <3>3. i \in 1 .. Len(slots) /\ listed[i] = End(i - 1)
      <4>1. Len(slots) = M BY <2>6, <3>2
      <4>2. i <= M /\ listed[i] = End(i - 1) /\ i \in 1 .. Len(listed) BY <2>4, <3>1
      <4>3. i \in 1 .. M
        <5>1. PICK l \in Nat, n \in Nat : l = Len(listed) /\ n = M BY <2>2, <2>4
        <5>2. i \in 1 .. l /\ i <= n BY <4>2, <5>1
        <5>3. i \in 1 .. n BY ONLY <5>2, l \in Nat, n \in Nat
        <5>. QED BY <5>1, <5>3
      <4>. QED BY <4>1, <4>2, <4>3, Zenon
    <3>. QED BY <2>5, <3>3
  <2>8. ASSUME step = "read", get_file <= overall_fs_size - MAGIC
        PROVE  \/ get_file = footer \/ DataAt(get_file)
               \/ \E k \in SlotsAt(get_file) : k = Len(listed) + 1
    <3>1. Reads(Len(listed)) BY <2>1, <2>2, <2>8, ReadFacts
    <3>. QED BY <2>8, <3>1 DEF Reads
  <2>9. step = "free" /\ listed # <<>> => Len(listed) = Len(slots) BY <2>4, <2>6
  <2>. QED BY <2>7, <2>8, <2>9 DEF ReadsSlotsInOrder
<1>. QED BY <1>1, ImageInvHolds, PTL
---------------------------------------------------------------------------
(* Areas of the image. *)
\* The entries of a list without repetition are as many as it is long.
Counts(S, f, n) ==
  n \in Nat /\ S = {f[i] : i \in 1 .. n} /\ \A i, j \in 1 .. n : f[i] = f[j] => i = j

LEMMA Counted ==
  ASSUME NEW S, NEW f, NEW n, Counts(S, f, n)
  PROVE  IsFiniteSet(S) /\ Cardinality(S) = n
<1>. n \in Nat BY DEF Counts
<1>1. S = {f[i] : i \in 1 .. n} /\ \A i, j \in 1 .. n : f[i] = f[j] => i = j
  BY Zenon DEF Counts
<1>2. PICK g : g = [i \in 1 .. n |-> f[i]] OBVIOUS
<1>3. /\ g \in [1 .. n -> S] /\ \A i, j \in 1 .. n : g[i] = g[j] => i = j
      /\ \A t \in S : \E i \in 1 .. n : g[i] = t
  BY <1>1, <1>2, Zenon
<1>4. g \in Bijection(1 .. n, S)
  <2>1. PICK D : D = 1 .. n OBVIOUS
  <2>2. /\ g \in [D -> S] /\ \A i, j \in D : g[i] = g[j] => i = j
        /\ \A t \in S : \E i \in D : g[i] = t
    BY <1>3, <2>1
  <2>3. g \in Bijection(D, S) BY ONLY <2>2, Fun_IsBij, Zenon
  <2>. QED BY <2>1, <2>3
<1>5. ExistsBijection(1 .. n, S) BY <1>4, Zenon DEF ExistsBijection
<1>6. IsFiniteSet(S)
  <2>1. \E m \in Nat : ExistsBijection(1 .. m, S) BY <1>5
  <2>. QED BY <2>1, FS_NatBijection
<1>7. Cardinality(S) = n BY <1>5, FS_CountingElements
<1>. QED BY <1>6, <1>7

\* Sets that share nothing add up.
LEMMA CountedApart ==
  ASSUME NEW S, NEW T, IsFiniteSet(S), IsFiniteSet(T), S \cap T = {}
  PROVE  IsFiniteSet(S \cup T) /\ Cardinality(S \cup T) = Cardinality(S) + Cardinality(T)
BY FS_Union, FS_EmptySet, FS_CardinalityType

\* Header, slots, data and footer have a zone each, one behind the other; within a zone
\* there is an order.
InZones(e, q) ==
  /\ e \in Nat /\ q \in Nat /\ MAGIC <= e /\ e + q <= overall_fs_size
  /\ Len(slots) \in Nat /\ DOMAIN slots = 1 .. Len(slots)
  /\ \A k \in DOMAIN slots : slots[k].at \in Nat /\ MAGIC <= slots[k].at /\ slots[k].at + NODE <= e
  /\ \A j, k \in DOMAIN slots : j < k => slots[j].at + NODE <= slots[k].at
  /\ Len(regions) \in Nat /\ DOMAIN regions = 1 .. Len(regions)
  /\ \A i \in DOMAIN regions :
       /\ regions[i].at \in Nat /\ regions[i].size \in Nat /\ regions[i].size > 0
       /\ e <= regions[i].at /\ regions[i].at + regions[i].size <= e + q
  /\ \A i, j \in DOMAIN regions : i < j => regions[i].at + regions[i].size <= regions[j].at
  /\ footer # 0 => footer = e + q /\ e + q + MAGIC <= overall_fs_size
  /\ overall_fs_size \in Nat

\* There are such zones.
LEMMA Zoned ==
  ASSUME ImageInv, step # "build" PROVE \E e, q : InZones(e, q)
<1>1. PICK all, dat, tot : LaidOut(all, dat, tot) BY Zenon DEF ImageInv
<1>2. PICK n \in Nat : n = M BY EntriesTyped DEF ImageInv
<1>3. /\ Sums(all, dat, tot) /\ SlotsLaid /\ RegionsLaid(dat)
      /\ Building => GrownSizes(all)
      /\ ~Building => LaidSizes(all, dat)
  BY <1>1, Zenon DEF LaidOut
<1>4. /\ \A k \in 0 .. n : dat[k] \in Nat /\ all[k] \in Nat
      /\ \A k \in 0 .. n : dat[k] <= dat[n]
      /\ dat[n] <= all[n]
  <2>1. /\ all \in [0 .. n -> Nat] /\ dat \in [0 .. n -> Nat] /\ all[0] = 0 /\ dat[0] = 0
        /\ \A j, k \in 0 .. n : j <= k => dat[j] <= dat[k]
        /\ \A k \in 1 .. n : dat[k] <= all[k]
    BY <1>2, <1>3, Zenon DEF Sums
  <2>2. n \in 0 .. n /\ (n = 0 \/ n \in 1 .. n) /\ \A k \in 0 .. n : k <= n OBVIOUS
  <2>. QED BY <2>1, <2>2
<1>5. PICK l \in 0 .. n : l = Len(slots) BY <1>2, <1>3 DEF SlotsLaid
<1>6. PICK e \in Nat, q \in Nat, a \in Nat, d \in Nat :
        e = End(n) /\ q = dat[l] /\ a = all[n] /\ d = dat[n] /\ q <= d /\ d <= a
  <2>1. End(n) \in Nat /\ n \in 0 .. n BY Places
  <2>. QED BY <1>4, <2>1
<1>7. MAGIC <= e BY <1>6, ImageConstants DEF End, MAGIC
<1>8. /\ overall_fs_size \in Nat /\ e + q <= overall_fs_size
      /\ footer # 0 => footer = e + q /\ e + q + MAGIC <= overall_fs_size
  <2>1. CASE Building
    <3>1. overall_fs_size = e + a /\ footer = 0 BY <1>2, <1>3, <1>6, <2>1 DEF GrownSizes
    <3>. QED BY ONLY <1>6, <3>1
  <2>2. CASE ~Building
    <3>1. /\ overall_fs_size = e + a + MAGIC
          /\ IF step = "nodes" THEN footer = 0 ELSE l = n /\ footer = e + d
      BY <1>2, <1>3, <1>5, <1>6, <2>2 DEF LaidSizes
    <3>2. l = n => q = d BY <1>6
    <3>. QED BY ONLY <1>6, <3>1, <3>2 DEF MAGIC
  <2>. QED BY <2>1, <2>2
<1>9. /\ DOMAIN slots = 1 .. l /\ \A k \in 1 .. l : slots[k].at = End(k - 1)
  <2>1. slots \in Seq(SlotType) /\ \A k \in 1 .. Len(slots) : slots[k].at = End(k - 1)
    BY <1>3, Zenon DEF SlotsLaid
  <2>. QED BY <1>5, <2>1
<1>10. \A k \in 1 .. l : slots[k].at \in Nat /\ MAGIC <= slots[k].at /\ slots[k].at + NODE <= e
  <2>. TAKE k \in 1 .. l
  <2>1. k - 1 \in Nat /\ k - 1 < n BY <1>2
  <2>2. End(k - 1) \in Nat /\ End(k - 1) + NODE <= End(n) BY <2>1, Places, EndsApart
  <2>3. MAGIC <= End(k - 1)
    <3>1. (k - 1) * NODE \in Nat BY <2>1, ImageConstants
    <3>. QED BY <3>1 DEF End, MAGIC
  <2>. QED BY <1>6, <1>9, <2>2, <2>3
<1>11. \A j, k \in 1 .. l : j < k => slots[j].at + NODE <= slots[k].at
  <2>. TAKE j, k \in 1 .. l
  <2>. HAVE j < k
  <2>1. j - 1 \in Nat /\ k - 1 \in Nat /\ j - 1 < k - 1 OBVIOUS
  <2>. QED BY <1>9, <2>1, EndsApart
<1>12. /\ Len(regions) \in Nat /\ DOMAIN regions = 1 .. Len(regions)
       /\ \A i \in 1 .. Len(regions) : regions[i].at \in Nat /\ regions[i].size \in Nat
  <2>1. regions \in Seq(Region) BY <1>3, Zenon DEF RegionsLaid
  <2>2. /\ Len(regions) \in Nat /\ DOMAIN regions = 1 .. Len(regions)
        /\ \A i \in 1 .. Len(regions) : regions[i] \in Region
    BY ONLY <2>1
  <2>3. \A r \in Region : r.at \in Nat /\ r.size \in Nat BY ONLY DEF Region
  <2>. QED BY ONLY <2>2, <2>3, Zenon
<1>13. \A i \in 1 .. Len(regions) : /\ regions[i].size > 0 /\ e <= regions[i].at
                                    /\ regions[i].at + regions[i].size <= e + q
  <2>. TAKE i \in 1 .. Len(regions)
  <2>0. \E k \in 1 .. Len(slots) : /\ HasData(k) /\ regions[i].at = End(M) + dat[k - 1]
                                   /\ regions[i].size = Framed(Entry(k).size)
    BY <1>3, Zenon DEF RegionsLaid
  <2>1. PICK k \in 1 .. l : /\ HasData(k) /\ regions[i].at = e + dat[k - 1]
                            /\ regions[i].size = Framed(Entry(k).size)
    BY <1>2, <1>5, <1>6, <2>0
  <2>2. k - 1 \in 0 .. n - 1 /\ (k - 1) + 1 = k /\ k - 1 \in 0 .. n /\ k \in 0 .. n OBVIOUS
  <2>3. dat[k] = dat[k - 1] + Framed(Entry(k).size)
    <3>1. \A m \in 0 .. n - 1 :
            dat[m + 1] = dat[m] + (IF HasData(m + 1) THEN Framed(Entry(m + 1).size) ELSE 0)
      BY <1>2, <1>3, Zenon DEF Sums
    <3>2. dat[(k - 1) + 1] = dat[k - 1]
                             + (IF HasData((k - 1) + 1) THEN Framed(Entry((k - 1) + 1).size) ELSE 0)
      BY ONLY <2>2, <3>1
    <3>. QED BY <2>1, <2>2, <3>2
  <2>4. dat[k] <= q
    <3>1. k <= l /\ l \in 0 .. n /\ k \in 0 .. n BY <2>2
    <3>2. \A x, y \in 0 .. n : x <= y => dat[x] <= dat[y] BY <1>2, <1>3, Zenon DEF Sums
    <3>. QED BY <1>6, <3>1, <3>2
  <2>5. regions[i].size > 0
    <3>1. k \in 1 .. n OBVIOUS
    <3>2. Entry(k).size \in Nat BY <1>2, <3>1, EntriesTyped DEF ImageInv
    <3>. QED BY <2>1, <3>2 DEF Framed, MAGIC
  <2>6. PICK x \in Nat, y \in Nat, z \in Nat :
          x = dat[k - 1] /\ y = dat[k] /\ z = regions[i].size
    BY <1>4, <1>12, <2>2
  <2>7. y = x + z /\ regions[i].at = e + x /\ y <= q BY <2>1, <2>3, <2>4, <2>6
  <2>. QED BY ONLY <2>5, <2>6, <2>7, e \in Nat, q \in Nat, x \in Nat, y \in Nat, z \in Nat
<1>14. \A i, j \in 1 .. Len(regions) : i < j => regions[i].at + regions[i].size <= regions[j].at
  BY <1>3, Zenon DEF RegionsLaid
<1>15. InZones(e, q)
  <2>1. Len(slots) \in Nat /\ DOMAIN slots = 1 .. Len(slots) BY <1>5, <1>9
  <2>. QED BY <1>7, <1>8, <1>9, <1>10, <1>11, <1>12, <1>13, <1>14, <2>1, Zenon DEF InZones
<1>. QED BY <1>15

\* Then no two areas share a byte.
LEMMA ApartInZones ==
  ASSUME NEW e, NEW q, InZones(e, q), NODE \in Nat
  PROVE  /\ Cardinality(Areas) = 1 + Len(slots) + Len(regions) + (IF footer = 0 THEN 0 ELSE 1)
         /\ \A a \in Areas : a[1] + a[2] <= overall_fs_size
         /\ \A a, b \in Areas : a # b => a[1] + a[2] <= b[1] \/ b[1] + b[2] <= a[1]
<1>1. PICK s \in Nat, r \in Nat : s = Len(slots) /\ r = Len(regions) BY DEF InZones
<1>2. PICK f : f = [k \in 1 .. s |-> <<slots[k].at, NODE, "slot">>] OBVIOUS
<1>3. PICK g : g = [i \in 1 .. r |-> <<regions[i].at, regions[i].size, "data">>] OBVIOUS
<1>4. PICK H : H = {<<0, MAGIC, "header">>} OBVIOUS
<1>5. PICK F : F = IF footer = 0 THEN {} ELSE {<<footer, MAGIC, "footer">>} OBVIOUS
<1>6. PICK S : S = {f[k] : k \in 1 .. s} OBVIOUS
<1>7. PICK D : D = {g[i] : i \in 1 .. r} OBVIOUS
<1>8. DOMAIN slots = 1 .. s /\ DOMAIN regions = 1 .. r BY <1>1 DEF InZones
<1>9. Areas = H \cup S \cup D \cup F
  <2>1. S = {<<slots[k].at, NODE, "slot">> : k \in 1 .. s} BY <1>2, <1>6
  <2>2. D = {<<regions[i].at, regions[i].size, "data">> : i \in 1 .. r} BY <1>3, <1>7
  <2>. QED BY <1>4, <1>5, <1>8, <2>1, <2>2, Zenon DEF Areas
<1>10. /\ e \in Nat /\ q \in Nat /\ MAGIC \in Nat /\ MAGIC <= e /\ e + q <= overall_fs_size
       /\ overall_fs_size \in Nat
       /\ footer # 0 => footer = e + q /\ e + q + MAGIC <= overall_fs_size
  BY DEF InZones, MAGIC
<1>11. /\ \A k \in 1 .. s : /\ f[k][1] \in Nat /\ f[k][2] = NODE /\ f[k][3] = "slot"
                            /\ MAGIC <= f[k][1] /\ f[k][1] + f[k][2] <= e
       /\ \A j, k \in 1 .. s : j < k => f[j][1] + f[j][2] <= f[k][1]
  BY <1>2, <1>8 DEF InZones
<1>12. /\ \A i \in 1 .. r : /\ g[i][1] \in Nat /\ g[i][2] \in Nat /\ g[i][2] > 0 /\ g[i][3] = "data"
                            /\ e <= g[i][1] /\ g[i][1] + g[i][2] <= e + q
       /\ \A i, j \in 1 .. r : i < j => g[i][1] + g[i][2] <= g[j][1]
  BY <1>3, <1>8 DEF InZones
<1>13. /\ \A a \in H : a[1] = 0 /\ a[2] = MAGIC /\ a[3] = "header"
       /\ \A a \in F : a[1] = e + q /\ a[2] = MAGIC /\ a[3] = "footer" /\ footer # 0
       /\ \A a, b \in H : a = b
       /\ \A a, b \in F : a = b
  BY <1>4, <1>5, <1>10
<1>14. \A a \in S : \E k \in 1 .. s : a = f[k] BY <1>6
<1>15. \A a \in D : \E i \in 1 .. r : a = g[i] BY <1>7
<1>16. /\ \A a \in S : /\ a[1] \in Nat /\ a[2] = NODE /\ a[3] = "slot" /\ MAGIC <= a[1]
                       /\ a[1] + a[2] <= e
       /\ \A a \in D : /\ a[1] \in Nat /\ a[2] \in Nat /\ a[3] = "data" /\ e <= a[1]
                       /\ a[1] + a[2] <= e + q
  <2>1. ASSUME NEW a \in S
        PROVE  a[1] \in Nat /\ a[2] = NODE /\ a[3] = "slot" /\ MAGIC <= a[1] /\ a[1] + a[2] <= e
    <3>1. PICK k \in 1 .. s : a = f[k] BY <1>14
    <3>. QED BY ONLY <1>11, <3>1
  <2>2. ASSUME NEW a \in D
        PROVE  /\ a[1] \in Nat /\ a[2] \in Nat /\ a[3] = "data" /\ e <= a[1]
               /\ a[1] + a[2] <= e + q
    <3>1. PICK i \in 1 .. r : a = g[i] BY <1>15
    <3>. QED BY ONLY <1>12, <3>1
  <2>. QED BY ONLY <2>1, <2>2
<1>17. \A a, b \in S : a # b => a[1] + a[2] <= b[1] \/ b[1] + b[2] <= a[1]
  <2>. SUFFICES ASSUME NEW a \in S, NEW b \in S, a # b
                PROVE  a[1] + a[2] <= b[1] \/ b[1] + b[2] <= a[1]
    OBVIOUS
  <2>1. PICK j \in 1 .. s, k \in 1 .. s : a = f[j] /\ b = f[k] BY <1>14
  <2>2. j < k \/ k < j BY <2>1
  <2>. QED BY ONLY <1>11, <2>1, <2>2
<1>18. \A a, b \in D : a # b => a[1] + a[2] <= b[1] \/ b[1] + b[2] <= a[1]
  <2>. SUFFICES ASSUME NEW a \in D, NEW b \in D, a # b
                PROVE  a[1] + a[2] <= b[1] \/ b[1] + b[2] <= a[1]
    OBVIOUS
  <2>1. PICK j \in 1 .. r, k \in 1 .. r : a = g[j] /\ b = g[k] BY <1>15
  <2>2. j < k \/ k < j BY <2>1
  <2>. QED BY ONLY <1>12, <2>1, <2>2
<1>19. \A a \in Areas : a[1] + a[2] <= overall_fs_size
  <2>. SUFFICES ASSUME NEW a \in H \cup S \cup D \cup F PROVE a[1] + a[2] <= overall_fs_size
    BY <1>9
  <2>1. CASE a \in H BY ONLY <1>10, <1>13, <2>1
  <2>2. CASE a \in S BY ONLY <1>10, <1>16, <2>2, NODE \in Nat
  <2>3. CASE a \in D BY ONLY <1>10, <1>16, <2>3
  <2>4. CASE a \in F BY ONLY <1>10, <1>13, <2>4
  <2>. QED BY <2>1, <2>2, <2>3, <2>4
<1>20. ASSUME NEW a \in Areas, NEW b \in Areas, a # b
       PROVE  a[1] + a[2] <= b[1] \/ b[1] + b[2] <= a[1]
  <2>1. a \in H \/ a \in S \/ a \in D \/ a \in F BY <1>9
  <2>2. b \in H \/ b \in S \/ b \in D \/ b \in F BY <1>9
  <2>3. CASE a \in H BY ONLY <1>10, <1>13, <1>16, <1>20, <2>2, <2>3, NODE \in Nat
  <2>4. CASE a \in F BY ONLY <1>10, <1>13, <1>16, <1>20, <2>2, <2>4, NODE \in Nat
  <2>5. CASE a \in S BY ONLY <1>10, <1>13, <1>16, <1>17, <1>20, <2>2, <2>5, NODE \in Nat
  <2>6. CASE a \in D BY ONLY <1>10, <1>13, <1>16, <1>18, <1>20, <2>2, <2>6, NODE \in Nat
  <2>. QED BY <2>1, <2>3, <2>4, <2>5, <2>6
<1>21. Cardinality(Areas) = 1 + s + r + (IF footer = 0 THEN 0 ELSE 1)
  <2>1. IsFiniteSet(S) /\ Cardinality(S) = s
    <3>1. \A j, k \in 1 .. s : f[j] = f[k] => j = k
      <4>. SUFFICES ASSUME NEW j \in 1 .. s, NEW k \in 1 .. s, f[j] = f[k], j < k PROVE FALSE
        BY <1>11
      <4>1. NODE > 0 BY ImageConstants DEF MAGIC
      <4>. QED BY <1>11, <4>1
    <3>2. Counts(S, f, s) BY <1>6, <3>1, Zenon DEF Counts
    <3>. QED BY ONLY <3>2, Counted, Zenon
  <2>2. IsFiniteSet(D) /\ Cardinality(D) = r
    <3>1. \A j, k \in 1 .. r : g[j] = g[k] => j = k
      <4>. SUFFICES ASSUME NEW j \in 1 .. r, NEW k \in 1 .. r, g[j] = g[k], j < k PROVE FALSE
        BY <1>12
      <4>. QED BY <1>12
    <3>2. Counts(D, g, r) BY <1>7, <3>1, Zenon DEF Counts
    <3>. QED BY ONLY <3>2, Counted, Zenon
  <2>3. IsFiniteSet(H) /\ Cardinality(H) = 1 BY <1>4, FS_Singleton
  <2>4. IsFiniteSet(F) /\ Cardinality(F) = IF footer = 0 THEN 0 ELSE 1
    BY <1>5, FS_Singleton, FS_EmptySet
  <2>5. H \cap S = {} /\ (H \cup S) \cap D = {} /\ (H \cup S \cup D) \cap F = {}
    <3>1. "header" # "slot" /\ "header" # "data" /\ "header" # "footer" /\ "slot" # "data"
          /\ "slot" # "footer" /\ "data" # "footer"
      OBVIOUS
    <3>. QED BY ONLY <1>13, <1>16, <3>1, Zenon
  <2>6. IsFiniteSet(H \cup S) /\ Cardinality(H \cup S) = 1 + s
    BY <2>1, <2>3, <2>5, CountedApart
  <2>7. IsFiniteSet(H \cup S \cup D) /\ Cardinality(H \cup S \cup D) = 1 + s + r
    BY <2>2, <2>5, <2>6, CountedApart
  <2>8. Cardinality(H \cup S \cup D \cup F) = 1 + s + r + (IF footer = 0 THEN 0 ELSE 1)
    BY <2>4, <2>5, <2>7, CountedApart
  <2>. QED BY <1>9, <2>8
<1>. QED BY <1>1, <1>19, <1>20, <1>21

(***************************************************************************)
(* Header, slots, data and footer stay inside the bytes that were allocated*)
(* for the image and share none of them, for any tree and any sizes: what  *)
(* add_file and add_directory added up bounds what creating_image counts   *)
(* anew.                                                                   *)
(***************************************************************************)
THEOREM ImageIsApart == Spec => []AreasApart
<1>1. ImageInv => AreasApart
  <2>. SUFFICES ASSUME ImageInv, step # "build" PROVE AreasApart BY DEF AreasApart
  <2>1. PICK e, q : InZones(e, q) BY Zoned
  <2>. QED BY <2>1, ApartInZones, ImageConstants DEF AreasApart
<1>. QED BY <1>1, ImageInvHolds, PTL
---------------------------------------------------------------------------
(* The tree in the image. *)
\* A pointer of a complete image leads to the slot of the node it means.
LEMMA PointersLead ==
  ASSUME Numbered, SlotsLaid, Len(slots) = M, NEW n
  PROVE  SlotNamed(get_node_address(n), NODE) = SlotOf(n)
<1>1. /\ M \in Nat /\ DOMAIN addresses = 1 .. M /\ Recorded = {Nth(k) : k \in 1 .. M}
  BY NumberedFacts
<1>2. DOMAIN slots = 1 .. M /\ \A k \in 1 .. M : slots[k].at = End(k - 1)
  <2>1. slots \in Seq(SlotType) /\ \A k \in 1 .. Len(slots) : slots[k].at = End(k - 1)
    BY Zenon DEF SlotsLaid
  <2>. QED BY <2>1
<1>3. \A k \in 1 .. M : BASE + slots[k].at + NODE = Address(k) /\ Address(k) # 0
  <2>. TAKE k \in 1 .. M
  <2>1. k - 1 \in Nat /\ k \in Nat /\ (k - 1) + 1 = k OBVIOUS
  <2>2. End((k - 1) + 1) = End(k - 1) + NODE /\ End(k - 1) \in Nat /\ Address(k) = BASE + End(k)
    BY ONLY <2>1, Places
  <2>3. Address(k) = BASE + (End(k - 1) + NODE) BY <2>1, <2>2
  <2>. QED BY <1>2, <2>2, <2>3, ImageConstants DEF MAGIC
<1>4. \A j, k \in 1 .. M : Address(j) = Address(k) => j = k
  <2>. TAKE j, k \in 1 .. M
  <2>. SUFFICES ASSUME Address(j) = Address(k) PROVE j = k OBVIOUS
  <2>1. j \in Nat /\ k \in Nat OBVIOUS
  <2>2. Address(j) = BASE + End(j) /\ End(j) \in Nat BY ONLY <2>1, Places
  <2>3. Address(k) = BASE + End(k) /\ End(k) \in Nat BY ONLY <2>1, Places
  <2>4. BASE \in Nat BY ImageConstants
  <2>5. End(j) = End(k)
    <3>1. PICK x \in Nat, y \in Nat : x = End(j) /\ y = End(k) BY <2>2, <2>3
    <3>2. BASE + x = BASE + y BY <2>2, <2>3, <3>1
    <3>3. x = y BY ONLY <2>4, <3>2, x \in Nat, y \in Nat
    <3>. QED BY <3>1, <3>3
  <2>. QED BY ONLY <2>1, <2>5, EndsDiffer
<1>5. CASE n \notin Recorded
  <2>1. get_node_address(n) = 0 BY <1>5, GetAddress
  <2>2. ~\E k \in DOMAIN slots : BASE + slots[k].at + NODE = 0 BY <1>2, <1>3
  <2>. QED BY <1>5, <2>1, <2>2 DEF SlotNamed, SlotOf
<1>6. CASE n \in Recorded
  <2>1. PICK j \in 1 .. M : n = Nth(j) BY <1>1, <1>6
  <2>2. get_node_address(n) = Address(j) BY <2>1, GetAddress
  <2>3. \A k \in DOMAIN slots : BASE + slots[k].at + NODE = Address(j) <=> k = j
    BY <1>2, <1>3, <1>4
  <2>4. j \in DOMAIN slots BY <1>2
  <2>5. SlotNamed(Address(j), NODE) = j BY <2>3, <2>4 DEF SlotNamed
  <2>6. \A k \in DOMAIN addresses : addresses[k].node = n <=> k = j
    BY <1>1, <2>1, Zenon DEF Numbered, Nth
  <2>7. j \in DOMAIN addresses BY <1>1
  <2>8. SlotOf(n) = j BY <1>6, <2>6, <2>7 DEF SlotOf
  <2>. QED BY <2>2, <2>5, <2>8
<1>. QED BY <1>5, <1>6

(***************************************************************************)
(* A complete image holds the tree that was built, for any tree: all       *)
(* pointers are one node too high (a node is recorded after                *)
(* filesystem_address has moved on), and so taken each leads to the slot   *)
(* of the node that the same link leads to, or nowhere.                    *)
(***************************************************************************)
THEOREM ImageIsTree == Spec => []ImageHoldsTree
<1>1. ImageInv => ImageHoldsTree
  <2>. SUFFICES ASSUME ImageInv, footer # 0 PROVE ImageHoldsTree BY DEF ImageHoldsTree
  <2>1. PICK all, dat, tot : LaidOut(all, dat, tot) BY Zenon DEF ImageInv
  <2>2. Numbered BY DEF ImageInv, TreeInv
  <2>3. SlotsLaid /\ Len(slots) = M
    <3>1. ~Building BY <2>1 DEF LaidOut, GrownSizes
    <3>. QED BY <2>1, <3>1 DEF LaidOut, LaidSizes
  <2>4. ASSUME NEW k \in DOMAIN slots
        PROVE  /\ slots[k].name = Entry(k).name
               /\ \A l \in Links : SlotNamed(slots[k].link[l], NODE) = SlotOf(Entry(k)[l])
    <3>1. k \in 1 .. Len(slots)
      <4>1. slots \in Seq(SlotType) BY <2>3, Zenon DEF SlotsLaid
      <4>. QED BY <4>1
    <3>2. /\ slots[k].name = Entry(k).name
          /\ slots[k].link = [l \in Links |-> get_node_address(Entry(k)[l])]
      BY <2>3, <3>1, Zenon DEF SlotsLaid
    <3>3. \A l \in Links : slots[k].link[l] = get_node_address(Entry(k)[l]) BY <3>2
    <3>. QED BY <2>2, <2>3, <3>2, <3>3, PointersLead
  <2>5. NODE \in 0 .. NODE BY ImageConstants
  <2>6. \A k \in DOMAIN slots : Entry(k) = node[addresses[k].node] BY DEF Entry, Nth
  <2>. QED BY <2>4, <2>5, <2>6, Zenon DEF ImageHoldsTree
<1>. QED BY <1>1, ImageInvHolds, PTL
===========================================================================
