--------------------------- MODULE StorageProofs ----------------------------
(***************************************************************************)
(* Proofs about how a table is stored: the B-trees of its indexes          *)
(* (BTree.tla) and the pages of its heap (Table.tla).  An insertion that   *)
(* splits its way up leaves a tree every descent of which ends in a leaf   *)
(* and whose leaf chain ends, and no row is in two leaves; so a scan gives *)
(* each row once.  A heap's counters are those of its pages whatever is    *)
(* stored, tombstoned or copied; the indexes have slots of the heap, and   *)
(* the rows an access path chooses are different slots.                    *)
(***************************************************************************)
EXTENDS Table, FiniteSetTheorems, TLAPS

\* For the instances that only fold, or only recur
NoStep(context, f, x) == x
NoOp(before, element) == before

KeepFold == INSTANCE Folding WITH Op <- TakeKept, Step <- IntoPage

-----------------------------------------------------------------------------
(* Sequences *)

LEMMA Joined ==
    ASSUME NEW S, NEW s \in Seq(S), NEW t \in Seq(S)
    PROVE  /\ s \o t \in Seq(S)
           /\ Len(s \o t) = Len(s) + Len(t)
           /\ \A i \in 1 .. Len(s) : (s \o t)[i] = s[i]
           /\ \A i \in 1 .. Len(t) : (s \o t)[Len(s) + i] = t[i]
OBVIOUS

(* longer is seq with x inserted at a place *)
TookAt(seq, at, x, longer) ==
  /\ Len(longer) = Len(seq) + 1
  /\ \A i \in 1 .. Len(seq) + 1 :
       longer[i] = IF i < at THEN seq[i] ELSE IF i = at THEN x ELSE seq[i - 1]

LEMMA InsertedAt ==
    ASSUME NEW S, NEW seq \in Seq(S), NEW at \in 1 .. Len(seq) + 1, NEW x \in S
    PROVE  InsertAt(seq, at, x) \in Seq(S) /\ TookAt(seq, at, x, InsertAt(seq, at, x))
<1> DEFINE l == SubSeq(seq, 1, at - 1)
           r == SubSeq(seq, at, Len(seq))
<1>1. Len(seq) \in Nat /\ at \in Nat /\ at >= 1 /\ at <= Len(seq) + 1
  OBVIOUS
<1>2. l \in Seq(S) /\ Len(l) = at - 1 /\ \A i \in 1 .. at - 1 : l[i] = seq[i]
  BY <1>1
<1>3. r \in Seq(S) /\ Len(r) = Len(seq) - at + 1 /\ \A i \in 1 .. Len(seq) - at + 1 : r[i] = seq[at + i - 1]
  BY <1>1
<1>4. <<x>> \in Seq(S) /\ Len(<<x>>) = 1 /\ <<x>>[1] = x
  OBVIOUS
<1> DEFINE lx == l \o <<x>>
<1>5. InsertAt(seq, at, x) = lx \o r
  BY DEF InsertAt
<1> HIDE DEF l, r
<1>6. lx \in Seq(S) /\ Len(lx) = at /\ lx[at] = x /\ \A i \in 1 .. at - 1 : lx[i] = seq[i]
  <2> DEFINE one == <<x>>
  <2>1. one \in Seq(S) /\ Len(one) = 1 /\ one[1] = x
    BY <1>4
  <2> HIDE DEF one
  <2>2. /\ l \o one \in Seq(S) /\ Len(l \o one) = Len(l) + Len(one)
        /\ \A i \in 1 .. Len(l) : (l \o one)[i] = l[i]
        /\ \A i \in 1 .. Len(one) : (l \o one)[Len(l) + i] = one[i]
    <3>1. l \in Seq(S) /\ one \in Seq(S)
      BY <1>2, <2>1
    <3> QED
      BY <3>1, Joined
  <2>3. (l \o one)[at - 1 + 1] = x /\ at - 1 + 1 = at /\ Len(l \o one) = at
    BY <1>1, <1>2, <2>1, <2>2
  <2> QED
    BY <1>1, <1>2, <2>2, <2>3 DEF one
<1> HIDE DEF lx
<1>7. /\ lx \o r \in Seq(S) /\ Len(lx \o r) = Len(lx) + Len(r)
      /\ \A i \in 1 .. Len(lx) : (lx \o r)[i] = lx[i]
      /\ \A i \in 1 .. Len(r) : (lx \o r)[Len(lx) + i] = r[i]
  BY <1>3, <1>6, Joined
<1>8. ASSUME NEW i \in 1 .. Len(seq) + 1
      PROVE  (lx \o r)[i] = IF i < at THEN seq[i] ELSE IF i = at THEN x ELSE seq[i - 1]
  <2>0. i \in Nat /\ 1 <= i /\ i <= Len(seq) + 1
    BY <1>1
  <2>1. CASE i <= at
    <3>1. i \in 1 .. Len(lx) /\ (i = at \/ i \in 1 .. at - 1)
      BY <1>1, <1>6, <2>0, <2>1
    <3> QED
      BY <1>1, <1>6, <1>7, <2>1, <3>1
  <2>2. CASE i > at
    <3>1. PICK j \in 1 .. Len(r) : i = at + j
      <4>1. i - at \in 1 .. Len(r) /\ i = at + (i - at)
        BY <1>1, <1>3, <2>0, <2>2
      <4> QED
        BY <4>1
    <3>2. (lx \o r)[i] = r[j] /\ r[j] = seq[at + j - 1] /\ at + j - 1 = i - 1
      BY <1>1, <1>3, <1>6, <1>7, <3>1
    <3> QED
      BY <1>1, <2>0, <2>2, <3>2
  <2> QED
    <3>1. i <= at \/ i > at
      BY <1>1, <2>0
    <3> QED
      BY <2>1, <2>2, <3>1
<1> QED
  BY <1>1, <1>3, <1>5, <1>6, <1>7, <1>8 DEF TookAt

\* One element of a sequence replaced.
LEMMA Placed ==
    ASSUME NEW S, NEW seq \in Seq(S), NEW p \in DOMAIN seq, NEW x \in S, NEW new, new = [seq EXCEPT ![p] = x]
    PROVE  /\ new \in Seq(S) /\ DOMAIN new = DOMAIN seq /\ Len(new) = Len(seq)
           /\ new[p] = x /\ \A q \in DOMAIN seq : q # p => new[q] = seq[q]
OBVIOUS

LEMMA Slice ==
    ASSUME NEW S, NEW seq \in Seq(S), NEW a \in Nat, NEW b \in Nat, 1 <= a, a <= b + 1, b <= Len(seq)
    PROVE  /\ SubSeq(seq, a, b) \in Seq(S)
           /\ Len(SubSeq(seq, a, b)) = b - a + 1
           /\ \A i \in 1 .. b - a + 1 : SubSeq(seq, a, b)[i] = seq[a + i - 1] /\ a + i - 1 \in 1 .. Len(seq)
<1>1. \A i \in 1 .. b - a + 1 : SubSeq(seq, a, b)[i] = seq[a + i - 1]
  OBVIOUS
<1>2. \A i \in 1 .. b - a + 1 : a + i - 1 \in 1 .. Len(seq)
  OBVIOUS
<1>3. \A i \in a .. b : seq[i] \in S
  OBVIOUS
<1>4. Len(SubSeq(seq, a, b)) = b - a + 1 
  OBVIOUS
<1>5. SubSeq(seq, a, b) \in Seq(S)
  BY <1>3
<1> QED
  BY <1>1, <1>2, <1>4, <1>5

\* Where a key belongs is a place of the keys or the one after the last.
LEMMA BoundIs ==
    ASSUME NEW keys, NEW key, NEW n \in Nat, DOMAIN keys = 1 .. n
    PROVE  LowerBound(keys, key) \in 1 .. n + 1
<1> DEFINE S == {i \in DOMAIN keys : Before(keys[i], key)}
<1>1. IsFiniteSet(1 .. n) /\ Cardinality(1 .. n) = n
  BY FS_Interval
<1>2. S \in SUBSET (1 .. n)
  OBVIOUS
<1> HIDE DEF S
<1>3. Cardinality(S) \in Nat /\ Cardinality(S) <= n
  <2>1. IsFiniteSet(S) /\ Cardinality(S) <= Cardinality(1 .. n)
    BY <1>1, <1>2, FS_Subset
  <2> QED
    BY <1>1, <2>1, FS_CardinalityType
<1> QED
  BY <1>3 DEF LowerBound, S

-----------------------------------------------------------------------------
(* The shape of a tree *)

Position == Nat \X Nat

NodeType == [leaf : BOOLEAN, keys : Seq(Seq(Int)), kids : Seq(Nat \cup Position), next : Nat]

LeafAt(nodes, rank, p) ==
  /\ Len(nodes[p].kids) = Len(nodes[p].keys)
  /\ \A i \in DOMAIN nodes[p].kids : nodes[p].kids[i] \in Position
  /\ nodes[p].next # NoPage =>
       /\ nodes[p].next \in DOMAIN nodes /\ nodes[nodes[p].next].leaf
       /\ rank[nodes[p].next] < rank[p]

InnerAt(nodes, depth, p) ==
  /\ nodes[p].next = NoPage
  /\ Len(nodes[p].kids) = Len(nodes[p].keys) + 1
  /\ \A i \in DOMAIN nodes[p].kids :
       nodes[p].kids[i] \in DOMAIN nodes /\ depth[nodes[p].kids[i]] < depth[p]

(* Every child has less depth than its parent, every leaf less rank than   *)
(* the one before it on the chain                                          *)
Shaped(nodes, n, depth, m, rank) ==
  /\ nodes \in Seq(NodeType)
  /\ depth \in [DOMAIN nodes -> 0 .. n]
  /\ rank \in [DOMAIN nodes -> 0 .. m]
  /\ \A p \in DOMAIN nodes : nodes[p].leaf => LeafAt(nodes, rank, p)
  /\ \A p \in DOMAIN nodes : ~nodes[p].leaf => InnerAt(nodes, depth, p)

(* The leaves have each of the slots at most once, and no other row *)
RowsOnce(nodes, slots) ==
  \A p \in DOMAIN nodes : nodes[p].leaf => \A i \in DOMAIN nodes[p].kids :
    /\ nodes[p].kids[i] \in slots
    /\ \A q \in DOMAIN nodes : nodes[q].leaf => \A j \in DOMAIN nodes[q].kids :
         nodes[p].kids[i] = nodes[q].kids[j] => p = q /\ i = j

(* What the halves of a full leaf cut at h are *)
LeafCut(node, page, halves, h) ==
  /\ halves.key \in Seq(Int)
  /\ halves.left \in NodeType /\ halves.left.leaf /\ halves.left.next = page
  /\ halves.right \in NodeType /\ halves.right.leaf /\ halves.right.next = node.next
  /\ Len(halves.left.keys) = h /\ Len(halves.left.kids) = h
  /\ Len(halves.right.keys) = Order - h /\ Len(halves.right.kids) = Order - h
  /\ \A i \in 1 .. h : i \in DOMAIN node.kids /\ halves.left.kids[i] = node.kids[i]
  /\ \A i \in 1 .. Order - h :
       h + i \in DOMAIN node.kids /\ halves.right.kids[i] = node.kids[h + i]

(* The same of a full internal node *)
InnerCut(node, halves, h) ==
  /\ halves.key \in Seq(Int)
  /\ halves.left \in NodeType /\ ~halves.left.leaf /\ halves.left.next = NoPage
  /\ halves.right \in NodeType /\ ~halves.right.leaf /\ halves.right.next = NoPage
  /\ Len(halves.left.keys) = h - 1 /\ Len(halves.left.kids) = h
  /\ Len(halves.right.keys) = Order - h /\ Len(halves.right.kids) = Order - h + 1
  /\ \A i \in 1 .. h : i \in DOMAIN node.kids /\ halves.left.kids[i] = node.kids[i]
  /\ \A i \in 1 .. Order - h + 1 :
       h + i \in DOMAIN node.kids /\ halves.right.kids[i] = node.kids[h + i]

\* The halves of a full leaf have its entries between them.
LEMMA LeafHalves ==
    ASSUME NEW node \in NodeType, node.leaf, Len(node.keys) = Order, Len(node.kids) = Order,
           NEW page \in Nat, NEW halves, halves = SplitLeaf(node, page)
    PROVE  \E h \in 1 .. Order - 1 :
             LeafCut(node, page, halves, h)
<1>1. PICK h \in 1 .. Order - 1 : h = Order \div 2
  BY OrderAssumption
<1>2. /\ Order \in Nat /\ Order >= 3 /\ h \in Nat /\ h >= 1 /\ h < Order
      /\ node.keys \in Seq(Seq(Int)) /\ node.kids \in Seq(Nat \cup Position) /\ node.next \in Nat
  BY OrderAssumption DEF NodeType
<1> DEFINE lk == SubSeq(node.keys, 1, h)
           lc == SubSeq(node.kids, 1, h)
           rk == SubSeq(node.keys, h + 1, Order)
           rc == SubSeq(node.kids, h + 1, Order)
<1>3. /\ halves.key = node.keys[h + 1]
      /\ halves.left = Node(TRUE, lk, lc, page)
      /\ halves.right = Node(TRUE, rk, rc, node.next)
  BY <1>1 DEF SplitLeaf
<1>4. lk \in Seq(Seq(Int)) /\ Len(lk) = h
  BY <1>2, Slice
<1>5. lc \in Seq(Nat \cup Position) /\ Len(lc) = h /\ \A i \in 1 .. h : lc[i] = node.kids[i] /\ i \in 1 .. Order
  BY <1>2, Slice
<1>6. h + 1 \in Nat /\ Order - (h + 1) + 1 = Order - h /\ 1 <= h + 1 /\ h + 1 <= Order + 1
  BY <1>2
<1>7. rk \in Seq(Seq(Int)) /\ Len(rk) = Order - h
  BY <1>2, <1>6, Slice
<1>8. rc \in Seq(Nat \cup Position) /\ Len(rc) = Order - h
      /\ \A i \in 1 .. Order - h : rc[i] = node.kids[h + 1 + i - 1] /\ h + 1 + i - 1 \in 1 .. Order
  BY <1>2, <1>6, Slice
<1>9. \A i \in 1 .. Order - h : h + 1 + i - 1 = h + i
  BY <1>2
<1>10. halves.key \in Seq(Int)
  BY <1>2, <1>3
<1> HIDE DEF lk, lc, rk, rc
<1>11. /\ halves.left \in NodeType /\ halves.left.leaf /\ halves.left.next = page
       /\ halves.left.keys = lk /\ halves.left.kids = lc
  BY <1>2, <1>3, <1>4, <1>5 DEF Node, NodeType
<1>12. /\ halves.right \in NodeType /\ halves.right.leaf /\ halves.right.next = node.next
       /\ halves.right.keys = rk /\ halves.right.kids = rc
  BY <1>2, <1>3, <1>7, <1>8 DEF Node, NodeType
<1>13. DOMAIN node.kids = 1 .. Order
  BY <1>2
<1>14. LeafCut(node, page, halves, h)
  BY <1>1, <1>2, <1>4, <1>5, <1>7, <1>8, <1>9, <1>10, <1>11, <1>12, <1>13 DEF LeafCut
<1> QED
  BY <1>14

\* The halves of a full internal node have its children between them.
LEMMA InnerHalves ==
    ASSUME NEW node \in NodeType, ~node.leaf, Len(node.keys) = Order, Len(node.kids) = Order + 1,
           NEW halves, halves = SplitInternal(node)
    PROVE  \E h \in 1 .. Order :
             InnerCut(node, halves, h)
<1>1. PICK h \in 1 .. Order : h = Order \div 2 + 1 /\ h < Order
  BY OrderAssumption
<1>2. /\ Order \in Nat /\ Order >= 3 /\ h \in Nat /\ h >= 1 /\ h < Order
      /\ node.keys \in Seq(Seq(Int)) /\ node.kids \in Seq(Nat \cup Position)
  BY <1>1, OrderAssumption DEF NodeType
<1> DEFINE lk == SubSeq(node.keys, 1, h - 1)
           lc == SubSeq(node.kids, 1, h)
           rk == SubSeq(node.keys, h + 1, Order)
           rc == SubSeq(node.kids, h + 1, Order + 1)
<1>3. /\ halves.key = node.keys[h]
      /\ halves.left = Node(FALSE, lk, lc, NoPage)
      /\ halves.right = Node(FALSE, rk, rc, NoPage)
  BY <1>1 DEF SplitInternal
<1>4. lk \in Seq(Seq(Int)) /\ Len(lk) = h - 1
  <2>1. PICK k \in Nat : k = h - 1
    BY <1>2
  <2>2. SubSeq(node.keys, 1, k) \in Seq(Seq(Int)) /\ Len(SubSeq(node.keys, 1, k)) = k - 1 + 1
    BY <1>2, <2>1, Slice
  <2> QED
    BY <2>1, <2>2
<1>5. lc \in Seq(Nat \cup Position) /\ Len(lc) = h /\ \A i \in 1 .. h : lc[i] = node.kids[i] /\ i \in 1 .. Order + 1
  BY <1>2, Slice
<1>6. /\ h + 1 \in Nat /\ Order - (h + 1) + 1 = Order - h /\ 1 <= h + 1 /\ h + 1 <= Order + 1
      /\ Order + 1 \in Nat /\ Order + 1 - (h + 1) + 1 = Order - h + 1 /\ h + 1 <= Order + 1 + 1
  BY <1>2
<1>7. rk \in Seq(Seq(Int)) /\ Len(rk) = Order - h
  BY <1>2, <1>6, Slice
<1>8. rc \in Seq(Nat \cup Position) /\ Len(rc) = Order - h + 1
      /\ \A i \in 1 .. Order - h + 1 : rc[i] = node.kids[h + 1 + i - 1] /\ h + 1 + i - 1 \in 1 .. Order + 1
  BY <1>2, <1>6, Slice
<1>9. \A i \in 1 .. Order - h + 1 : h + 1 + i - 1 = h + i
  BY <1>2
<1>10. halves.key \in Seq(Int)
  BY <1>2, <1>3
<1> HIDE DEF lk, lc, rk, rc
<1>11. /\ halves.left \in NodeType /\ ~halves.left.leaf /\ halves.left.next = NoPage
       /\ halves.left.keys = lk /\ halves.left.kids = lc
  BY <1>2, <1>3, <1>4, <1>5 DEF Node, NodeType, NoPage
<1>12. /\ halves.right \in NodeType /\ ~halves.right.leaf /\ halves.right.next = NoPage
       /\ halves.right.keys = rk /\ halves.right.kids = rc
  BY <1>2, <1>3, <1>7, <1>8 DEF Node, NodeType, NoPage
<1>13. DOMAIN node.kids = 1 .. Order + 1
  BY <1>2
<1>14. InnerCut(node, halves, h)
  BY <1>1, <1>2, <1>4, <1>5, <1>7, <1>8, <1>9, <1>10, <1>11, <1>12, <1>13 DEF InnerCut
<1> QED
  BY <1>14

\* Two nodes for one: the first in its place, the second at the end.
LEMMA TwoForOne ==
    ASSUME NEW S, NEW nodes \in Seq(S), NEW p \in DOMAIN nodes, NEW l \in S, NEW r \in S,
           NEW new, new = Append([nodes EXCEPT ![p] = l], r)
    PROVE  /\ new \in Seq(S) /\ Len(new) = Len(nodes) + 1 /\ DOMAIN new = 1 .. Len(nodes) + 1
           /\ Len(nodes) + 1 \notin DOMAIN nodes /\ DOMAIN nodes = 1 .. Len(nodes)
           /\ \A q \in 1 .. Len(nodes) + 1 :
                new[q] = IF q = p THEN l ELSE IF q = Len(nodes) + 1 THEN r ELSE nodes[q]
<1> DEFINE mid == [nodes EXCEPT ![p] = l]
<1>1. mid \in Seq(S) /\ Len(mid) = Len(nodes) /\ \A q \in 1 .. Len(nodes) : mid[q] = IF q = p THEN l ELSE nodes[q]
  OBVIOUS
<1>2. Len(nodes) \in Nat /\ DOMAIN nodes = 1 .. Len(nodes)
  OBVIOUS
<1>3. new = Append(mid, r)
  OBVIOUS
<1> HIDE DEF mid
<1>4. new \in Seq(S) /\ Len(new) = Len(nodes) + 1
      /\ \A q \in 1 .. Len(nodes) + 1 : new[q] = IF q = Len(nodes) + 1 THEN r ELSE mid[q]
  BY <1>1, <1>2, <1>3
<1> QED
  BY <1>1, <1>2, <1>4

ShapedAs(nodes, n, depth) == \E m \in Nat : \E rank : Shaped(nodes, n, depth, m, rank)

(* The depths go on to hold, and the new right node, if p split, is as     *)
(* deep as p                                                               *)
Deepened(out, nodes, n, depth, p, depth2) ==
  /\ ShapedAs(out.nodes, n, depth2)
  /\ \A q \in DOMAIN nodes : depth2[q] = depth[q]
  /\ out.split => out.right \in DOMAIN out.nodes /\ depth2[out.right] = depth[p]

(* What an insertion below page p has done: it left every node of more     *)
(* depth alone                                                             *)
Outcome(out, nodes, n, depth, p, slots, once) ==
  /\ out.split \in BOOLEAN /\ out.ok \in BOOLEAN
  /\ out.split => out.key \in Seq(Int)
  /\ Len(nodes) <= Len(out.nodes)
  /\ once => RowsOnce(out.nodes, slots)
  /\ \A q \in DOMAIN nodes : depth[q] > depth[p] => out.nodes[q] = nodes[q]
  /\ \A q \in DOMAIN nodes : out.nodes[q].leaf = nodes[q].leaf
  /\ \E depth2 : Deepened(out, nodes, n, depth, p, depth2)

\* A leaf that splits hands half of its entries to a leaf after it.
LEMMA LeafSplits ==
    ASSUME NEW nodes, NEW n \in Nat, NEW depth, NEW m \in Nat, NEW rank, NEW slots, NEW once \in BOOLEAN,
           Shaped(nodes, n, depth, m, rank), once => RowsOnce(nodes, slots),
           NEW p \in DOMAIN nodes, nodes[p].leaf, Len(nodes[p].keys) = Order, NEW pages,
           NEW q, q = Len(nodes) + 1, NEW halves, halves = SplitLeaf(nodes[p], q),
           NEW out, out = Halved(nodes, p, halves, pages)
    PROVE  Outcome(out, nodes, n, depth, p, slots, once)
<1> DEFINE N == Len(nodes)
<1>1. nodes \in Seq(NodeType) /\ N \in Nat /\ q \in Nat /\ DOMAIN nodes = 1 .. N /\ nodes[p] \in NodeType
  BY DEF Shaped
<1>2. LeafAt(nodes, rank, p) /\ Len(nodes[p].kids) = Order
  BY DEF Shaped, LeafAt
<1>3. PICK h \in 1 .. Order - 1 : LeafCut(nodes[p], q, halves, h)
  BY <1>1, <1>2, LeafHalves
<1>3a. /\ halves.key \in Seq(Int)
       /\ halves.left \in NodeType /\ halves.left.leaf /\ halves.left.next = q
       /\ halves.right \in NodeType /\ halves.right.leaf /\ halves.right.next = nodes[p].next
       /\ Len(halves.left.keys) = h /\ Len(halves.left.kids) = h
       /\ Len(halves.right.keys) = Order - h /\ Len(halves.right.kids) = Order - h
       /\ \A i \in 1 .. h : i \in DOMAIN nodes[p].kids /\ halves.left.kids[i] = nodes[p].kids[i]
       /\ \A i \in 1 .. Order - h :
            h + i \in DOMAIN nodes[p].kids /\ halves.right.kids[i] = nodes[p].kids[h + i]
  BY <1>3 DEF LeafCut
<1>4. PICK new : new = Append([nodes EXCEPT ![p] = halves.left], halves.right)
  OBVIOUS
<1>5. /\ out.nodes = new /\ out.split = TRUE /\ out.ok = TRUE /\ out.right = q /\ out.key = halves.key
  BY <1>4 DEF Halved
<1>6. /\ new \in Seq(NodeType) /\ Len(new) = q /\ DOMAIN new = 1 .. q /\ q \notin DOMAIN nodes
      /\ \A x \in 1 .. q : new[x] = IF x = p THEN halves.left ELSE IF x = q THEN halves.right ELSE nodes[x]
  BY <1>1, <1>3a, <1>4, TwoForOne
<1>7. /\ p # q /\ q # NoPage /\ p \in DOMAIN new /\ q \in DOMAIN new
      /\ \A x \in DOMAIN nodes : x \in DOMAIN new /\ x # q
      /\ \A x \in DOMAIN new : x = p \/ x = q \/ (x \in DOMAIN nodes /\ x # p)
      /\ new[p] = halves.left /\ new[q] = halves.right /\ \A x \in DOMAIN nodes : x # p => new[x] = nodes[x]
  <2>1. q # NoPage /\ \A x \in 1 .. N : x \in 1 .. q
    BY <1>1 DEF NoPage
  <2>2. \A x \in 1 .. q : x = q \/ x \in 1 .. N
    BY <1>1
  <2>3. q \in 1 .. q
    BY <1>1
  <2> HIDE DEF N
  <2>4. p # q /\ p \in DOMAIN new /\ q \in DOMAIN new
    BY <1>1, <1>6, <2>1, <2>3
  <2>5. \A x \in DOMAIN nodes : x \in DOMAIN new /\ x # q
    BY <1>1, <1>6, <2>1
  <2> QED
    BY <1>1, <1>6, <2>1, <2>2, <2>4, <2>5
<1>8. PICK depth2 : depth2 = [x \in DOMAIN new |-> IF x = q THEN depth[p] ELSE depth[x]]
  OBVIOUS
<1>9. PICK rank2 : rank2 = [x \in DOMAIN new |-> IF x = q THEN 2 * rank[p] ELSE 2 * rank[x] + 1]
  OBVIOUS
<1>10. depth2[q] = depth[p] /\ \A x \in DOMAIN nodes : depth2[x] = depth[x]
  BY <1>7, <1>8
<1>11. rank2[q] = 2 * rank[p] /\ \A x \in DOMAIN nodes : rank2[x] = 2 * rank[x] + 1
  BY <1>7, <1>9
<1>12. \A x \in DOMAIN nodes : rank[x] \in 0 .. m /\ depth[x] \in 0 .. n
  BY DEF Shaped
<1>13. depth2 \in [DOMAIN new -> 0 .. n]
  BY <1>7, <1>8, <1>12
<1>14. PICK m2 \in Nat : m2 = 2 * m + 1
  OBVIOUS
<1>15. rank2 \in [DOMAIN new -> 0 .. m2]
  <2>1. \A k \in 0 .. m : 2 * k \in 0 .. m2 /\ 2 * k + 1 \in 0 .. m2
    BY <1>14
  <2> QED
    BY <1>7, <1>9, <1>12, <2>1
<1>16. \A a, b \in 0 .. m : /\ 2 * a < 2 * a + 1
                            /\ a < b => 2 * a + 1 < 2 * b /\ 2 * a + 1 < 2 * b + 1
  OBVIOUS
<1>17. \A y \in DOMAIN nodes : nodes[y].leaf => y \in DOMAIN new /\ new[y].leaf
  BY <1>3a, <1>7
<1>18. ASSUME NEW x \in DOMAIN nodes, nodes[x].leaf, nodes[x].next # NoPage
       PROVE  /\ nodes[x].next \in DOMAIN new /\ new[nodes[x].next].leaf
              /\ rank2[nodes[x].next] < 2 * rank[x]
              /\ rank2[nodes[x].next] < rank2[x]
  <2>1. PICK y \in DOMAIN nodes : y = nodes[x].next /\ nodes[y].leaf /\ rank[y] < rank[x]
    BY <1>18 DEF Shaped, LeafAt
  <2>2. 2 * rank[y] + 1 < 2 * rank[x] /\ 2 * rank[y] + 1 < 2 * rank[x] + 1
    BY <1>12, <1>16, <2>1
  <2> QED
    BY <1>11, <1>17, <2>1, <2>2
<1>19. /\ DOMAIN new[p].kids = 1 .. h /\ DOMAIN new[q].kids = 1 .. Order - h
       /\ h \in Nat /\ Order \in Nat
       /\ \A x \in DOMAIN new : \A i \in DOMAIN new[x].kids : i \in Nat /\ i >= 1
  <2>1. \A x \in DOMAIN new : new[x].kids \in Seq(Nat \cup Position)
    <3>1. \A x \in DOMAIN new : new[x] \in NodeType
      BY <1>6
    <3> QED
      BY <3>1 DEF NodeType
  <2>2. h \in Nat /\ Order \in Nat
    BY OrderAssumption
  <2>3. Len(new[p].kids) = h /\ Len(new[q].kids) = Order - h
    BY <1>3a, <1>7
  <2>4. \A s \in Seq(Nat \cup Position) : DOMAIN s = 1 .. Len(s) /\ \A i \in DOMAIN s : i \in Nat /\ i >= 1
    OBVIOUS
  <2> QED
    BY <1>7, <2>1, <2>2, <2>3, <2>4
<1>20. \A i \in DOMAIN nodes[p].kids : nodes[p].kids[i] \in Position
  BY <1>2 DEF LeafAt
<1>21. LeafAt(new, rank2, p)
  <2>1. rank2[q] < rank2[p]
    BY <1>11, <1>12, <1>16
  <2>2. ASSUME NEW i \in DOMAIN new[p].kids PROVE new[p].kids[i] \in Position
    <3>1. i \in DOMAIN nodes[p].kids /\ new[p].kids[i] = nodes[p].kids[i]
      BY <1>3a, <1>7, <1>19
    <3> QED
      BY <1>20, <3>1
  <2>3. new[p].next = q /\ new[q].leaf /\ Len(new[p].kids) = Len(new[p].keys)
    BY <1>3a, <1>7
  <2> QED
    BY <1>7, <2>1, <2>2, <2>3 DEF LeafAt
<1>22. LeafAt(new, rank2, q)
  <2>1. nodes[p].next # NoPage =>
          /\ nodes[p].next \in DOMAIN new /\ new[nodes[p].next].leaf
          /\ rank2[nodes[p].next] < rank2[q]
    BY <1>11, <1>18
  <2>2. ASSUME NEW i \in DOMAIN new[q].kids PROVE new[q].kids[i] \in Position
    <3>1. h + i \in DOMAIN nodes[p].kids /\ new[q].kids[i] = nodes[p].kids[h + i]
      BY <1>3a, <1>7, <1>19
    <3> QED
      BY <1>20, <3>1
  <2>3. new[q].next = nodes[p].next /\ Len(new[q].kids) = Len(new[q].keys)
    BY <1>3a, <1>7
  <2> QED
    BY <2>1, <2>2, <2>3 DEF LeafAt
<1>23. ASSUME NEW x \in DOMAIN new, new[x].leaf, x # p, x # q PROVE LeafAt(new, rank2, x)
  <2>1. x \in DOMAIN nodes /\ new[x] = nodes[x] /\ nodes[x].leaf
    BY <1>7, <1>23
  <2>2. LeafAt(nodes, rank, x)
    BY <2>1 DEF Shaped
  <2>3. nodes[x].next # NoPage =>
          /\ nodes[x].next \in DOMAIN new /\ new[nodes[x].next].leaf
          /\ rank2[nodes[x].next] < rank2[x]
    BY <1>18, <2>1
  <2> QED
    BY <2>1, <2>2, <2>3 DEF LeafAt
<1>24. ASSUME NEW x \in DOMAIN new, ~new[x].leaf PROVE InnerAt(new, depth2, x)
  <2>1. x \in DOMAIN nodes /\ x # p /\ new[x] = nodes[x]
    BY <1>3a, <1>7, <1>24
  <2>2. InnerAt(nodes, depth, x)
    BY <1>24, <2>1 DEF Shaped
  <2>3. \A i \in DOMAIN nodes[x].kids : /\ nodes[x].kids[i] \in DOMAIN new
                                        /\ depth2[nodes[x].kids[i]] < depth2[x]
    BY <1>7, <1>10, <2>1, <2>2 DEF InnerAt
  <2> QED
    BY <2>1, <2>2, <2>3 DEF InnerAt
<1>25. Shaped(new, n, depth2, m2, rank2)
  BY <1>6, <1>13, <1>15, <1>21, <1>22, <1>23, <1>24 DEF Shaped
<1>26. PICK Old : Old = [x \in DOMAIN new |-> IF x = q THEN p ELSE x]
  OBVIOUS
<1>27. PICK shift : shift = [x \in DOMAIN new |-> IF x = q THEN h ELSE 0]
  OBVIOUS
<1>28. ASSUME NEW x \in DOMAIN new, new[x].leaf, NEW i \in DOMAIN new[x].kids
       PROVE  /\ Old[x] \in DOMAIN nodes /\ nodes[Old[x]].leaf
              /\ shift[x] + i \in DOMAIN nodes[Old[x]].kids
              /\ new[x].kids[i] = nodes[Old[x]].kids[shift[x] + i]
              /\ x = p => i <= h
  <2>1. i \in Nat /\ 0 + i = i
    BY <1>19
  <2>2. CASE x = q
    <3>1. Old[x] = p /\ shift[x] = h /\ x # p /\ new[x] = halves.right
      BY <1>7, <1>26, <1>27, <2>2
    <3>2. i \in 1 .. Order - h
      BY <1>19, <1>28, <2>2
    <3>3. h + i \in DOMAIN nodes[p].kids /\ halves.right.kids[i] = nodes[p].kids[h + i]
      BY <1>3a, <3>2
    <3> QED
      BY <3>1, <3>3
  <2>3. CASE x = p
    <3>1. Old[x] = p /\ shift[x] = 0 /\ new[x] = halves.left
      BY <1>7, <1>26, <1>27, <2>3
    <3>2. i \in 1 .. h /\ i <= h
      BY <1>19, <1>28, <2>3
    <3>3. i \in DOMAIN nodes[p].kids /\ halves.left.kids[i] = nodes[p].kids[i]
      BY <1>3a, <3>2
    <3> QED
      BY <2>1, <3>1, <3>2, <3>3
  <2>4. CASE x # q /\ x # p
    BY <1>7, <1>26, <1>27, <1>28, <2>1, <2>4
  <2> QED
    BY <2>2, <2>3, <2>4
<1>29. ASSUME once PROVE RowsOnce(new, slots)
  <2>0. RowsOnce(nodes, slots)
    BY <1>29
  <2>1. ASSUME NEW x \in DOMAIN new, new[x].leaf, NEW i \in DOMAIN new[x].kids,
               NEW y \in DOMAIN new, new[y].leaf, NEW j \in DOMAIN new[y].kids,
               new[x].kids[i] = new[y].kids[j]
        PROVE  x = y /\ i = j
    <3>1. Old[x] = Old[y] /\ shift[x] + i = shift[y] + j
      BY <1>28, <2>0, <2>1 DEF RowsOnce
    <3>2. i \in Nat /\ j \in Nat /\ i >= 1 /\ j >= 1 /\ h \in Nat /\ shift[x] \in {0, h} /\ shift[y] \in {0, h}
      BY <1>19, <1>27
    <3>3. x = y
      <4>1. ASSUME x # y PROVE (x = p /\ y = q) \/ (x = q /\ y = p)
        BY <1>26, <3>1, <4>1
      <4>2. x = p /\ y = q => i <= h /\ shift[x] = 0 /\ shift[y] = h
        BY <1>7, <1>27, <1>28, <2>1
      <4>3. y = p /\ x = q => j <= h /\ shift[y] = 0 /\ shift[x] = h
        BY <1>7, <1>27, <1>28, <2>1
      <4>4. ASSUME x = p, y = q PROVE FALSE
        BY <3>1, <3>2, <4>2, <4>4
      <4>5. ASSUME y = p, x = q PROVE FALSE
        BY <3>1, <3>2, <4>3, <4>5
      <4> QED
        BY <4>1, <4>4, <4>5
    <3> QED
      BY <3>1, <3>2, <3>3
  <2>2. ASSUME NEW x \in DOMAIN new, new[x].leaf, NEW i \in DOMAIN new[x].kids
        PROVE  new[x].kids[i] \in slots
    BY <1>28, <2>0, <2>2 DEF RowsOnce
  <2> QED
    BY <2>1, <2>2 DEF RowsOnce
<1>30. \A x \in DOMAIN nodes : depth[x] > depth[p] => new[x] = nodes[x]
  <2>1. ~(depth[p] > depth[p])
    BY <1>12
  <2> QED
    BY <1>7, <2>1
<1>31. \A x \in DOMAIN nodes : new[x].leaf = nodes[x].leaf
  <2>1. halves.left.leaf = TRUE /\ nodes[p].leaf = TRUE
    BY <1>1, <1>3a DEF NodeType
  <2> QED
    BY <1>7, <2>1
<1>32. Deepened(out, nodes, n, depth, p, depth2)
  <2>1. ShapedAs(new, n, depth2)
    BY <1>25 DEF ShapedAs
  <2> QED
    BY <1>5, <1>7, <1>10, <2>1 DEF Deepened
<1>34. Len(nodes) <= Len(out.nodes)
  BY <1>1, <1>5, <1>6
<1> QED
  BY <1>3a, <1>5, <1>29, <1>30, <1>31, <1>32, <1>34 DEF Outcome

\* An internal node that splits hands half of its children to a new one.
LEMMA InnerSplits ==
    ASSUME NEW nodes, NEW n \in Nat, NEW depth, NEW m \in Nat, NEW rank, NEW slots, NEW once \in BOOLEAN,
           Shaped(nodes, n, depth, m, rank), once => RowsOnce(nodes, slots),
           NEW p \in DOMAIN nodes, ~nodes[p].leaf, Len(nodes[p].keys) = Order, NEW pages,
           NEW q, q = Len(nodes) + 1, NEW halves, halves = SplitInternal(nodes[p]),
           NEW out, out = Halved(nodes, p, halves, pages)
    PROVE  Outcome(out, nodes, n, depth, p, slots, once)
<1> DEFINE N == Len(nodes)
<1>1. nodes \in Seq(NodeType) /\ N \in Nat /\ q \in Nat /\ DOMAIN nodes = 1 .. N /\ nodes[p] \in NodeType
  BY DEF Shaped
<1>2. InnerAt(nodes, depth, p) /\ Len(nodes[p].kids) = Order + 1
  BY DEF Shaped, InnerAt
<1>3. PICK h \in 1 .. Order : InnerCut(nodes[p], halves, h)
  BY <1>1, <1>2, InnerHalves
<1>3a. /\ halves.key \in Seq(Int)
       /\ halves.left \in NodeType /\ ~halves.left.leaf /\ halves.left.next = NoPage
       /\ halves.right \in NodeType /\ ~halves.right.leaf /\ halves.right.next = NoPage
       /\ Len(halves.left.keys) = h - 1 /\ Len(halves.left.kids) = h
       /\ Len(halves.right.keys) = Order - h /\ Len(halves.right.kids) = Order - h + 1
       /\ \A i \in 1 .. h : i \in DOMAIN nodes[p].kids /\ halves.left.kids[i] = nodes[p].kids[i]
       /\ \A i \in 1 .. Order - h + 1 :
            h + i \in DOMAIN nodes[p].kids /\ halves.right.kids[i] = nodes[p].kids[h + i]
  BY <1>3 DEF InnerCut
<1>4. PICK new : new = Append([nodes EXCEPT ![p] = halves.left], halves.right)
  OBVIOUS
<1>5. /\ out.nodes = new /\ out.split = TRUE /\ out.ok = TRUE /\ out.right = q /\ out.key = halves.key
  BY <1>4 DEF Halved
<1>6. /\ new \in Seq(NodeType) /\ Len(new) = q /\ DOMAIN new = 1 .. q /\ q \notin DOMAIN nodes
      /\ \A x \in 1 .. q : new[x] = IF x = p THEN halves.left ELSE IF x = q THEN halves.right ELSE nodes[x]
  BY <1>1, <1>3a, <1>4, TwoForOne
<1>7. /\ p # q /\ q # NoPage /\ p \in DOMAIN new /\ q \in DOMAIN new
      /\ \A x \in DOMAIN nodes : x \in DOMAIN new /\ x # q
      /\ \A x \in DOMAIN new : x = p \/ x = q \/ (x \in DOMAIN nodes /\ x # p)
      /\ new[p] = halves.left /\ new[q] = halves.right /\ \A x \in DOMAIN nodes : x # p => new[x] = nodes[x]
  <2>1. q # NoPage /\ \A x \in 1 .. N : x \in 1 .. q
    BY <1>1 DEF NoPage
  <2>2. \A x \in 1 .. q : x = q \/ x \in 1 .. N
    BY <1>1
  <2>3. q \in 1 .. q
    BY <1>1
  <2> HIDE DEF N
  <2>4. p # q /\ p \in DOMAIN new /\ q \in DOMAIN new
    BY <1>1, <1>6, <2>1, <2>3
  <2>5. \A x \in DOMAIN nodes : x \in DOMAIN new /\ x # q
    BY <1>1, <1>6, <2>1
  <2> QED
    BY <1>1, <1>6, <2>1, <2>2, <2>4, <2>5
<1>8. PICK depth2 : depth2 = [x \in DOMAIN new |-> IF x = q THEN depth[p] ELSE depth[x]]
  OBVIOUS
<1>9. PICK rank2 : rank2 = [x \in DOMAIN new |-> IF x = q THEN 0 ELSE rank[x]]
  OBVIOUS
<1>10. depth2[q] = depth[p] /\ \A x \in DOMAIN nodes : depth2[x] = depth[x]
  BY <1>7, <1>8
<1>11. \A x \in DOMAIN nodes : rank2[x] = rank[x]
  BY <1>7, <1>9
<1>12. \A x \in DOMAIN nodes : rank[x] \in 0 .. m /\ depth[x] \in 0 .. n
  BY DEF Shaped
<1>13. depth2 \in [DOMAIN new -> 0 .. n]
  BY <1>7, <1>8, <1>12
<1>14. rank2 \in [DOMAIN new -> 0 .. m]
  <2>1. 0 \in 0 .. m
    OBVIOUS
  <2> QED
    BY <1>7, <1>9, <1>12, <2>1
<1>15. /\ DOMAIN new[p].kids = 1 .. h /\ DOMAIN new[q].kids = 1 .. Order - h + 1
       /\ h \in Nat /\ Order \in Nat
  <2>1. \A x \in DOMAIN new : new[x].kids \in Seq(Nat \cup Position)
    <3>1. \A x \in DOMAIN new : new[x] \in NodeType
      BY <1>6
    <3> QED
      BY <3>1 DEF NodeType
  <2>2. h \in Nat /\ Order \in Nat
    BY OrderAssumption
  <2>3. Len(new[p].kids) = h /\ Len(new[q].kids) = Order - h + 1
    BY <1>3a, <1>7
  <2>4. \A s \in Seq(Nat \cup Position) : DOMAIN s = 1 .. Len(s)
    OBVIOUS
  <2> QED
    BY <1>7, <2>1, <2>2, <2>3, <2>4
<1>16. \A i \in DOMAIN nodes[p].kids : nodes[p].kids[i] \in DOMAIN new /\ depth2[nodes[p].kids[i]] < depth[p]
  BY <1>2, <1>7, <1>10 DEF InnerAt
<1>17. InnerAt(new, depth2, p)
  <2>1. ASSUME NEW i \in DOMAIN new[p].kids
        PROVE  new[p].kids[i] \in DOMAIN new /\ depth2[new[p].kids[i]] < depth2[p]
    <3>1. i \in DOMAIN nodes[p].kids /\ new[p].kids[i] = nodes[p].kids[i]
      BY <1>3a, <1>7, <1>15
    <3> QED
      BY <1>10, <1>16, <3>1
  <2>2. new[p].next = NoPage /\ Len(new[p].kids) = Len(new[p].keys) + 1
    <3>1. h - 1 + 1 = h
      BY <1>15
    <3> QED
      BY <1>3a, <1>7, <3>1
  <2> QED
    BY <2>1, <2>2 DEF InnerAt
<1>18. InnerAt(new, depth2, q)
  <2>1. ASSUME NEW i \in DOMAIN new[q].kids
        PROVE  new[q].kids[i] \in DOMAIN new /\ depth2[new[q].kids[i]] < depth2[q]
    <3>1. h + i \in DOMAIN nodes[p].kids /\ new[q].kids[i] = nodes[p].kids[h + i]
      BY <1>3a, <1>7, <1>15
    <3> QED
      BY <1>10, <1>16, <3>1
  <2>2. new[q].next = NoPage /\ Len(new[q].kids) = Len(new[q].keys) + 1
    BY <1>3a, <1>7
  <2> QED
    BY <2>1, <2>2 DEF InnerAt
<1>19. ASSUME NEW x \in DOMAIN new, x # p, x # q, ~new[x].leaf PROVE InnerAt(new, depth2, x)
  <2>1. x \in DOMAIN nodes /\ new[x] = nodes[x]
    BY <1>7, <1>19
  <2>2. InnerAt(nodes, depth, x)
    BY <1>19, <2>1 DEF Shaped
  <2>3. \A i \in DOMAIN nodes[x].kids : /\ nodes[x].kids[i] \in DOMAIN new
                                        /\ depth2[nodes[x].kids[i]] < depth2[x]
    BY <1>7, <1>10, <2>1, <2>2 DEF InnerAt
  <2> QED
    BY <2>1, <2>2, <2>3 DEF InnerAt
<1>20. \A x \in DOMAIN new : new[x].leaf => x \in DOMAIN nodes /\ x # p /\ x # q /\ new[x] = nodes[x]
  BY <1>3a, <1>7
<1>21. ASSUME NEW x \in DOMAIN new, new[x].leaf PROVE LeafAt(new, rank2, x)
  <2>1. x \in DOMAIN nodes /\ new[x] = nodes[x] /\ LeafAt(nodes, rank, x)
    BY <1>20, <1>21 DEF Shaped
  <2>2. ASSUME nodes[x].next # NoPage
        PROVE  nodes[x].next \in DOMAIN new /\ new[nodes[x].next].leaf /\ rank2[nodes[x].next] < rank2[x]
    <3>1. nodes[x].next \in DOMAIN nodes /\ nodes[nodes[x].next].leaf /\ rank[nodes[x].next] < rank[x]
      BY <2>1, <2>2 DEF LeafAt
    <3>2. nodes[x].next # p
      BY <3>1
    <3> QED
      BY <1>7, <1>11, <2>1, <3>1, <3>2
  <2> QED
    BY <2>1, <2>2 DEF LeafAt
<1>22. Shaped(new, n, depth2, m, rank2)
  BY <1>6, <1>13, <1>14, <1>17, <1>18, <1>19, <1>21 DEF Shaped
<1>29. ASSUME once PROVE RowsOnce(new, slots)
  <2>0. RowsOnce(nodes, slots)
    BY <1>29
  <2>1. ASSUME NEW x \in DOMAIN new, new[x].leaf, NEW i \in DOMAIN new[x].kids
        PROVE  /\ new[x].kids[i] \in slots
               /\ \A y \in DOMAIN new : new[y].leaf => \A j \in DOMAIN new[y].kids :
                    new[x].kids[i] = new[y].kids[j] => x = y /\ i = j
    BY <1>20, <2>0, <2>1 DEF RowsOnce
  <2> QED
    BY <2>1 DEF RowsOnce
<1>30. \A x \in DOMAIN nodes : depth[x] > depth[p] => new[x] = nodes[x]
  <2>1. ~(depth[p] > depth[p])
    BY <1>12
  <2> QED
    BY <1>7, <2>1
<1>31. \A x \in DOMAIN nodes : new[x].leaf = nodes[x].leaf
  <2>1. halves.left.leaf = FALSE /\ nodes[p].leaf = FALSE
    BY <1>1, <1>3a DEF NodeType
  <2> QED
    BY <1>7, <2>1
<1>32. Deepened(out, nodes, n, depth, p, depth2)
  <2>1. ShapedAs(new, n, depth2)
    BY <1>22 DEF ShapedAs
  <2> QED
    BY <1>5, <1>7, <1>10, <2>1 DEF Deepened
<1>34. Len(nodes) <= Len(out.nodes)
  BY <1>1, <1>5, <1>6
<1> QED
  BY <1>3a, <1>5, <1>29, <1>30, <1>31, <1>32, <1>34 DEF Outcome

\* A node that has just taken an entry splits when that filled it.
LEMMA SplitIfFullKeeps ==
    ASSUME NEW nodes, NEW n \in Nat, NEW depth, NEW slots, NEW once \in BOOLEAN,
           ShapedAs(nodes, n, depth), once => RowsOnce(nodes, slots),
           NEW p \in DOMAIN nodes, NEW pages
    PROVE  Outcome(SplitIfFull(nodes, p, pages), nodes, n, depth, p, slots, once)
<1>1a. PICK m \in Nat : \E rank : Shaped(nodes, n, depth, m, rank)
  BY DEF ShapedAs
<1>1. PICK rank : Shaped(nodes, n, depth, m, rank)
  BY <1>1a
<1>2. CASE Len(nodes[p].keys) # Order \/ pages = 0
  <2>1. PICK out : out = SplitIfFull(nodes, p, pages)
    OBVIOUS
  <2>2. out.nodes = nodes /\ out.split = FALSE /\ out.ok \in BOOLEAN
    BY <1>2, <2>1 DEF SplitIfFull, Whole
  <2>3. Deepened(out, nodes, n, depth, p, depth)
    BY <2>2 DEF Deepened
  <2>4. Len(nodes) <= Len(out.nodes)
    BY <1>1, <2>2 DEF Shaped
  <2>5. Outcome(out, nodes, n, depth, p, slots, once)
    BY <2>2, <2>3, <2>4 DEF Outcome
  <2> QED
    BY <2>1, <2>5
<1>3. CASE Len(nodes[p].keys) = Order /\ pages # 0 /\ nodes[p].leaf
  <2>1. PICK q : q = Len(nodes) + 1
    OBVIOUS
  <2>2. PICK halves : halves = SplitLeaf(nodes[p], q)
    OBVIOUS
  <2>3. PICK out : out = Halved(nodes, p, halves, pages)
    OBVIOUS
  <2>4. Outcome(out, nodes, n, depth, p, slots, once)
    BY <1>1, <1>3, <2>1, <2>2, <2>3, LeafSplits
  <2>5. SplitIfFull(nodes, p, pages) = out
    BY <1>3, <2>1, <2>2, <2>3 DEF SplitIfFull
  <2> QED
    BY <2>4, <2>5
<1>4. CASE Len(nodes[p].keys) = Order /\ pages # 0 /\ ~nodes[p].leaf
  <2>1. PICK q : q = Len(nodes) + 1
    OBVIOUS
  <2>2. PICK halves : halves = SplitInternal(nodes[p])
    OBVIOUS
  <2>3. PICK out : out = Halved(nodes, p, halves, pages)
    OBVIOUS
  <2>4. Outcome(out, nodes, n, depth, p, slots, once)
    BY <1>1, <1>4, <2>1, <2>2, <2>3, InnerSplits
  <2>5. SplitIfFull(nodes, p, pages) = out
    BY <1>4, <2>2, <2>3 DEF SplitIfFull
  <2> QED
    BY <2>4, <2>5
<1> QED
  BY <1>2, <1>3, <1>4

(* What a page that takes an entry or a child keeps *)
Grown(new, nodes, n, depth, slots, once, p) ==
  /\ ShapedAs(new, n, depth) /\ (once => RowsOnce(new, slots))
  /\ DOMAIN new = DOMAIN nodes /\ Len(new) = Len(nodes)
  /\ new[p].leaf = nodes[p].leaf /\ \A q \in DOMAIN nodes : q # p => new[q] = nodes[q]

LeafMayTake(nodes, n, depth, slots, once, p, at, key, row) ==
  /\ n \in Nat /\ once \in BOOLEAN
  /\ ShapedAs(nodes, n, depth) /\ (once => RowsOnce(nodes, slots))
  /\ p \in DOMAIN nodes /\ nodes[p].leaf /\ at \in 1 .. Len(nodes[p].keys) + 1
  /\ key \in Seq(Int) /\ row \in Position /\ (once => row \notin slots)

InnerMayTake(nodes, n, depth, slots, once, p, at, key, child) ==
  /\ n \in Nat /\ once \in BOOLEAN
  /\ ShapedAs(nodes, n, depth) /\ (once => RowsOnce(nodes, slots))
  /\ p \in DOMAIN nodes /\ ~nodes[p].leaf /\ at \in 1 .. Len(nodes[p].keys) + 1
  /\ key \in Seq(Int) /\ child \in DOMAIN nodes /\ depth[child] < depth[p]

(* mid is nodes with changes below page p only *)
ChangedBelow(mid, depth2, nodes, depth, p) ==
  /\ DOMAIN nodes \subseteq DOMAIN mid /\ Len(nodes) \in Int /\ Len(mid) \in Int
  /\ p \in DOMAIN nodes /\ Len(nodes) <= Len(mid) /\ \A q \in DOMAIN nodes : depth2[q] = depth[q]
  /\ \A q \in DOMAIN nodes : depth[q] > depth[p] => mid[q] = nodes[q]
  /\ \A q \in DOMAIN nodes : mid[q].leaf = nodes[q].leaf

\* A leaf takes an entry.
LEMMA LeafTakes ==
    ASSUME NEW nodes, NEW n, NEW depth, NEW slots, NEW once, NEW p, NEW at, NEW key, NEW row,
           LeafMayTake(nodes, n, depth, slots, once, p, at, key, row),
           NEW all, all = slots \cup {row},
           NEW new, new = InsertIntoLeaf(nodes, p, at, key, row)
    PROVE  Grown(new, nodes, n, depth, all, once, p)
<1>0. /\ n \in Nat /\ once \in BOOLEAN
      /\ ShapedAs(nodes, n, depth) /\ (once => RowsOnce(nodes, slots))
      /\ p \in DOMAIN nodes /\ nodes[p].leaf /\ at \in 1 .. Len(nodes[p].keys) + 1
      /\ key \in Seq(Int) /\ row \in Position /\ (once => row \notin slots)
  BY DEF LeafMayTake
<1> USE <1>0
<1>1a. PICK m \in Nat : \E rank : Shaped(nodes, n, depth, m, rank)
  BY DEF ShapedAs
<1>1. PICK rank : Shaped(nodes, n, depth, m, rank)
  BY <1>1a
<1>2. /\ nodes \in Seq(NodeType) /\ nodes[p] \in NodeType /\ LeafAt(nodes, rank, p)
  BY <1>1 DEF Shaped
<1>3. /\ nodes[p].keys \in Seq(Seq(Int)) /\ nodes[p].kids \in Seq(Nat \cup Position)
      /\ Len(nodes[p].kids) = Len(nodes[p].keys) /\ Len(nodes[p].keys) \in Nat
  BY <1>2 DEF LeafAt, NodeType
<1>4. PICK keys : keys = InsertAt(nodes[p].keys, at, key)
  OBVIOUS
<1>5. PICK kids : kids = InsertAt(nodes[p].kids, at, row)
  OBVIOUS
<1>6. keys \in Seq(Seq(Int)) /\ Len(keys) = Len(nodes[p].keys) + 1
  <2>1. PICK s \in Seq(Seq(Int)) : s = nodes[p].keys
    BY <1>3
  <2>2. at \in 1 .. Len(s) + 1 /\ keys = InsertAt(s, at, key)
    BY <1>4, <2>1
  <2>3. keys \in Seq(Seq(Int)) /\ TookAt(s, at, key, keys)
    BY <2>2, InsertedAt
  <2> QED
    BY <2>1, <2>3 DEF TookAt
<1>7. /\ kids \in Seq(Nat \cup Position) /\ Len(kids) = Len(nodes[p].kids) + 1
      /\ \A i \in 1 .. Len(nodes[p].kids) + 1 :
           kids[i] = IF i < at THEN nodes[p].kids[i] ELSE IF i = at THEN row ELSE nodes[p].kids[i - 1]
  <2>1. PICK T : T = Nat \cup Position
    OBVIOUS
  <2>2. PICK s \in Seq(T) : s = nodes[p].kids
    BY <1>3, <2>1
  <2>3. at \in 1 .. Len(s) + 1 /\ kids = InsertAt(s, at, row) /\ row \in T
    BY <1>3, <1>5, <2>1, <2>2
  <2>4. kids \in Seq(T) /\ TookAt(s, at, row, kids)
    BY <2>3, InsertedAt
  <2> QED
    BY <2>1, <2>2, <2>4 DEF TookAt
<1>8. PICK node : node = [nodes[p] EXCEPT !.keys = keys, !.kids = kids]
  OBVIOUS
<1>9. /\ node \in NodeType /\ node.keys = keys /\ node.kids = kids
      /\ node.leaf = nodes[p].leaf /\ node.next = nodes[p].next
  BY <1>2, <1>6, <1>7, <1>8 DEF NodeType
<1>10. new = [nodes EXCEPT ![p] = node]
  BY <1>2, <1>4, <1>5, <1>8 DEF InsertIntoLeaf, NodeType
<1>11. /\ new \in Seq(NodeType) /\ DOMAIN new = DOMAIN nodes /\ Len(new) = Len(nodes)
       /\ new[p] = node /\ \A q \in DOMAIN nodes : q # p => new[q] = nodes[q]
  BY <1>2, <1>9, <1>10
<1>12. /\ DOMAIN kids = 1 .. Len(nodes[p].kids) + 1 /\ DOMAIN nodes[p].kids = 1 .. Len(nodes[p].kids)
       /\ at \in Nat /\ at >= 1 /\ at <= Len(nodes[p].kids) + 1 /\ Len(nodes[p].kids) \in Nat
  BY <1>3, <1>7
<1>13. PICK Old : Old = [i \in DOMAIN kids |-> IF i < at THEN i ELSE i - 1]
  OBVIOUS
<1>14. ASSUME NEW i \in DOMAIN kids, i # at
       PROVE  Old[i] \in DOMAIN nodes[p].kids /\ kids[i] = nodes[p].kids[Old[i]]
  <2>1. i \in Nat /\ i >= 1 /\ i <= Len(nodes[p].kids) + 1
    BY <1>12
  <2>2. CASE i < at
    <3>1. i \in DOMAIN nodes[p].kids /\ Old[i] = i
      BY <1>12, <1>13, <2>1, <2>2
    <3> QED
      BY <1>7, <1>12, <2>2, <3>1
  <2>3. CASE ~(i < at)
    <3>1. i - 1 \in DOMAIN nodes[p].kids /\ Old[i] = i - 1
      BY <1>12, <1>13, <1>14, <2>1, <2>3
    <3> QED
      BY <1>7, <1>12, <1>14, <2>3, <3>1
  <2> QED
    BY <2>2, <2>3
<1>15. kids[at] = row /\ at \in DOMAIN kids
  BY <1>7, <1>12
<1>16. \A i, j \in DOMAIN kids : i # at /\ j # at /\ Old[i] = Old[j] => i = j
  BY <1>12, <1>13
<1>17. LeafAt(new, rank, p)
  <2>1. \A i \in DOMAIN kids : kids[i] \in Position
    BY <1>2, <1>14, <1>15 DEF LeafAt
  <2>2. Len(kids) = Len(keys)
    BY <1>3, <1>6, <1>7
  <2>3. node.next # NoPage => node.next \in DOMAIN new /\ new[node.next].leaf /\ rank[node.next] < rank[p]
    BY <1>2, <1>9, <1>11 DEF LeafAt
  <2> QED
    BY <1>9, <1>11, <2>1, <2>2, <2>3 DEF LeafAt
<1>18. ASSUME NEW x \in DOMAIN new, new[x].leaf, x # p PROVE LeafAt(new, rank, x)
  <2>1. LeafAt(nodes, rank, x) /\ new[x] = nodes[x]
    BY <1>1, <1>11, <1>18 DEF Shaped
  <2>2. nodes[x].next # NoPage => new[nodes[x].next].leaf
    BY <1>9, <1>11, <2>1 DEF LeafAt
  <2> QED
    BY <1>11, <2>1, <2>2 DEF LeafAt
<1>19. ASSUME NEW x \in DOMAIN new, ~new[x].leaf PROVE InnerAt(new, depth, x)
  <2>1. x # p /\ new[x] = nodes[x]
    BY <1>9, <1>11, <1>19
  <2> QED
    BY <1>1, <1>11, <1>19, <2>1 DEF Shaped, InnerAt
<1>20. ShapedAs(new, n, depth)
  <2>1. Shaped(new, n, depth, m, rank)
    BY <1>1, <1>11, <1>17, <1>18, <1>19 DEF Shaped
  <2> QED
    BY <2>1 DEF ShapedAs
<1>21. PICK At : At = [x \in DOMAIN new |-> [i \in DOMAIN new[x].kids |-> IF x = p THEN Old[i] ELSE i]]
  OBVIOUS
<1>22. ASSUME NEW x \in DOMAIN new, new[x].leaf, NEW i \in DOMAIN new[x].kids, x # p \/ i # at
       PROVE  /\ x = p => i \in DOMAIN kids /\ i # at
              /\ nodes[x].leaf /\ At[x][i] \in DOMAIN nodes[x].kids
              /\ new[x].kids[i] = nodes[x].kids[At[x][i]]
              /\ once => new[x].kids[i] \in slots
  <2>1. CASE x = p
    <3>1. new[x].kids = kids /\ i \in DOMAIN kids /\ i # at /\ At[x][i] = Old[i]
      BY <1>9, <1>11, <1>21, <1>22, <2>1
    <3>2. Old[i] \in DOMAIN nodes[p].kids /\ kids[i] = nodes[p].kids[Old[i]]
      BY <1>14, <3>1
    <3> QED
      BY <2>1, <3>1, <3>2 DEF RowsOnce
  <2>2. CASE x # p
    <3>1. new[x] = nodes[x] /\ At[x][i] = i
      BY <1>11, <1>21, <2>2
    <3> QED
      BY <1>11, <1>22, <2>2, <3>1 DEF RowsOnce
  <2> QED
    BY <2>1, <2>2
<1>23. new[p].kids[at] = row
  BY <1>9, <1>11, <1>15
<1>24. ASSUME once PROVE RowsOnce(new, all)
  <2>0. RowsOnce(nodes, slots) /\ row \notin slots
    BY <1>24
  <2>1. ASSUME NEW x \in DOMAIN new, new[x].leaf, NEW i \in DOMAIN new[x].kids,
               NEW y \in DOMAIN new, new[y].leaf, NEW j \in DOMAIN new[y].kids,
               new[x].kids[i] = new[y].kids[j]
        PROVE  x = y /\ i = j
    <3>1. CASE new[x].kids[i] = row
      <4>1. ~(x # p \/ i # at)
        BY <1>22, <1>24, <2>0, <2>1, <3>1
      <4>2. new[y].kids[j] = row
        BY <2>1, <3>1
      <4>3. ~(y # p \/ j # at)
        BY <1>22, <1>24, <2>0, <2>1, <4>2
      <4> QED
        BY <4>1, <4>3
    <3>2. CASE new[x].kids[i] # row
      <4>1. (x # p \/ i # at) /\ (y # p \/ j # at)
        BY <1>23, <2>1, <3>2
      <4>2. /\ nodes[x].leaf /\ At[x][i] \in DOMAIN nodes[x].kids
            /\ new[x].kids[i] = nodes[x].kids[At[x][i]]
            /\ x = p => i \in DOMAIN kids /\ i # at
        BY <1>22, <2>1, <4>1
      <4>3. /\ nodes[y].leaf /\ At[y][j] \in DOMAIN nodes[y].kids
            /\ new[y].kids[j] = nodes[y].kids[At[y][j]]
            /\ y = p => j \in DOMAIN kids /\ j # at
        BY <1>22, <2>1, <4>1
      <4>4. x = y /\ At[x][i] = At[y][j]
        <5>1. nodes[x].kids[At[x][i]] = nodes[y].kids[At[y][j]]
          BY <2>1, <4>2, <4>3
        <5>2. x \in DOMAIN nodes /\ y \in DOMAIN nodes
          BY <1>11
        <5> QED
          BY <2>0, <4>2, <4>3, <5>1, <5>2 DEF RowsOnce
      <4> QED
        BY <1>16, <1>21, <2>1, <4>2, <4>3, <4>4
    <3> QED
      BY <3>1, <3>2
  <2>2. ASSUME NEW x \in DOMAIN new, new[x].leaf, NEW i \in DOMAIN new[x].kids
        PROVE  new[x].kids[i] \in all
    BY <1>22, <1>23, <1>24, <2>2
  <2> QED
    BY <2>1, <2>2 DEF RowsOnce
<1> QED
  BY <1>9, <1>11, <1>20, <1>24 DEF Grown

\* An internal node takes a child.
LEMMA InnerTakes ==
    ASSUME NEW nodes, NEW n, NEW depth, NEW slots, NEW once, NEW p, NEW at, NEW key, NEW child,
           InnerMayTake(nodes, n, depth, slots, once, p, at, key, child),
           NEW new, new = InsertChild(nodes, p, at, key, child)
    PROVE  Grown(new, nodes, n, depth, slots, once, p)
<1>0. /\ n \in Nat /\ once \in BOOLEAN
      /\ ShapedAs(nodes, n, depth) /\ (once => RowsOnce(nodes, slots))
      /\ p \in DOMAIN nodes /\ ~nodes[p].leaf /\ at \in 1 .. Len(nodes[p].keys) + 1
      /\ key \in Seq(Int) /\ child \in DOMAIN nodes /\ depth[child] < depth[p]
  BY DEF InnerMayTake
<1> USE <1>0
<1>1a. PICK m \in Nat : \E rank : Shaped(nodes, n, depth, m, rank)
  BY DEF ShapedAs
<1>1. PICK rank : Shaped(nodes, n, depth, m, rank)
  BY <1>1a
<1>2. /\ nodes \in Seq(NodeType) /\ nodes[p] \in NodeType /\ InnerAt(nodes, depth, p)
  BY <1>1 DEF Shaped
<1>3. /\ nodes[p].keys \in Seq(Seq(Int)) /\ nodes[p].kids \in Seq(Nat \cup Position)
      /\ Len(nodes[p].kids) = Len(nodes[p].keys) + 1 /\ Len(nodes[p].keys) \in Nat
  BY <1>2 DEF InnerAt, NodeType
<1>4. PICK keys : keys = InsertAt(nodes[p].keys, at, key)
  OBVIOUS
<1>5. PICK kids : kids = InsertAt(nodes[p].kids, at + 1, child)
  OBVIOUS
<1>6. keys \in Seq(Seq(Int)) /\ Len(keys) = Len(nodes[p].keys) + 1
  <2>1. PICK s \in Seq(Seq(Int)) : s = nodes[p].keys
    BY <1>3
  <2>2. at \in 1 .. Len(s) + 1 /\ keys = InsertAt(s, at, key)
    BY <1>4, <2>1
  <2>3. keys \in Seq(Seq(Int)) /\ TookAt(s, at, key, keys)
    BY <2>2, InsertedAt
  <2> QED
    BY <2>1, <2>3 DEF TookAt
<1>7. /\ kids \in Seq(Nat \cup Position) /\ Len(kids) = Len(nodes[p].kids) + 1
      /\ \A i \in 1 .. Len(nodes[p].kids) + 1 :
           kids[i] = IF i < at + 1 THEN nodes[p].kids[i] ELSE IF i = at + 1 THEN child ELSE nodes[p].kids[i - 1]
  <2>1. PICK T : T = Nat \cup Position
    OBVIOUS
  <2>2. PICK s \in Seq(T) : s = nodes[p].kids
    BY <1>3, <2>1
  <2>3. PICK k \in 1 .. Len(s) + 1 : k = at + 1
    BY <1>3, <2>2
  <2>4. kids = InsertAt(s, k, child) /\ child \in T
    BY <1>2, <1>5, <2>1, <2>2, <2>3
  <2>5. kids \in Seq(T) /\ TookAt(s, k, child, kids)
    BY <2>4, InsertedAt
  <2> QED
    BY <2>1, <2>2, <2>3, <2>5 DEF TookAt
<1>8. PICK node : node = [nodes[p] EXCEPT !.keys = keys, !.kids = kids]
  OBVIOUS
<1>9. /\ node \in NodeType /\ node.keys = keys /\ node.kids = kids
      /\ node.leaf = nodes[p].leaf /\ node.next = nodes[p].next
  BY <1>2, <1>6, <1>7, <1>8 DEF NodeType
<1>10. new = [nodes EXCEPT ![p] = node]
  BY <1>2, <1>4, <1>5, <1>8 DEF InsertChild, NodeType
<1>11. /\ new \in Seq(NodeType) /\ DOMAIN new = DOMAIN nodes /\ Len(new) = Len(nodes)
       /\ new[p] = node /\ \A q \in DOMAIN nodes : q # p => new[q] = nodes[q]
  BY <1>2, <1>9, <1>10, Placed
<1>12. /\ DOMAIN kids = 1 .. Len(nodes[p].kids) + 1 /\ DOMAIN nodes[p].kids = 1 .. Len(nodes[p].kids)
       /\ at \in Nat /\ at >= 1 /\ at <= Len(nodes[p].kids) /\ Len(nodes[p].kids) \in Nat
  BY <1>3, <1>7
<1>13. ASSUME NEW i \in DOMAIN kids
       PROVE  kids[i] \in DOMAIN nodes /\ depth[kids[i]] < depth[p]
  <2>1. i \in Nat /\ i >= 1 /\ i <= Len(nodes[p].kids) + 1
    BY <1>12
  <2>2. \A j \in DOMAIN nodes[p].kids : nodes[p].kids[j] \in DOMAIN nodes /\ depth[nodes[p].kids[j]] < depth[p]
    BY <1>2 DEF InnerAt
  <2>3. CASE i < at + 1
    <3>1. i \in DOMAIN nodes[p].kids /\ kids[i] = nodes[p].kids[i]
      BY <1>7, <1>12, <2>1, <2>3
    <3> QED
      BY <2>2, <3>1
  <2>4. CASE i > at + 1
    <3>1. i - 1 \in DOMAIN nodes[p].kids
      BY <1>12, <2>1, <2>4
    <3>2. kids[i] = nodes[p].kids[i - 1]
      BY <1>7, <1>12, <2>1, <2>4
    <3> QED
      BY <2>2, <3>1, <3>2
  <2>5. CASE i = at + 1
    <3>1. kids[i] = child
      BY <1>7, <1>12, <2>5
    <3> QED
      BY <3>1
  <2> QED
    BY <1>12, <2>1, <2>3, <2>4, <2>5
<1>14. InnerAt(new, depth, p)
  <2>1. Len(kids) = Len(keys) + 1
    BY <1>3, <1>6, <1>7
  <2> QED
    BY <1>2, <1>9, <1>11, <1>13, <2>1 DEF InnerAt
<1>15. ASSUME NEW x \in DOMAIN new, new[x].leaf PROVE LeafAt(new, rank, x)
  <2>1. x # p /\ new[x] = nodes[x] /\ LeafAt(nodes, rank, x)
    BY <1>1, <1>9, <1>11, <1>15 DEF Shaped
  <2>2. nodes[x].next # NoPage => new[nodes[x].next].leaf
    BY <1>11, <2>1 DEF LeafAt
  <2> QED
    BY <1>11, <2>1, <2>2 DEF LeafAt
<1>16. ASSUME NEW x \in DOMAIN new, ~new[x].leaf, x # p PROVE InnerAt(new, depth, x)
  <2>1. new[x] = nodes[x] /\ InnerAt(nodes, depth, x)
    BY <1>1, <1>11, <1>16 DEF Shaped
  <2> QED
    BY <1>11, <2>1 DEF InnerAt
<1>17. ShapedAs(new, n, depth)
  <2>1. Shaped(new, n, depth, m, rank)
    BY <1>1, <1>11, <1>14, <1>15, <1>16 DEF Shaped
  <2> QED
    BY <2>1 DEF ShapedAs
<1>18. ASSUME once PROVE RowsOnce(new, slots)
  <2>0. RowsOnce(nodes, slots)
    BY <1>18
  <2>1. \A x \in DOMAIN new : new[x].leaf => x \in DOMAIN nodes /\ new[x] = nodes[x]
    BY <1>9, <1>11
  <2> QED
    BY <2>0, <2>1 DEF RowsOnce
<1> QED
  BY <1>9, <1>11, <1>17, <1>18 DEF Grown

\* An outcome above nodes that have changed only below page p.
LEMMA OutcomeAfter ==
    ASSUME NEW nodes, NEW n, NEW depth, NEW p, NEW slots, NEW once \in BOOLEAN, NEW out,
           NEW mid, NEW depth2, ChangedBelow(mid, depth2, nodes, depth, p),
           Len(out.nodes) \in Int, Outcome(out, mid, n, depth2, p, slots, once)
    PROVE  Outcome(out, nodes, n, depth, p, slots, once)
<1>0. /\ DOMAIN nodes \subseteq DOMAIN mid /\ Len(nodes) \in Int /\ Len(mid) \in Int
      /\ p \in DOMAIN nodes /\ Len(nodes) <= Len(mid) /\ \A q \in DOMAIN nodes : depth2[q] = depth[q]
      /\ \A q \in DOMAIN nodes : depth[q] > depth[p] => mid[q] = nodes[q]
      /\ \A q \in DOMAIN nodes : mid[q].leaf = nodes[q].leaf
  BY DEF ChangedBelow
<1> USE <1>0
<1>1. PICK depth3 : Deepened(out, mid, n, depth2, p, depth3)
  BY DEF Outcome
<1>2. Deepened(out, nodes, n, depth, p, depth3)
  BY <1>1 DEF Deepened
<1>3. Len(nodes) <= Len(out.nodes)
  BY DEF Outcome
<1>4. \A q \in DOMAIN nodes : depth[q] > depth[p] => out.nodes[q] = nodes[q]
  BY DEF Outcome
<1>5. \A q \in DOMAIN nodes : out.nodes[q].leaf = nodes[q].leaf
  BY DEF Outcome
<1> QED
  BY <1>2, <1>3, <1>4, <1>5 DEF Outcome

-----------------------------------------------------------------------------
(* An insertion *)

LEMMA InsertIntoIs ==
    ASSUME NEW nodes, NEW n \in Nat, NEW depth, ShapedAs(nodes, n, depth),
           NEW root, NEW key, NEW row, NEW pages,
           NEW new, new = [nodes |-> nodes, key |-> key, row |-> row, pages |-> pages]
    PROVE  \E into : /\ \A p \in DOMAIN nodes : into[p] = IntoPage(new, into, p)
                     /\ root \in DOMAIN nodes => InsertInto(nodes, root, key, row, pages) = into[root]
<1>1a. PICK m \in Nat : \E rank : Shaped(nodes, n, depth, m, rank)
  BY DEF ShapedAs
<1>1. PICK rank : Shaped(nodes, n, depth, m, rank)
  BY <1>1a
<1>2. KeepFold!Descends(new, DOMAIN nodes, depth)
  <2>1. ASSUME NEW p \in DOMAIN nodes, NEW f, NEW g, \A q \in DOMAIN nodes : depth[q] < depth[p] => f[q] = g[q]
        PROVE  IntoPage(new, f, p) = IntoPage(new, g, p)
    <3>1. CASE nodes[p].leaf
      BY <3>1 DEF IntoPage
    <3>2. CASE ~nodes[p].leaf
      <4>1. PICK at : at = LowerBound(nodes[p].keys, key)
        OBVIOUS
      <4>2. at \in DOMAIN nodes[p].kids
        <5>1. nodes[p].keys \in Seq(Seq(Int)) /\ nodes[p].kids \in Seq(Nat \cup Position)
          <6>1. nodes[p] \in NodeType
            BY <1>1 DEF Shaped
          <6> QED
            BY <6>1 DEF NodeType
        <5>2. Len(nodes[p].kids) = Len(nodes[p].keys) + 1
          BY <1>1, <3>2 DEF Shaped, InnerAt
        <5>3. DOMAIN nodes[p].keys = 1 .. Len(nodes[p].keys) /\ Len(nodes[p].keys) \in Nat
          BY <5>1
        <5>4. at \in 1 .. Len(nodes[p].keys) + 1
          BY <4>1, <5>3, BoundIs
        <5> QED
          BY <5>1, <5>2, <5>4
      <4>3. nodes[p].kids[at] \in DOMAIN nodes /\ depth[nodes[p].kids[at]] < depth[p]
        BY <1>1, <3>2, <4>2 DEF Shaped, InnerAt
      <4>4. f[nodes[p].kids[at]] = g[nodes[p].kids[at]]
        BY <2>1, <4>3
      <4> QED
        BY <3>2, <4>1, <4>4 DEF IntoPage
    <3> QED
      BY <3>1, <3>2
  <2> QED
    BY <2>1 DEF KeepFold!Descends
<1>3. depth \in [DOMAIN nodes -> 0 .. n]
  BY <1>1 DEF Shaped
<1>4. \E f : KeepFold!Solves(f, new, DOMAIN nodes)
  BY <1>2, <1>3, KeepFold!Recursion
<1> DEFINE G == CHOOSE f : f = [p \in DOMAIN nodes |-> IntoPage(new, f, p)]
<1>5. G = [p \in DOMAIN nodes |-> IntoPage(new, G, p)]
  BY <1>4 DEF KeepFold!Solves
<1>6. InsertInto(nodes, root, key, row, pages) = G[root]
  BY DEF InsertInto
<1> HIDE DEF G
<1>7. \A p \in DOMAIN nodes : G[p] = IntoPage(new, G, p)
  BY <1>5
<1> QED
  BY <1>6, <1>7

\* The node an insertion goes on to is a child of less depth.
LEMMA ChildIs ==
    ASSUME NEW nodes, NEW n \in Nat, NEW depth, ShapedAs(nodes, n, depth),
           NEW p \in DOMAIN nodes, ~nodes[p].leaf, NEW key, NEW at, at = LowerBound(nodes[p].keys, key)
    PROVE  /\ at \in 1 .. Len(nodes[p].keys) + 1
           /\ nodes[p].kids[at] \in DOMAIN nodes /\ depth[nodes[p].kids[at]] < depth[p]
<1>1a. PICK m \in Nat : \E rank : Shaped(nodes, n, depth, m, rank)
  BY DEF ShapedAs
<1>1. PICK rank : Shaped(nodes, n, depth, m, rank)
  BY <1>1a
<1>2. nodes[p] \in NodeType
  BY <1>1 DEF Shaped
<1>3. nodes[p].keys \in Seq(Seq(Int)) /\ nodes[p].kids \in Seq(Nat \cup Position)
  BY <1>2 DEF NodeType
<1>4. InnerAt(nodes, depth, p)
  BY <1>1 DEF Shaped
<1>5. Len(nodes[p].kids) = Len(nodes[p].keys) + 1
  BY <1>4 DEF InnerAt
<1>6. DOMAIN nodes[p].keys = 1 .. Len(nodes[p].keys) /\ Len(nodes[p].keys) \in Nat
  BY <1>3
<1>7. at \in 1 .. Len(nodes[p].keys) + 1
  BY <1>6, BoundIs
<1>8. at \in DOMAIN nodes[p].kids
  BY <1>3, <1>5, <1>7
<1> QED
  BY <1>4, <1>7, <1>8 DEF InnerAt

LEMMA LeafBoundIs ==
    ASSUME NEW nodes, NEW n \in Nat, NEW depth, ShapedAs(nodes, n, depth),
           NEW p \in DOMAIN nodes, NEW key
    PROVE  LowerBound(nodes[p].keys, key) \in 1 .. Len(nodes[p].keys) + 1
<1>1. nodes[p] \in NodeType
  BY DEF ShapedAs, Shaped
<1>2. nodes[p].keys \in Seq(Seq(Int))
  BY <1>1 DEF NodeType
<1>3. DOMAIN nodes[p].keys = 1 .. Len(nodes[p].keys) /\ Len(nodes[p].keys) \in Nat
  BY <1>2
<1> QED
  BY <1>3, BoundIs

LEMMA ShapedType ==
    ASSUME NEW nodes, NEW n, NEW depth, ShapedAs(nodes, n, depth)
    PROVE  /\ nodes \in Seq(NodeType) /\ depth \in [DOMAIN nodes -> 0 .. n]
           /\ Len(nodes) \in Nat /\ DOMAIN nodes = 1 .. Len(nodes)
<1>1. nodes \in Seq(NodeType) /\ depth \in [DOMAIN nodes -> 0 .. n]
  BY DEF ShapedAs, Shaped
<1> QED
  BY <1>1

\* One step of an insertion, when what happens below has the outcome.
LEMMA IntoPageKeeps ==
    ASSUME NEW nodes, NEW n \in Nat, NEW depth, NEW slots, NEW once \in BOOLEAN,
           ShapedAs(nodes, n, depth), once => RowsOnce(nodes, slots),
           NEW key \in Seq(Int), NEW row \in Position, once => row \notin slots,
           NEW all, all = slots \cup {row},
           NEW new, new.nodes = nodes, new.key = key, new.row = row,
           NEW into, NEW p \in DOMAIN nodes,
           \A c \in DOMAIN nodes : depth[c] < depth[p] => Outcome(into[c], nodes, n, depth, c, all, once)
    PROVE  Outcome(IntoPage(new, into, p), nodes, n, depth, p, all, once)
<1>0. nodes \in Seq(NodeType) /\ depth \in [DOMAIN nodes -> 0 .. n] /\ Len(nodes) \in Nat /\ DOMAIN nodes = 1 .. Len(nodes)
  BY ShapedType
<1>1. PICK at : at = LowerBound(nodes[p].keys, key)
  OBVIOUS
<1>2. CASE nodes[p].leaf
  <2>1. PICK mid : mid = InsertIntoLeaf(nodes, p, at, key, row)
    OBVIOUS
  <2>2. at \in 1 .. Len(nodes[p].keys) + 1
    BY <1>1, LeafBoundIs
  <2>3. /\ ShapedAs(mid, n, depth) /\ (once => RowsOnce(mid, all))
        /\ DOMAIN mid = DOMAIN nodes /\ Len(mid) = Len(nodes)
        /\ mid[p].leaf = nodes[p].leaf /\ \A q \in DOMAIN nodes : q # p => mid[q] = nodes[q]
    <3>1. LeafMayTake(nodes, n, depth, slots, once, p, at, key, row)
      BY <1>2, <2>2 DEF LeafMayTake
    <3>2. Grown(mid, nodes, n, depth, all, once, p)
      BY <2>1, <3>1, LeafTakes
    <3> QED
      BY <3>2 DEF Grown
  <2>4. PICK out : out = SplitIfFull(mid, p, new.pages)
    OBVIOUS
  <2>5. Outcome(out, mid, n, depth, p, all, once)
    BY <2>3, <2>4, SplitIfFullKeeps
  <2>6. /\ \A q \in DOMAIN nodes : depth[q] > depth[p] => mid[q] = nodes[q]
        /\ \A q \in DOMAIN nodes : mid[q].leaf = nodes[q].leaf
    <3>1. ~(depth[p] > depth[p])
      BY <1>0
    <3> QED
      BY <2>3, <3>1
  <2>7. Len(out.nodes) \in Int
    <3>1. PICK depth3 : Deepened(out, mid, n, depth, p, depth3)
      BY <2>5 DEF Outcome
    <3>2. ShapedAs(out.nodes, n, depth3)
      BY <3>1 DEF Deepened
    <3> QED
      BY <3>2, ShapedType
  <2>8. Outcome(out, nodes, n, depth, p, all, once)
    <3>1. ChangedBelow(mid, depth, nodes, depth, p)
      BY <1>0, <2>3, <2>6 DEF ChangedBelow
    <3> QED
      BY <2>5, <2>7, <3>1, OutcomeAfter
  <2> QED
    BY <1>1, <1>2, <2>1, <2>4, <2>8 DEF IntoPage
<1>3. CASE ~nodes[p].leaf
  <2>1. PICK c : c = nodes[p].kids[at]
    OBVIOUS
  <2>2. at \in 1 .. Len(nodes[p].keys) + 1 /\ c \in DOMAIN nodes /\ depth[c] < depth[p]
    BY <1>1, <1>3, <2>1, ChildIs
  <2>3. PICK below : below = into[c]
    OBVIOUS
  <2>4. Outcome(below, nodes, n, depth, c, all, once)
    BY <2>2, <2>3
  <2>5. PICK depth2 : Deepened(below, nodes, n, depth, c, depth2)
    BY <2>4 DEF Outcome
  <2>6. IntoPage(new, into, p) = TakeSplit(below, p, at)
    BY <1>1, <1>3, <2>1, <2>3 DEF IntoPage
  <2>7. below.nodes \in Seq(NodeType) /\ depth2 \in [DOMAIN below.nodes -> 0 .. n] /\ Len(below.nodes) \in Nat
        /\ DOMAIN below.nodes = 1 .. Len(below.nodes)
    <3>1. ShapedAs(below.nodes, n, depth2)
      BY <2>5 DEF Deepened
    <3> QED
      BY <3>1, ShapedType
  <2>8. /\ \A q \in DOMAIN nodes : depth[q] > depth[p] => depth[q] > depth[c] /\ below.nodes[q] = nodes[q]
        /\ below.nodes[p] = nodes[p]
        /\ \A q \in DOMAIN nodes : q \in DOMAIN below.nodes
    <3>1. \A q \in DOMAIN nodes : depth[q] \in Int
      BY <1>0
    <3>2. \A q \in DOMAIN nodes : depth[q] > depth[p] => depth[q] > depth[c]
      BY <2>2, <3>1
    <3>3. depth[p] > depth[c]
      BY <2>2, <3>1
    <3>4. Len(nodes) <= Len(below.nodes)
      BY <2>4 DEF Outcome
    <3>5. \A q \in DOMAIN nodes : depth[q] > depth[c] => below.nodes[q] = nodes[q]
      BY <2>4 DEF Outcome
    <3> QED
      BY <1>0, <2>7, <3>2, <3>3, <3>4, <3>5
  <2>9. CASE ~below.split
    <3>1. Deepened(below, nodes, n, depth, p, depth2)
      BY <2>5, <2>9 DEF Deepened
    <3>2. Outcome(below, nodes, n, depth, p, all, once)
      BY <2>4, <2>8, <3>1 DEF Outcome
    <3> QED
      BY <2>6, <2>9, <3>2 DEF TakeSplit
  <2>10. CASE below.split
    <3>1. PICK mid : mid = InsertChild(below.nodes, p, at, below.key, below.right)
      OBVIOUS
    <3>2. /\ ShapedAs(below.nodes, n, depth2) /\ (once => RowsOnce(below.nodes, all))
          /\ p \in DOMAIN below.nodes /\ ~below.nodes[p].leaf /\ at \in 1 .. Len(below.nodes[p].keys) + 1
          /\ below.key \in Seq(Int) /\ below.right \in DOMAIN below.nodes
      BY <1>3, <2>2, <2>4, <2>5, <2>8, <2>10 DEF Outcome, Deepened
    <3>3. depth2[below.right] < depth2[p] /\ \A q \in DOMAIN nodes : depth2[q] = depth[q]
      BY <2>2, <2>5, <2>10 DEF Deepened
    <3>4. /\ ShapedAs(mid, n, depth2) /\ (once => RowsOnce(mid, all))
          /\ DOMAIN mid = DOMAIN below.nodes /\ Len(mid) = Len(below.nodes)
          /\ mid[p].leaf = below.nodes[p].leaf /\ \A q \in DOMAIN below.nodes : q # p => mid[q] = below.nodes[q]
      <4>1. InnerMayTake(below.nodes, n, depth2, all, once, p, at, below.key, below.right)
        BY <3>2, <3>3 DEF InnerMayTake
      <4>2. Grown(mid, below.nodes, n, depth2, all, once, p)
        BY <3>1, <4>1, InnerTakes
      <4> QED
        BY <4>2 DEF Grown
    <3>5. PICK out : out = SplitIfFull(mid, p, below.pages)
      OBVIOUS
    <3>6. Outcome(out, mid, n, depth2, p, all, once)
      BY <3>2, <3>4, <3>5, SplitIfFullKeeps
    <3>7. Len(out.nodes) \in Int
      <4>1. PICK depth3 : Deepened(out, mid, n, depth2, p, depth3)
        BY <3>6 DEF Outcome
      <4>2. ShapedAs(out.nodes, n, depth3)
        BY <4>1 DEF Deepened
      <4> QED
        BY <4>2, ShapedType
    <3>8. Len(nodes) <= Len(mid) /\ Len(mid) \in Int /\ Len(nodes) \in Int /\ DOMAIN nodes \subseteq DOMAIN mid
      BY <1>0, <2>4, <2>7, <2>8, <3>4 DEF Outcome
    <3>9. \A q \in DOMAIN nodes : mid[q].leaf = nodes[q].leaf
      BY <2>4, <2>8, <3>4 DEF Outcome
    <3>10. \A q \in DOMAIN nodes : depth[q] > depth[p] => mid[q] = nodes[q]
      <4>1. ~(depth[p] > depth[p])
        BY <1>0
      <4> QED
        BY <2>8, <3>4, <4>1
    <3>11. Outcome(out, nodes, n, depth, p, all, once)
      <4>1. ChangedBelow(mid, depth2, nodes, depth, p)
        BY <3>3, <3>8, <3>9, <3>10 DEF ChangedBelow
      <4> QED
        BY <3>6, <3>7, <4>1, OutcomeAfter
    <3> QED
      BY <2>6, <2>10, <3>1, <3>5, <3>11 DEF TakeSplit
  <2> QED
    BY <2>9, <2>10
<1> QED
  BY <1>2, <1>3

(* A tree of some shape takes a key and a row it does not have *)
MayTake(nodes, n, depth, slots, once, key, row) ==
  /\ n \in Nat /\ once \in BOOLEAN
  /\ ShapedAs(nodes, n, depth) /\ (once => RowsOnce(nodes, slots))
  /\ key \in Seq(Int) /\ row \in Position /\ (once => row \notin slots)

(* into is what the insertion new does below each page *)
IntoIs(into, new, nodes, key, row) ==
  /\ new.nodes = nodes /\ new.key = key /\ new.row = row
  /\ \A p \in DOMAIN nodes : into[p] = IntoPage(new, into, p)

\* What an insertion does below every page of the tree.
LEMMA IntoKeeps ==
    ASSUME NEW nodes, NEW n, NEW depth, NEW slots, NEW once, NEW key, NEW row,
           MayTake(nodes, n, depth, slots, once, key, row),
           NEW all, all = slots \cup {row},
           NEW into, NEW new, IntoIs(into, new, nodes, key, row)
    PROVE  \A p \in DOMAIN nodes : Outcome(into[p], nodes, n, depth, p, all, once)
<1>0. /\ n \in Nat /\ once \in BOOLEAN
      /\ ShapedAs(nodes, n, depth) /\ (once => RowsOnce(nodes, slots))
      /\ key \in Seq(Int) /\ row \in Position /\ (once => row \notin slots)
  BY DEF MayTake
<1>0a. /\ new.nodes = nodes /\ new.key = key /\ new.row = row
       /\ \A p \in DOMAIN nodes : into[p] = IntoPage(new, into, p)
  BY DEF IntoIs
<1> USE <1>0, <1>0a
<1> DEFINE Bad == {p \in DOMAIN nodes : ~Outcome(into[p], nodes, n, depth, p, all, once)}
           Low == {depth[p] : p \in Bad}
<1>1. SUFFICES ASSUME Bad # {} PROVE FALSE
  OBVIOUS
<1>2. depth \in [DOMAIN nodes -> 0 .. n]
  BY ShapedType
<1>3. Low \in SUBSET Nat /\ Low # {}
  <2>1. \A p \in DOMAIN nodes : depth[p] \in Nat
    BY <1>2
  <2>2. \A p \in Bad : p \in DOMAIN nodes
    OBVIOUS
  <2> HIDE DEF Bad
  <2> QED
    BY <1>1, <2>1, <2>2
<1>4. PICK d \in Low : \A e \in Low : d <= e
  BY <1>3, KeepFold!LeastIs
<1>5. PICK p \in Bad : d = depth[p]
  BY <1>4
<1>6. ASSUME NEW c \in DOMAIN nodes, depth[c] < depth[p]
      PROVE  Outcome(into[c], nodes, n, depth, c, all, once)
  <2>1. c \in Bad => depth[p] <= depth[c]
    BY <1>4, <1>5
  <2>2. depth[c] \in Int /\ depth[p] \in Int
    BY <1>2, <1>5
  <2> QED
    BY <1>6, <2>1, <2>2
<1>7. Outcome(IntoPage(new, into, p), nodes, n, depth, p, all, once)
  BY <1>5, <1>6, IntoPageKeeps
<1> QED
  BY <1>5, <1>7

LEMMA Appended ==
    ASSUME NEW S, NEW seq \in Seq(S), NEW x \in S
    PROVE  /\ Append(seq, x) \in Seq(S) /\ Len(Append(seq, x)) = Len(seq) + 1
           /\ DOMAIN Append(seq, x) = 1 .. Len(seq) + 1
           /\ Append(seq, x)[Len(seq) + 1] = x /\ \A i \in 1 .. Len(seq) : Append(seq, x)[i] = seq[i]
OBVIOUS

LEMMA KeepIsFold ==
    ASSUME NEW base, NEW seq
    PROVE  FoldLeft(TakeKept, base, seq) = KeepFold!Folded(base, seq)
BY DEF FoldLeft, MapThenFoldSet, Max,
       KeepFold!Folded, KeepFold!MapThenFoldSet, KeepFold!Greatest

(* r has the elements of items that at says, in their order, and they are  *)
(* the first k elements that keep keeps                                    *)
Picks(r, at, items, keep, k) ==
  /\ Len(r) \in Nat /\ DOMAIN r = 1 .. Len(r)
  /\ \A i \in 1 .. Len(r) : at[i] \in 1 .. k /\ keep[at[i]] /\ r[i] = items[at[i]]
  /\ \A i, j \in 1 .. Len(r) : i < j => at[i] < at[j]
  /\ \A x \in 1 .. k : keep[x] => \E i \in 1 .. Len(r) : at[i] = x

PickedFrom(r, items, keep, k) == \E at : Picks(r, at, items, keep, k)

LEMMA PickNext ==
    ASSUME NEW S, NEW n \in Nat, NEW items, \A i \in 1 .. n : items[i] \in S, NEW keep,
           NEW k \in 1 .. n, NEW r \in Seq(S), PickedFrom(r, items, keep, k - 1),
           NEW new, new = TakeKept(r, [item |-> items[k], keep |-> keep[k]])
    PROVE  new \in Seq(S) /\ PickedFrom(new, items, keep, k)
<1>1. PICK at : Picks(r, at, items, keep, k - 1)
  BY DEF PickedFrom
<1>2. PICK l \in Nat : l = Len(r) /\ DOMAIN r = 1 .. l
  OBVIOUS
<1>3. CASE ~keep[k]
  <2>1. new = r
    BY <1>3 DEF TakeKept
  <2>2. Picks(r, at, items, keep, k)
    <3>1. \A i \in 1 .. l : at[i] \in 1 .. k /\ keep[at[i]] /\ r[i] = items[at[i]]
      BY <1>1, <1>2 DEF Picks
    <3>2. \A i, j \in 1 .. l : i < j => at[i] < at[j]
      BY <1>1, <1>2 DEF Picks
    <3>3. \A x \in 1 .. k - 1 : keep[x] => \E i \in 1 .. l : at[i] = x
      BY <1>1, <1>2 DEF Picks
    <3>4. \A x \in 1 .. k : x = k \/ x \in 1 .. k - 1
      OBVIOUS
    <3>5. \A x \in 1 .. k : keep[x] => \E i \in 1 .. l : at[i] = x
      BY <1>3, <3>3, <3>4
    <3> QED
      BY <1>2, <3>1, <3>2, <3>5 DEF Picks
  <2> QED
    BY <2>1, <2>2 DEF PickedFrom
<1>4. CASE keep[k]
  <2>1. new = Append(r, items[k])
    BY <1>4 DEF TakeKept
  <2>2. /\ new \in Seq(S) /\ Len(new) = l + 1 /\ DOMAIN new = 1 .. l + 1
        /\ new[l + 1] = items[k] /\ \A i \in 1 .. l : new[i] = r[i]
    <3>1. items[k] \in S
      OBVIOUS
    <3>2. PICK x \in S : x = items[k]
      BY <3>1
    <3>3. /\ Append(r, x) \in Seq(S) /\ Len(Append(r, x)) = Len(r) + 1
          /\ DOMAIN Append(r, x) = 1 .. Len(r) + 1
          /\ Append(r, x)[Len(r) + 1] = x /\ \A i \in 1 .. Len(r) : Append(r, x)[i] = r[i]
      BY Appended
    <3>4. new = Append(r, x)
      BY <2>1, <3>2
    <3> QED
      BY <1>2, <3>2, <3>3, <3>4
  <2>3. PICK at2 : at2 = [i \in 1 .. l + 1 |-> IF i = l + 1 THEN k ELSE at[i]]
    OBVIOUS
  <2>4. /\ \A i \in 1 .. l + 1 : i = l + 1 \/ (i \in 1 .. l /\ i # l + 1)
        /\ at2[l + 1] = k /\ \A i \in 1 .. l : at2[i] = at[i]
        /\ l + 1 \in 1 .. l + 1 /\ \A i \in 1 .. l : i \in 1 .. l + 1
    BY <1>2, <2>3
  <2>5. \A i \in 1 .. l : at[i] \in 1 .. k - 1 /\ keep[at[i]] /\ r[i] = items[at[i]]
    BY <1>1, <1>2 DEF Picks
  <2>6. ASSUME NEW i \in 1 .. l + 1 PROVE at2[i] \in 1 .. k /\ keep[at2[i]] /\ new[i] = items[at2[i]]
    <3>1. CASE i = l + 1
      BY <1>4, <2>2, <2>4, <3>1
    <3>2. CASE i \in 1 .. l
      <4>1. k - 1 \in Nat /\ \A y \in 1 .. k - 1 : y \in 1 .. k
        OBVIOUS
      <4> QED
        BY <2>2, <2>4, <2>5, <3>2, <4>1
    <3> QED
      BY <2>4, <3>1, <3>2
  <2>7. ASSUME NEW i \in 1 .. l + 1, NEW j \in 1 .. l + 1, i < j PROVE at2[i] < at2[j]
    <3>1. i \in 1 .. l /\ at2[i] = at[i] /\ at[i] < k
      BY <2>4, <2>5, <2>7
    <3>2. CASE j = l + 1
      BY <2>4, <3>1, <3>2
    <3>3. CASE j \in 1 .. l
      <4>1. at2[j] = at[j]
        BY <2>4, <3>3
      <4>2. at[i] < at[j]
        BY <1>1, <1>2, <2>7, <3>1, <3>3 DEF Picks
      <4> QED
        BY <3>1, <4>1, <4>2
    <3> QED
      BY <2>4, <3>2, <3>3
  <2>8. ASSUME NEW x \in 1 .. k, keep[x] PROVE \E i \in 1 .. l + 1 : at2[i] = x
    <3>1. CASE x = k
      BY <2>4, <3>1
    <3>2. CASE x # k
      <4>1. x \in 1 .. k - 1
        BY <3>2
      <4>2. PICK i \in 1 .. l : at[i] = x
        BY <1>1, <1>2, <2>8, <4>1 DEF Picks
      <4> QED
        BY <2>4, <4>2
    <3> QED
      BY <3>1, <3>2
  <2>9. l + 1 \in Nat
    OBVIOUS
  <2>10. Picks(new, at2, items, keep, k)
    BY <2>2, <2>6, <2>7, <2>8, <2>9 DEF Picks
  <2> QED
    BY <2>2, <2>10 DEF PickedFrom
<1> QED
  BY <1>3, <1>4

\* What Filter keeps, and in which order.
LEMMA FilterIs ==
    ASSUME NEW S, NEW n \in Nat, NEW items, DOMAIN items = 1 .. n, \A i \in 1 .. n : items[i] \in S, NEW keep
    PROVE  Filter(items, keep) \in Seq(S) /\ PickedFrom(Filter(items, keep), items, keep, n)
<1>1. PICK seq : seq = [i \in DOMAIN items |-> [item |-> items[i], keep |-> keep[i]]]
  OBVIOUS
<1>2. Filter(items, keep) = KeepFold!Folded(<<>>, seq)
  BY <1>1, KeepIsFold DEF Filter
<1>3. DOMAIN seq = 1 .. n
  BY <1>1
<1>4. PICK r : KeepFold!Stages(r, <<>>, n, seq)
  BY <1>3, KeepFold!FoldSteps
<1> DEFINE Bad == {k \in 0 .. n : ~(r[k] \in Seq(S) /\ PickedFrom(r[k], items, keep, k))}
<1>5. 0 \notin Bad
  <2>1. r[0] = <<>>
    BY <1>4 DEF KeepFold!Stages
  <2>2. Len(<<>>) = 0 /\ <<>> \in Seq(S)
    OBVIOUS
  <2>3. Picks(<<>>, <<>>, items, keep, 0)
    BY <2>2 DEF Picks
  <2> QED
    BY <2>1, <2>2, <2>3 DEF PickedFrom
<1>6. ASSUME NEW k \in 1 .. n, k \in Bad PROVE k - 1 \in Bad
  <2>1. SUFFICES ASSUME k - 1 \notin Bad PROVE FALSE
    OBVIOUS
  <2>2. k - 1 \in 0 .. n
    OBVIOUS
  <2>3. r[k - 1] \in Seq(S) /\ PickedFrom(r[k - 1], items, keep, k - 1)
    BY <2>1, <2>2
  <2>4. r[k] = TakeKept(r[k - 1], [item |-> items[k], keep |-> keep[k]])
    <3>1. r[k] = TakeKept(r[k - 1], seq[k])
      BY <1>4 DEF KeepFold!Stages
    <3> QED
      BY <1>1, <1>3, <3>1
  <2>5. r[k] \in Seq(S) /\ PickedFrom(r[k], items, keep, k)
    BY <2>3, <2>4, PickNext
  <2> QED
    BY <1>6, <2>5
<1>7. Bad = {}
  <2>1. Bad \in SUBSET (0 .. n)
    OBVIOUS
  <2> HIDE DEF Bad
  <2> QED
    BY <1>5, <1>6, <2>1, KeepFold!Climb
<1>8. r[n] \in Seq(S) /\ PickedFrom(r[n], items, keep, n)
  BY <1>7
<1> QED
  BY <1>2, <1>4, <1>8 DEF KeepFold!Stages

\* One more item, kept or not.
LEMMA FilterLast ==
    ASSUME NEW n \in Nat, n # 0, NEW items, DOMAIN items = 1 .. n, NEW keep,
           NEW front, DOMAIN front = 1 .. n - 1, \A i \in 1 .. n - 1 : front[i] = items[i],
           NEW kept, \A i \in 1 .. n - 1 : kept[i] = keep[i]
    PROVE  Filter(items, keep) =
             IF keep[n] THEN Append(Filter(front, kept), items[n]) ELSE Filter(front, kept)
<1>1. PICK seq : seq = [i \in DOMAIN items |-> [item |-> items[i], keep |-> keep[i]]]
  OBVIOUS
<1>2. PICK fseq : fseq = [i \in DOMAIN front |-> [item |-> front[i], keep |-> kept[i]]]
  OBVIOUS
<1>3. DOMAIN seq = 1 .. n /\ DOMAIN fseq = 1 .. n - 1 /\ \A i \in 1 .. n - 1 : fseq[i] = seq[i] /\ n \in 1 .. n
  <2>1. \A i \in 1 .. n - 1 : i \in 1 .. n
    OBVIOUS
  <2> QED
    BY <1>1, <1>2, <2>1
<1>4. KeepFold!Folded(<<>>, seq) = TakeKept(KeepFold!Folded(<<>>, fseq), seq[n])
  BY <1>3, KeepFold!FoldLast
<1>5. Filter(items, keep) = KeepFold!Folded(<<>>, seq)
  BY <1>1, KeepIsFold DEF Filter
<1>6. Filter(front, kept) = KeepFold!Folded(<<>>, fseq)
  BY <1>2, KeepIsFold DEF Filter
<1>7. n \in DOMAIN items
  OBVIOUS
<1>8. seq[n] = [item |-> items[n], keep |-> keep[n]]
  BY <1>1, <1>7
<1> QED
  BY <1>4, <1>5, <1>6, <1>8 DEF TakeKept

LEMMA MakeKeyIs ==
    ASSUME NEW value, value # NULL => value \in Seq(Int)
    PROVE  MakeKey(value) \in Seq(Int)
<1>1. CASE value = NULL
  BY <1>1 DEF MakeKey
<1>2. CASE value # NULL
  <2>1. PICK s \in Seq(Int) : s = value
    BY <1>2
  <2>2. PICK b \in Nat : b = (IF Len(s) < KeyMax THEN Len(s) ELSE KeyMax) /\ b <= Len(s)
    BY KeyMaxAssumption
  <2>3. SubSeq(s, 1, b) \in Seq(Int)
    BY <2>2, Slice
  <2> QED
    BY <1>2, <2>1, <2>2, <2>3 DEF MakeKey
<1> QED
  BY <1>1, <1>2

TreeShaped(nodes) == \E n \in Nat : \E depth : ShapedAs(nodes, n, depth)

(* A tree that can be descended and walked; with once, the rows of its      *)
(* leaves are different slots                                              *)
TreeOK(tree, slots, once) ==
  /\ tree.root \in DOMAIN tree.nodes
  /\ TreeShaped(tree.nodes)
  /\ once => RowsOnce(tree.nodes, slots)

LEMMA EmptyTreeIsOK == ASSUME NEW once PROVE TreeOK(EmptyTree, {}, once)
<1>1. PICK node : node = Node(TRUE, <<>>, <<>>, NoPage)
  OBVIOUS
<1>2. PICK nodes : nodes = <<node>>
  OBVIOUS
<1>3. /\ node \in NodeType /\ node.leaf = TRUE /\ node.keys = <<>> /\ node.kids = <<>> /\ node.next = NoPage
  BY <1>1 DEF Node, NodeType, NoPage
<1>4. nodes \in Seq(NodeType) /\ DOMAIN nodes = {1} /\ nodes[1] = node
  BY <1>2, <1>3
<1>5. PICK zero : zero = [p \in DOMAIN nodes |-> 0]
  OBVIOUS
<1>6. Len(<<>>) = 0 /\ DOMAIN <<>> = {}
  OBVIOUS
<1>7. Shaped(nodes, 0, zero, 0, zero)
  <2>1. zero \in [DOMAIN nodes -> 0 .. 0]
    BY <1>5
  <2>2. LeafAt(nodes, zero, 1)
    BY <1>3, <1>4, <1>6 DEF LeafAt
  <2>3. \A p \in DOMAIN nodes : p = 1 /\ nodes[p].leaf
    BY <1>3, <1>4
  <2> QED
    BY <1>4, <2>1, <2>2, <2>3 DEF Shaped
<1>8. RowsOnce(nodes, {})
  <2>1. \A p \in DOMAIN nodes : DOMAIN nodes[p].kids = {}
    BY <1>3, <1>4, <1>6
  <2> QED
    BY <2>1 DEF RowsOnce
<1>9. ShapedAs(nodes, 0, zero)
  <2>1. 0 \in Nat
    OBVIOUS
  <2> QED
    BY <1>7, <2>1 DEF ShapedAs
<1>10. TreeShaped(nodes)
  <2>1. 0 \in Nat
    OBVIOUS
  <2> QED
    BY <1>9, <2>1 DEF TreeShaped
<1>11. EmptyTree.nodes = nodes /\ EmptyTree.root = 1
  BY <1>1, <1>2 DEF EmptyTree
<1> QED
  BY <1>4, <1>8, <1>10, <1>11 DEF TreeOK

\* A new root above a page and its new right half.
LEMMA NewRoot ==
    ASSUME NEW nodes, NEW n \in Nat, NEW depth, ShapedAs(nodes, n, depth),
           NEW l \in DOMAIN nodes, NEW r \in DOMAIN nodes, NEW key \in Seq(Int), NEW slots, NEW once \in BOOLEAN,
           once => RowsOnce(nodes, slots),
           NEW new, new = WithRoot(nodes, key, l, r)
    PROVE  /\ TreeShaped(new) /\ (once => RowsOnce(new, slots))
           /\ Len(nodes) + 1 \in DOMAIN new
<1>0. /\ nodes \in Seq(NodeType) /\ depth \in [DOMAIN nodes -> 0 .. n]
      /\ Len(nodes) \in Nat /\ DOMAIN nodes = 1 .. Len(nodes)
  BY ShapedType
<1>1a. PICK m \in Nat : \E rank : Shaped(nodes, n, depth, m, rank)
  BY DEF ShapedAs
<1>1. PICK rank : Shaped(nodes, n, depth, m, rank)
  BY <1>1a
<1>2. PICK node : node = Node(FALSE, <<key>>, <<l, r>>, NoPage)
  OBVIOUS
<1>3. /\ node \in NodeType /\ node.leaf = FALSE /\ node.keys = <<key>> /\ node.kids = <<l, r>>
      /\ node.next = NoPage
  <2>1. <<key>> \in Seq(Seq(Int)) /\ l \in Nat /\ r \in Nat
    BY <1>0
  <2>2. <<l, r>> \in Seq(Nat \cup Position)
    BY <2>1
  <2> QED
    BY <1>2, <2>1, <2>2 DEF Node, NodeType, NoPage
<1>4. PICK q : q = Len(nodes) + 1
  OBVIOUS
<1>5. /\ new \in Seq(NodeType) /\ DOMAIN new = 1 .. q /\ new[q] = node
      /\ \A p \in DOMAIN nodes : new[p] = nodes[p]
  <2>1. PICK x \in NodeType : x = node
    BY <1>3
  <2>2. /\ Append(nodes, x) \in Seq(NodeType) /\ DOMAIN Append(nodes, x) = 1 .. Len(nodes) + 1
        /\ Append(nodes, x)[Len(nodes) + 1] = x
        /\ \A i \in 1 .. Len(nodes) : Append(nodes, x)[i] = nodes[i]
    BY <1>0, Appended
  <2>3. new = Append(nodes, x)
    BY <1>2, <2>1 DEF WithRoot
  <2> QED
    BY <1>0, <1>4, <2>1, <2>2, <2>3
<1>6. /\ \A p \in DOMAIN nodes : p \in DOMAIN new /\ p # q
      /\ \A p \in DOMAIN new : p = q \/ p \in DOMAIN nodes
      /\ q \in DOMAIN new
  BY <1>0, <1>4, <1>5
<1>7. PICK depth2 : depth2 = [p \in DOMAIN new |-> IF p = q THEN n + 1 ELSE depth[p]]
  OBVIOUS
<1>8. PICK rank2 : rank2 = [p \in DOMAIN new |-> IF p = q THEN 0 ELSE rank[p]]
  OBVIOUS
<1>9. rank \in [DOMAIN nodes -> 0 .. m]
  BY <1>1 DEF Shaped
<1>10. /\ depth2 \in [DOMAIN new -> 0 .. n + 1] /\ depth2[q] = n + 1
       /\ \A p \in DOMAIN nodes : depth2[p] = depth[p] /\ depth2[p] < n + 1
  BY <1>0, <1>6, <1>7
<1>11. rank2 \in [DOMAIN new -> 0 .. m] /\ \A p \in DOMAIN nodes : rank2[p] = rank[p]
  BY <1>6, <1>8, <1>9
<1>12. ASSUME NEW p \in DOMAIN new, new[p].leaf PROVE LeafAt(new, rank2, p)
  <2>1. p \in DOMAIN nodes /\ new[p] = nodes[p]
    BY <1>3, <1>5, <1>6, <1>12
  <2>2. LeafAt(nodes, rank, p)
    BY <1>1, <1>12, <2>1 DEF Shaped
  <2>3. nodes[p].next # NoPage => new[nodes[p].next] = nodes[nodes[p].next] /\ nodes[p].next \in DOMAIN nodes
    BY <1>5, <2>2 DEF LeafAt
  <2> QED
    BY <1>6, <1>11, <2>1, <2>2, <2>3 DEF LeafAt
<1>13. ASSUME NEW p \in DOMAIN new, ~new[p].leaf PROVE InnerAt(new, depth2, p)
  <2>1. CASE p = q
    <3>1. Len(node.kids) = 2 /\ Len(node.keys) = 1 /\ \A i \in DOMAIN node.kids : node.kids[i] \in {l, r}
      BY <1>3
    <3>2. \A i \in DOMAIN node.kids : node.kids[i] \in DOMAIN nodes
      BY <3>1
    <3> QED
      <4>1. \A i \in DOMAIN node.kids : node.kids[i] \in DOMAIN new /\ depth2[node.kids[i]] < depth2[q]
        BY <1>6, <1>10, <3>2
      <4>2. new[p] = node /\ node.next = NoPage /\ Len(node.kids) = Len(node.keys) + 1
        BY <1>3, <1>5, <2>1, <3>1
      <4> QED
        BY <2>1, <4>1, <4>2 DEF InnerAt
  <2>2. CASE p # q
    <3>1. p \in DOMAIN nodes /\ new[p] = nodes[p]
      BY <1>5, <1>6, <2>2
    <3>2. InnerAt(nodes, depth, p)
      BY <1>1, <1>13, <3>1 DEF Shaped
    <3> QED
      BY <1>6, <1>10, <3>1, <3>2 DEF InnerAt
  <2> QED
    BY <2>1, <2>2
<1>14. TreeShaped(new)
  <2>1. Shaped(new, n + 1, depth2, m, rank2)
    BY <1>5, <1>10, <1>11, <1>12, <1>13 DEF Shaped
  <2>2. ShapedAs(new, n + 1, depth2)
    BY <2>1 DEF ShapedAs
  <2>3. n + 1 \in Nat
    OBVIOUS
  <2> QED
    BY <2>2, <2>3 DEF TreeShaped
<1>15. ASSUME once PROVE RowsOnce(new, slots)
  <2>1. \A p \in DOMAIN new : new[p].leaf => p \in DOMAIN nodes /\ new[p] = nodes[p]
    BY <1>3, <1>5, <1>6
  <2>2. RowsOnce(nodes, slots)
    BY <1>15
  <2>3. ASSUME NEW x \in DOMAIN new, new[x].leaf, NEW i \in DOMAIN new[x].kids
        PROVE  /\ new[x].kids[i] \in slots
               /\ \A y \in DOMAIN new : new[y].leaf => \A j \in DOMAIN new[y].kids :
                    new[x].kids[i] = new[y].kids[j] => x = y /\ i = j
    <3>1. x \in DOMAIN nodes /\ new[x] = nodes[x] /\ nodes[x].leaf /\ i \in DOMAIN nodes[x].kids
      BY <2>1, <2>3
    <3>2. new[x].kids[i] \in slots
      BY <2>2, <3>1 DEF RowsOnce
    <3>3. ASSUME NEW y \in DOMAIN new, new[y].leaf, NEW j \in DOMAIN new[y].kids,
                 new[x].kids[i] = new[y].kids[j]
          PROVE  x = y /\ i = j
      <4>1. y \in DOMAIN nodes /\ new[y] = nodes[y] /\ nodes[y].leaf /\ j \in DOMAIN nodes[y].kids
        BY <2>1, <3>3
      <4>2. nodes[x].kids[i] = nodes[y].kids[j]
        BY <3>1, <3>3, <4>1
      <4> QED
        BY <2>2, <3>1, <4>1, <4>2 DEF RowsOnce
    <3> QED
      BY <3>2, <3>3
  <2> QED
    BY <2>3 DEF RowsOnce
<1> QED
  BY <1>4, <1>6, <1>14, <1>15

\* An insertion leaves a tree that can be descended and walked, with the
\* new row at most once more than before.
THEOREM InsertKeeps ==
    ASSUME NEW tree, NEW slots, NEW once \in BOOLEAN, TreeOK(tree, slots, once),
           NEW value, value # NULL => value \in Seq(Int),
           NEW row \in Position, once => row \notin slots, NEW pages,
           NEW put, put = IndexInsert(tree, value, row, pages)
    PROVE  TreeOK(put.tree, slots \cup {row}, once) /\ put.ok \in BOOLEAN /\ put.rootLost \in BOOLEAN
<1>1. PICK all : all = slots \cup {row}
  OBVIOUS
<1>2. CASE value = NULL
  <2>1. put.tree = tree /\ put.ok = TRUE /\ put.rootLost = FALSE
    BY <1>2 DEF IndexInsert
  <2>2. RowsOnce(tree.nodes, slots) => RowsOnce(tree.nodes, all)
    BY <1>1 DEF RowsOnce
  <2> QED
    BY <1>1, <2>1, <2>2 DEF TreeOK
<1>3. CASE value # NULL
  <2>1. PICK key \in Seq(Int) : key = MakeKey(value)
    BY <1>3, MakeKeyIs
  <2>2. PICK nodes : nodes = tree.nodes
    OBVIOUS
  <2>3. PICK root \in DOMAIN nodes : root = tree.root
    BY <2>2 DEF TreeOK
  <2>4. TreeShaped(nodes) /\ (once => RowsOnce(nodes, slots))
    BY <2>2 DEF TreeOK
  <2>5. PICK n \in Nat : \E depth : ShapedAs(nodes, n, depth)
    BY <2>4 DEF TreeShaped
  <2>6. PICK depth : ShapedAs(nodes, n, depth)
    BY <2>5
  <2>7. PICK new : new = [nodes |-> nodes, key |-> key, row |-> row, pages |-> pages]
    OBVIOUS
  <2>8. PICK into : /\ \A p \in DOMAIN nodes : into[p] = IntoPage(new, into, p)
                    /\ root \in DOMAIN nodes => InsertInto(nodes, root, key, row, pages) = into[root]
    BY <2>6, <2>7, InsertIntoIs
  <2>9. \A p \in DOMAIN nodes : Outcome(into[p], nodes, n, depth, p, all, once)
    <3>1. MayTake(nodes, n, depth, slots, once, key, row)
      BY <2>4, <2>6 DEF MayTake
    <3> QED
      <4>1. IntoIs(into, new, nodes, key, row)
        BY <2>7, <2>8 DEF IntoIs
      <4> QED
        BY <1>1, <3>1, <4>1, IntoKeeps
  <2>10. PICK split : split = into[root]
    OBVIOUS
  <2>11. Outcome(split, nodes, n, depth, root, all, once)
    BY <2>9, <2>10
  <2>12. put = GrowRoot(tree, split)
    BY <1>3, <2>1, <2>2, <2>3, <2>8, <2>10 DEF IndexInsert
  <2>13. PICK depth2 : Deepened(split, nodes, n, depth, root, depth2)
    BY <2>11 DEF Outcome
  <2>14. ShapedAs(split.nodes, n, depth2)
    BY <2>13 DEF Deepened
  <2>15. TreeShaped(split.nodes) /\ (once => RowsOnce(split.nodes, all)) /\ split.ok \in BOOLEAN
        /\ split.split \in BOOLEAN
    BY <2>11, <2>14 DEF TreeShaped, Outcome
  <2>16. root \in DOMAIN split.nodes
    <3>1. Len(nodes) <= Len(split.nodes)
      BY <2>11 DEF Outcome
    <3>2. Len(nodes) \in Nat /\ DOMAIN nodes = 1 .. Len(nodes)
      BY <2>6, ShapedType
    <3>3. Len(split.nodes) \in Nat /\ DOMAIN split.nodes = 1 .. Len(split.nodes)
      BY <2>14, ShapedType
    <3> QED
      BY <3>1, <3>2, <3>3
  <2>17. CASE ~split.split
    <3>1. put.tree.nodes = split.nodes /\ put.tree.root = root /\ put.ok = split.ok /\ put.rootLost = FALSE
      <4>1. PICK count : count = (IF split.ok THEN tree.keyCount + 1 ELSE tree.keyCount)
        OBVIOUS
      <4>2. GrowRoot(tree, split) = [tree |-> [root |-> tree.root, nodes |-> split.nodes, keyCount |-> count],
                                     pages |-> split.pages, ok |-> split.ok, rootLost |-> FALSE]
        BY <2>17, <4>1 DEF GrowRoot
      <4> QED
        BY <2>3, <2>12, <4>2
    <3> QED
      BY <1>1, <2>15, <2>16, <3>1 DEF TreeOK
  <2>18. CASE split.split /\ split.pages = 0
    <3>1. put.tree.nodes = split.nodes /\ put.tree.root = root /\ put.ok = FALSE /\ put.rootLost = TRUE
      BY <2>3, <2>12, <2>15, <2>18 DEF GrowRoot
    <3> QED
      BY <1>1, <2>15, <2>16, <3>1 DEF TreeOK
  <2>19. CASE split.split /\ split.pages # 0
    <3>1. PICK grown : grown = WithRoot(split.nodes, split.key, root, split.right)
      OBVIOUS
    <3>2. /\ put.tree.nodes = grown /\ put.tree.root = Len(split.nodes) + 1
          /\ put.ok = TRUE /\ put.rootLost = FALSE
      BY <2>3, <2>12, <2>15, <2>19, <3>1 DEF GrowRoot
    <3>3. split.key \in Seq(Int) /\ split.right \in DOMAIN split.nodes
      BY <2>11, <2>13, <2>19 DEF Outcome, Deepened
    <3>4. TreeShaped(grown) /\ (once => RowsOnce(grown, all)) /\ Len(split.nodes) + 1 \in DOMAIN grown
      BY <2>14, <2>15, <2>16, <3>1, <3>3, NewRoot
    <3> QED
      BY <1>1, <3>2, <3>4 DEF TreeOK
  <2> QED
    BY <2>17, <2>18, <2>19
<1> QED
  BY <1>2, <1>3

LeftStep == INSTANCE Folding WITH Op <- NoOp, Step <- DownLeft
ToStep == INSTANCE Folding WITH Op <- NoOp, Step <- DownTo
WalkStep == INSTANCE Folding WITH Op <- NoOp, Step <- Onward

\* A descent that goes on to a child ends in a leaf.
LEMMA DescentEnds ==
    ASSUME NEW nodes, NEW n \in Nat, NEW depth, ShapedAs(nodes, n, depth), NEW down,
           \A p \in DOMAIN nodes : nodes[p].leaf => down[p] = p,
           \A p \in DOMAIN nodes : ~nodes[p].leaf =>
             \E c \in DOMAIN nodes : depth[c] < depth[p] /\ down[p] = down[c]
    PROVE  \A p \in DOMAIN nodes : down[p] \in DOMAIN nodes /\ nodes[down[p]].leaf
<1> DEFINE Bad == {p \in DOMAIN nodes : ~(down[p] \in DOMAIN nodes /\ nodes[down[p]].leaf)}
           Low == {depth[p] : p \in Bad}
<1>1. SUFFICES ASSUME Bad # {} PROVE FALSE
  OBVIOUS
<1>2. depth \in [DOMAIN nodes -> 0 .. n]
  BY ShapedType
<1>3. Low \in SUBSET Nat /\ Low # {}
  <2>1. \A p \in DOMAIN nodes : depth[p] \in Nat
    BY <1>2
  <2>2. \A p \in Bad : p \in DOMAIN nodes
    OBVIOUS
  <2> HIDE DEF Bad
  <2> QED
    BY <1>1, <2>1, <2>2
<1>4. PICK d \in Low : \A e \in Low : d <= e
  BY <1>3, KeepFold!LeastIs
<1>5. PICK p \in Bad : d = depth[p]
  BY <1>4
<1>6. ~nodes[p].leaf
  BY <1>5
<1>7. PICK c \in DOMAIN nodes : depth[c] < depth[p] /\ down[p] = down[c]
  BY <1>5, <1>6
<1>8. c \in Bad
  BY <1>5, <1>7
<1>9. depth[p] <= depth[c] /\ depth[c] \in Int /\ depth[p] \in Int
  BY <1>2, <1>4, <1>5, <1>8
<1> QED
  BY <1>7, <1>9

LEMMA FirstChildIs ==
    ASSUME NEW nodes, NEW n \in Nat, NEW depth, ShapedAs(nodes, n, depth),
           NEW p \in DOMAIN nodes, ~nodes[p].leaf
    PROVE  nodes[p].kids[1] \in DOMAIN nodes /\ depth[nodes[p].kids[1]] < depth[p]
<1>1a. PICK m \in Nat : \E rank : Shaped(nodes, n, depth, m, rank)
  BY DEF ShapedAs
<1>1. PICK rank : Shaped(nodes, n, depth, m, rank)
  BY <1>1a
<1>2. nodes[p] \in NodeType
  BY <1>1 DEF Shaped
<1>3. nodes[p].keys \in Seq(Seq(Int)) /\ nodes[p].kids \in Seq(Nat \cup Position)
  BY <1>2 DEF NodeType
<1>4. InnerAt(nodes, depth, p)
  BY <1>1 DEF Shaped
<1>5. 1 \in DOMAIN nodes[p].kids
  BY <1>3, <1>4 DEF InnerAt
<1> QED
  BY <1>4, <1>5 DEF InnerAt

LEMMA LeftmostIs ==
    ASSUME NEW tree, tree.root \in DOMAIN tree.nodes, TreeShaped(tree.nodes)
    PROVE  LeftmostLeaf(tree) \in DOMAIN tree.nodes /\ tree.nodes[LeftmostLeaf(tree)].leaf
<1>1. PICK nodes : nodes = tree.nodes
  OBVIOUS
<1>2. PICK n \in Nat : \E depth : ShapedAs(nodes, n, depth)
  BY <1>1 DEF TreeShaped
<1>3. PICK depth : ShapedAs(nodes, n, depth)
  BY <1>2
<1>4. LeftStep!Descends(nodes, DOMAIN nodes, depth)
  <2>1. ASSUME NEW p \in DOMAIN nodes, NEW f, NEW g, \A q \in DOMAIN nodes : depth[q] < depth[p] => f[q] = g[q]
        PROVE  DownLeft(nodes, f, p) = DownLeft(nodes, g, p)
    <3>1. CASE nodes[p].leaf
      BY <3>1 DEF DownLeft
    <3>2. CASE ~nodes[p].leaf
      <4>1. nodes[p].kids[1] \in DOMAIN nodes /\ depth[nodes[p].kids[1]] < depth[p]
        BY <1>3, <3>2, FirstChildIs
      <4> QED
        BY <2>1, <3>2, <4>1 DEF DownLeft
    <3> QED
      BY <3>1, <3>2
  <2> QED
    BY <2>1 DEF LeftStep!Descends
<1>5. depth \in [DOMAIN nodes -> 0 .. n]
  BY <1>3, ShapedType
<1>6. \E f : LeftStep!Solves(f, nodes, DOMAIN nodes)
  BY <1>4, <1>5, LeftStep!Recursion
<1> DEFINE Down == CHOOSE f : f = [p \in DOMAIN nodes |-> DownLeft(nodes, f, p)]
<1>7. Down = [p \in DOMAIN nodes |-> DownLeft(nodes, Down, p)]
  BY <1>6 DEF LeftStep!Solves
<1>8. LeftmostLeaf(tree) = Down[tree.root]
  BY <1>1 DEF LeftmostLeaf
<1> HIDE DEF Down
<1>9. \A p \in DOMAIN nodes : Down[p] = DownLeft(nodes, Down, p)
  BY <1>7
<1>10. \A p \in DOMAIN nodes : nodes[p].leaf => Down[p] = p
  BY <1>9 DEF DownLeft
<1>11. ASSUME NEW p \in DOMAIN nodes, ~nodes[p].leaf
       PROVE  \E c \in DOMAIN nodes : depth[c] < depth[p] /\ Down[p] = Down[c]
  <2>1. nodes[p].kids[1] \in DOMAIN nodes /\ depth[nodes[p].kids[1]] < depth[p]
    BY <1>3, <1>11, FirstChildIs
  <2>2. Down[p] = Down[nodes[p].kids[1]]
    BY <1>9, <1>11 DEF DownLeft
  <2> QED
    BY <2>1, <2>2
<1>12. \A p \in DOMAIN nodes : Down[p] \in DOMAIN nodes /\ nodes[Down[p]].leaf
  BY <1>3, <1>10, <1>11, DescentEnds
<1> QED
  BY <1>1, <1>8, <1>12

LEMMA SeekIs ==
    ASSUME NEW tree, tree.root \in DOMAIN tree.nodes, TreeShaped(tree.nodes), NEW key
    PROVE  SeekLeaf(tree, key) \in DOMAIN tree.nodes /\ tree.nodes[SeekLeaf(tree, key)].leaf
<1>1. PICK nodes : nodes = tree.nodes
  OBVIOUS
<1>2. PICK n \in Nat : \E depth : ShapedAs(nodes, n, depth)
  BY <1>1 DEF TreeShaped
<1>3. PICK depth : ShapedAs(nodes, n, depth)
  BY <1>2
<1>4. PICK sought : sought = [nodes |-> nodes, key |-> key]
  OBVIOUS
<1>5. sought.nodes = nodes /\ sought.key = key
  BY <1>4
<1>6. ToStep!Descends(sought, DOMAIN nodes, depth)
  <2>1. ASSUME NEW p \in DOMAIN nodes, NEW f, NEW g, \A q \in DOMAIN nodes : depth[q] < depth[p] => f[q] = g[q]
        PROVE  DownTo(sought, f, p) = DownTo(sought, g, p)
    <3>1. CASE nodes[p].leaf
      BY <1>5, <3>1 DEF DownTo
    <3>2. CASE ~nodes[p].leaf
      <4>1. PICK at : at = LowerBound(nodes[p].keys, key)
        OBVIOUS
      <4>2. nodes[p].kids[at] \in DOMAIN nodes /\ depth[nodes[p].kids[at]] < depth[p]
        BY <1>3, <3>2, <4>1, ChildIs
      <4>3. f[nodes[p].kids[at]] = g[nodes[p].kids[at]]
        BY <2>1, <4>2
      <4> QED
        BY <1>5, <3>2, <4>1, <4>3 DEF DownTo
    <3> QED
      BY <3>1, <3>2
  <2> QED
    BY <2>1 DEF ToStep!Descends
<1>7. depth \in [DOMAIN nodes -> 0 .. n]
  BY <1>3, ShapedType
<1>8. \E f : ToStep!Solves(f, sought, DOMAIN nodes)
  BY <1>6, <1>7, ToStep!Recursion
<1> DEFINE Down == CHOOSE f : f = [p \in DOMAIN nodes |-> DownTo(sought, f, p)]
<1>9. Down = [p \in DOMAIN nodes |-> DownTo(sought, Down, p)]
  BY <1>8 DEF ToStep!Solves
<1>10. SeekLeaf(tree, key) = Down[tree.root]
  BY <1>1, <1>4 DEF SeekLeaf
<1> HIDE DEF Down
<1>11. \A p \in DOMAIN nodes : Down[p] = DownTo(sought, Down, p)
  BY <1>9
<1>12. \A p \in DOMAIN nodes : nodes[p].leaf => Down[p] = p
  BY <1>5, <1>11 DEF DownTo
<1>13. ASSUME NEW p \in DOMAIN nodes, ~nodes[p].leaf
       PROVE  \E c \in DOMAIN nodes : depth[c] < depth[p] /\ Down[p] = Down[c]
  <2>1. PICK at : at = LowerBound(nodes[p].keys, key)
    OBVIOUS
  <2>2. nodes[p].kids[at] \in DOMAIN nodes /\ depth[nodes[p].kids[at]] < depth[p]
    BY <1>3, <1>13, <2>1, ChildIs
  <2>3. Down[p] = Down[nodes[p].kids[at]]
    BY <1>5, <1>11, <1>13, <2>1 DEF DownTo
  <2> QED
    BY <2>2, <2>3
<1>14. \A p \in DOMAIN nodes : Down[p] \in DOMAIN nodes /\ nodes[Down[p]].leaf
  BY <1>3, <1>12, <1>13, DescentEnds
<1> QED
  BY <1>1, <1>10, <1>14

-----------------------------------------------------------------------------
(* The leaf chain *)

EntryType == [key : Seq(Int), row : Position]

(* The entries of a walk are those of leaves of no more rank than a leaf,  *)
(* and different ones when the leaves have each row once                   *)
WalkIs(walk, nodes, slots, once, rank, r) ==
  /\ walk \in Seq(EntryType)
  /\ \A e \in DOMAIN walk : \E q \in DOMAIN nodes : nodes[q].leaf /\ rank[q] <= r /\
       \E j \in DOMAIN nodes[q].kids : walk[e].row = nodes[q].kids[j]
  /\ once => \A d, e \in DOMAIN walk : walk[d].row = walk[e].row => d = e
  /\ once => \A e \in DOMAIN walk : walk[e].row \in slots

LEMMA EntriesOfLeaf ==
    ASSUME NEW nodes, NEW n, NEW depth, NEW m, NEW rank, Shaped(nodes, n, depth, m, rank),
           NEW p \in DOMAIN nodes, nodes[p].leaf, NEW entries, entries = Entries(nodes[p])
    PROVE  /\ entries \in Seq(EntryType) /\ DOMAIN entries = DOMAIN nodes[p].kids
           /\ \A e \in DOMAIN entries : entries[e].row = nodes[p].kids[e]
<1>1. nodes[p] \in NodeType /\ LeafAt(nodes, rank, p)
  BY DEF Shaped
<1>2. PICK keys \in Seq(Seq(Int)) : keys = nodes[p].keys
  BY <1>1 DEF NodeType
<1>3. PICK kids : kids = nodes[p].kids
  OBVIOUS
<1>4. kids \in Seq(Nat \cup Position)
  BY <1>1, <1>3 DEF NodeType
<1>5. PICK k \in Nat : DOMAIN keys = 1 .. k /\ DOMAIN kids = 1 .. k
  <2>1. Len(kids) = Len(keys)
    BY <1>1, <1>2, <1>3 DEF LeafAt
  <2>2. DOMAIN keys = 1 .. Len(keys) /\ DOMAIN kids = 1 .. Len(kids) /\ Len(keys) \in Nat
    BY <1>4
  <2> QED
    BY <2>1, <2>2
<1>6. \A i \in 1 .. k : keys[i] \in Seq(Int) /\ kids[i] \in Position
  <2>1. \A i \in DOMAIN kids : kids[i] \in Position
    BY <1>1, <1>3 DEF LeafAt
  <2>2. \A i \in DOMAIN keys : keys[i] \in Seq(Int)
    OBVIOUS
  <2> QED
    BY <1>5, <2>1, <2>2
<1>7. entries = [i \in 1 .. k |-> [key |-> keys[i], row |-> kids[i]]]
  BY <1>2, <1>3, <1>5 DEF Entries
<1>8. \A i \in 1 .. k : entries[i] \in EntryType /\ entries[i].row = kids[i]
  BY <1>6, <1>7 DEF EntryType
<1>9. DOMAIN entries = 1 .. k
  BY <1>7
<1>10. entries \in Seq(EntryType)
  <2>1. entries \in [1 .. k -> EntryType]
    BY <1>7, <1>8
  <2> QED
    BY <2>1
<1> QED
  BY <1>3, <1>5, <1>8, <1>9, <1>10

\* A walk is the entries of its first leaf and the walk from the next one.
LEMMA WalkStepIs ==
    ASSUME NEW nodes, NEW n, NEW depth, NEW m, NEW rank, Shaped(nodes, n, depth, m, rank),
           NEW slots, NEW once \in BOOLEAN, once => RowsOnce(nodes, slots),
           NEW p \in DOMAIN nodes, nodes[p].leaf, NEW r \in Int, r < rank[p],
           NEW rest, WalkIs(rest, nodes, slots, once, rank, r),
           NEW walk, walk = Entries(nodes[p]) \o rest
    PROVE  WalkIs(walk, nodes, slots, once, rank, rank[p])
<1>1. PICK first : first = Entries(nodes[p])
  OBVIOUS
<1>2. /\ first \in Seq(EntryType) /\ DOMAIN first = DOMAIN nodes[p].kids
      /\ \A e \in DOMAIN first : first[e].row = nodes[p].kids[e]
  BY <1>1, EntriesOfLeaf
<1>3. /\ rest \in Seq(EntryType)
      /\ \A e \in DOMAIN rest : \E q \in DOMAIN nodes : nodes[q].leaf /\ rank[q] <= r /\
           \E j \in DOMAIN nodes[q].kids : rest[e].row = nodes[q].kids[j]
      /\ once => \A d, e \in DOMAIN rest : rest[d].row = rest[e].row => d = e
      /\ once => \A e \in DOMAIN rest : rest[e].row \in slots
  BY DEF WalkIs
<1>4. PICK a \in Nat : a = Len(first) /\ DOMAIN first = 1 .. a
  BY <1>2
<1>5. PICK b \in Nat : b = Len(rest) /\ DOMAIN rest = 1 .. b
  BY <1>3
<1>6. /\ first \o rest \in Seq(EntryType)
      /\ Len(first \o rest) = Len(first) + Len(rest)
      /\ \A i \in 1 .. Len(first) : (first \o rest)[i] = first[i]
      /\ \A i \in 1 .. Len(rest) : (first \o rest)[Len(first) + i] = rest[i]
  BY <1>2, <1>3, Joined
<1>7. /\ walk \in Seq(EntryType) /\ Len(walk) = a + b
      /\ \A i \in 1 .. a : walk[i] = first[i]
      /\ \A i \in 1 .. b : walk[a + i] = rest[i]
  BY <1>1, <1>4, <1>5, <1>6
<1>8. DOMAIN walk = 1 .. a + b
  BY <1>7
<1>9. rank[p] \in Int /\ \A q \in DOMAIN nodes : rank[q] \in Int
  BY DEF Shaped
<1>10. ASSUME NEW e \in DOMAIN walk
       PROVE  e \in 1 .. a \/ \E i \in 1 .. b : e = a + i
  <2>1. e \in Nat /\ e >= 1 /\ e <= a + b
    BY <1>8
  <2>2. CASE e <= a
    BY <2>1, <2>2
  <2>3. CASE e > a
    <3>1. e - a \in 1 .. b /\ e = a + (e - a)
      BY <2>1, <2>3
    <3> QED
      BY <3>1
  <2> QED
    BY <2>1, <2>2, <2>3
<1>11. ASSUME NEW e \in 1 .. a
       PROVE  e \in DOMAIN nodes[p].kids /\ walk[e].row = nodes[p].kids[e]
  BY <1>2, <1>4, <1>7
<1>12. ASSUME NEW i \in 1 .. b
       PROVE  \E q \in DOMAIN nodes : nodes[q].leaf /\ rank[q] <= r /\
                \E j \in DOMAIN nodes[q].kids : walk[a + i].row = nodes[q].kids[j]
  <2>1. PICK q \in DOMAIN nodes : nodes[q].leaf /\ rank[q] <= r /\
          \E j \in DOMAIN nodes[q].kids : rest[i].row = nodes[q].kids[j]
    BY <1>3, <1>5
  <2> QED
    <3>1. walk[a + i] = rest[i]
      BY <1>7
    <3> QED
      BY <2>1, <3>1
<1>13. ASSUME NEW e \in DOMAIN walk
       PROVE  \E q \in DOMAIN nodes : nodes[q].leaf /\ rank[q] <= rank[p] /\
                \E j \in DOMAIN nodes[q].kids : walk[e].row = nodes[q].kids[j]
  <2>1. CASE e \in 1 .. a
    <3>1. rank[p] <= rank[p]
      BY <1>9
    <3> QED
      BY <1>11, <2>1, <3>1
  <2>2. CASE e \notin 1 .. a
    <3>1. PICK i \in 1 .. b : e = a + i
      BY <1>10, <2>2
    <3>2. PICK q \in DOMAIN nodes : nodes[q].leaf /\ rank[q] <= r /\
            \E j \in DOMAIN nodes[q].kids : walk[a + i].row = nodes[q].kids[j]
      BY <1>12
    <3>3. rank[q] <= rank[p]
      BY <1>9, <3>2
    <3> QED
      BY <3>1, <3>2, <3>3
  <2> QED
    BY <2>1, <2>2
<1>14. ASSUME once, NEW e \in DOMAIN walk PROVE walk[e].row \in slots
  <2>1. PICK q \in DOMAIN nodes : nodes[q].leaf /\
          \E j \in DOMAIN nodes[q].kids : walk[e].row = nodes[q].kids[j]
    BY <1>13
  <2>2. RowsOnce(nodes, slots)
    BY <1>14
  <2> QED
    BY <2>1, <2>2 DEF RowsOnce
<1>15. ASSUME once, NEW i \in 1 .. a, NEW j \in 1 .. b PROVE walk[i].row # walk[a + j].row
  <2>1. PICK q \in DOMAIN nodes : nodes[q].leaf /\ rank[q] <= r /\
          \E k \in DOMAIN nodes[q].kids : walk[a + j].row = nodes[q].kids[k]
    BY <1>12
  <2>2. q # p
    BY <1>9, <2>1
  <2>3. RowsOnce(nodes, slots)
    BY <1>15
  <2>4. i \in DOMAIN nodes[p].kids /\ walk[i].row = nodes[p].kids[i]
    BY <1>11
  <2> QED
    BY <2>1, <2>2, <2>3, <2>4 DEF RowsOnce
<1>16. ASSUME once, NEW d \in DOMAIN walk, NEW e \in DOMAIN walk, walk[d].row = walk[e].row PROVE d = e
  <2>1. CASE d \in 1 .. a /\ e \in 1 .. a
    <3>1. RowsOnce(nodes, slots)
      BY <1>16
    <3>2. nodes[p].kids[d] = nodes[p].kids[e] /\ d \in DOMAIN nodes[p].kids /\ e \in DOMAIN nodes[p].kids
      BY <1>11, <1>16, <2>1
    <3> QED
      BY <3>1, <3>2 DEF RowsOnce
  <2>2. CASE d \in 1 .. a /\ e \notin 1 .. a
    <3>1. PICK j \in 1 .. b : e = a + j
      BY <1>10, <2>2
    <3> QED
      BY <1>15, <1>16, <2>2, <3>1
  <2>3. CASE d \notin 1 .. a /\ e \in 1 .. a
    <3>1. PICK j \in 1 .. b : d = a + j
      BY <1>10, <2>3
    <3> QED
      BY <1>15, <1>16, <2>3, <3>1
  <2>4. CASE d \notin 1 .. a /\ e \notin 1 .. a
    <3>1. PICK i \in 1 .. b : d = a + i
      BY <1>10, <2>4
    <3>2. PICK j \in 1 .. b : e = a + j
      BY <1>10, <2>4
    <3>3. rest[i].row = rest[j].row
      <4>1. walk[a + i] = rest[i] /\ walk[a + j] = rest[j]
        BY <1>7
      <4> QED
        BY <1>16, <3>1, <3>2, <4>1
    <3>4. i = j
      BY <1>3, <1>5, <1>16, <3>3
    <3> QED
      BY <3>1, <3>2, <3>4
  <2> QED
    BY <2>1, <2>2, <2>3, <2>4
<1>17. once => \A e \in DOMAIN walk : walk[e].row \in slots
  BY <1>14
<1>18. once => \A d, e \in DOMAIN walk : walk[d].row = walk[e].row => d = e
  BY <1>16
<1> QED
  BY <1>7, <1>13, <1>17, <1>18 DEF WalkIs

(* What the callers of a scan rely on: the entries are different slots     *)
EntriesAre(entries, slots, once) ==
  /\ entries \in Seq(EntryType)
  /\ once => \A d, e \in DOMAIN entries : entries[d].row = entries[e].row => d = e
  /\ once => \A e \in DOMAIN entries : entries[e].row \in slots

\* Walked from any leaf, the chain comes to an end (btreeRangeScan follows
\* next_leaf until there is none), and it gives each row at most once.
THEOREM EntriesFromIs ==
    ASSUME NEW tree, NEW slots, NEW once \in BOOLEAN, TreeOK(tree, slots, once),
           NEW leaf \in DOMAIN tree.nodes, tree.nodes[leaf].leaf
    PROVE  EntriesAre(EntriesFrom(tree, leaf), slots, once)
<1>1. PICK nodes : nodes = tree.nodes
  OBVIOUS
<1>2. PICK n \in Nat : \E depth : ShapedAs(nodes, n, depth)
  BY <1>1 DEF TreeOK, TreeShaped
<1>3. PICK depth : ShapedAs(nodes, n, depth)
  BY <1>2
<1>4a. PICK m \in Nat : \E rank : Shaped(nodes, n, depth, m, rank)
  BY <1>3 DEF ShapedAs
<1>4. PICK rank : Shaped(nodes, n, depth, m, rank)
  BY <1>4a
<1>5. /\ rank \in [DOMAIN nodes -> 0 .. m] /\ NoPage \notin DOMAIN nodes
      /\ \A p \in DOMAIN nodes : nodes[p].leaf => LeafAt(nodes, rank, p)
      /\ \A p \in DOMAIN nodes : ~nodes[p].leaf => InnerAt(nodes, depth, p)
  <2>1. DOMAIN nodes = 1 .. Len(nodes)
    BY <1>3, ShapedType
  <2> QED
    BY <1>4, <2>1 DEF Shaped, NoPage
<1>6. PICK S : S = DOMAIN nodes \cup {NoPage}
  OBVIOUS
<1>7. PICK far : far = [p \in S |-> IF p = NoPage THEN 0 ELSE rank[p] + 1]
  OBVIOUS
<1>8. far \in [S -> 0 .. m + 1] /\ m + 1 \in Nat
  BY <1>5, <1>6, <1>7
<1>9. ASSUME NEW p \in S, p # NoPage PROVE nodes[p].next \in S /\ far[nodes[p].next] < far[p]
  <2>1. p \in DOMAIN nodes /\ far[p] = rank[p] + 1 /\ rank[p] \in Int
    BY <1>5, <1>6, <1>7, <1>9
  <2>2. CASE nodes[p].next = NoPage
    <3>1. far[NoPage] = 0 /\ rank[p] >= 0
      BY <1>5, <1>6, <1>7, <2>1
    <3> QED
      BY <1>6, <2>1, <2>2, <3>1
  <2>3. CASE nodes[p].next # NoPage
    <3>1. nodes[p].leaf
      BY <1>5, <2>1, <2>3 DEF InnerAt
    <3>2. nodes[p].next \in DOMAIN nodes /\ rank[nodes[p].next] < rank[p]
      BY <1>5, <2>1, <2>3, <3>1 DEF LeafAt
    <3>3. far[nodes[p].next] = rank[nodes[p].next] + 1 /\ rank[nodes[p].next] \in Int
      BY <1>5, <1>6, <1>7, <2>3, <3>2
    <3> QED
      BY <1>6, <2>1, <3>2, <3>3
  <2> QED
    BY <2>2, <2>3
<1>10. WalkStep!Descends(nodes, S, far)
  <2>1. ASSUME NEW p \in S, NEW f, NEW g, \A q \in S : far[q] < far[p] => f[q] = g[q]
        PROVE  Onward(nodes, f, p) = Onward(nodes, g, p)
    <3>1. CASE p = NoPage
      BY <3>1 DEF Onward
    <3>2. CASE p # NoPage
      <4>1. f[nodes[p].next] = g[nodes[p].next]
        BY <1>9, <2>1, <3>2
      <4> QED
        BY <3>2, <4>1 DEF Onward
    <3> QED
      BY <3>1, <3>2
  <2> QED
    BY <2>1 DEF WalkStep!Descends
<1>11. \E f : WalkStep!Solves(f, nodes, S)
  BY <1>8, <1>10, WalkStep!Recursion
<1> DEFINE Walk == CHOOSE f : f = [p \in S |-> Onward(nodes, f, p)]
<1>12. Walk = [p \in S |-> Onward(nodes, Walk, p)]
  BY <1>11 DEF WalkStep!Solves
<1>13. EntriesFrom(tree, leaf) = Walk[leaf]
  BY <1>1, <1>6 DEF EntriesFrom
<1> HIDE DEF Walk
<1>14. Walk[NoPage] = <<>> /\ \A p \in DOMAIN nodes : Walk[p] = Entries(nodes[p]) \o Walk[nodes[p].next]
  <2>1. \A p \in S : Walk[p] = Onward(nodes, Walk, p)
    BY <1>12
  <2> QED
    BY <1>5, <1>6, <2>1 DEF Onward
<1> DEFINE Bad == {p \in DOMAIN nodes : nodes[p].leaf /\ ~WalkIs(Walk[p], nodes, slots, once, rank, rank[p])}
           Low == {rank[p] : p \in Bad}
<1>15. Bad = {}
  <2>1. SUFFICES ASSUME Bad # {} PROVE FALSE
    OBVIOUS
  <2>2. Low \in SUBSET Nat /\ Low # {}
    <3>1. \A p \in DOMAIN nodes : rank[p] \in Nat
      BY <1>5
    <3>2. \A p \in Bad : p \in DOMAIN nodes
      OBVIOUS
    <3> HIDE DEF Bad
    <3> QED
      BY <2>1, <3>1, <3>2
  <2>3. PICK d \in Low : \A e \in Low : d <= e
    BY <2>2, KeepFold!LeastIs
  <2>4. PICK p \in Bad : d = rank[p]
    BY <2>3
  <2>5. p \in DOMAIN nodes /\ nodes[p].leaf /\ LeafAt(nodes, rank, p)
    BY <1>5, <2>4
  <2>6. rank[p] \in Int
    BY <1>5, <2>5
  <2>7. once => RowsOnce(nodes, slots)
    BY <1>1 DEF TreeOK
  <2>8. PICK r \in Int : r < rank[p] /\ WalkIs(Walk[nodes[p].next], nodes, slots, once, rank, r)
    <3>1. CASE nodes[p].next = NoPage
      <4>1. <<>> \in Seq(EntryType) /\ DOMAIN <<>> = {}
        OBVIOUS
      <4>2. WalkIs(<<>>, nodes, slots, once, rank, rank[p] - 1)
        BY <4>1 DEF WalkIs
      <4>3. rank[p] - 1 \in Int /\ rank[p] - 1 < rank[p]
        BY <2>6
      <4> QED
        BY <1>14, <3>1, <4>2, <4>3
    <3>2. CASE nodes[p].next # NoPage
      <4>1. PICK q \in DOMAIN nodes : q = nodes[p].next /\ nodes[q].leaf /\ rank[q] < rank[p]
        BY <2>5, <3>2 DEF LeafAt
      <4>2. rank[q] \in Int
        BY <1>5
      <4>3. q \notin Bad
        BY <2>3, <2>4, <2>6, <4>1, <4>2
      <4>4. WalkIs(Walk[q], nodes, slots, once, rank, rank[q])
        BY <4>1, <4>3
      <4> QED
        BY <4>1, <4>2, <4>4
    <3> QED
      BY <3>1, <3>2
  <2>9. WalkIs(Walk[p], nodes, slots, once, rank, rank[p])
    <3>1. Walk[p] = Entries(nodes[p]) \o Walk[nodes[p].next]
      BY <1>14, <2>5
    <3> QED
      BY <1>4, <2>5, <2>7, <2>8, <3>1, WalkStepIs
  <2> QED
    BY <2>4, <2>9
<1>16. WalkIs(Walk[leaf], nodes, slots, once, rank, rank[leaf])
  BY <1>1, <1>15
<1> QED
  BY <1>13, <1>16 DEF WalkIs, EntriesAre

(* The rows a scan gives are positions, with once different slots          *)
RowsAre(rows, slots, once) ==
  /\ Len(rows) \in Nat /\ DOMAIN rows = 1 .. Len(rows)
  /\ \A i \in DOMAIN rows : rows[i] \in Position
  /\ once => \A i, j \in DOMAIN rows : rows[i] = rows[j] => i = j
  /\ once => \A i \in DOMAIN rows : rows[i] \in slots

LEMMA CollectIs ==
    ASSUME NEW entries, NEW slots, NEW once \in BOOLEAN, EntriesAre(entries, slots, once),
           NEW past \in SUBSET DOMAIN entries, NEW matching, NEW maxRows
    PROVE  RowsAre(Collect(entries, past, matching, maxRows).rows, slots, once)
<1>1. PICK l \in Nat : l = Len(entries) /\ DOMAIN entries = 1 .. l /\ \A i \in 1 .. l : entries[i] \in EntryType
  BY DEF EntriesAre
<1>2a. PICK least : least = CHOOSE i \in past : \A j \in past : i <= j
  OBVIOUS
<1>2. PICK end : end = IF past = {} THEN Len(entries) ELSE least - 1
  OBVIOUS
<1>3. end \in Nat /\ end <= l
  <2>1. CASE past = {}
    BY <1>1, <1>2, <2>1
  <2>2. CASE past # {}
    <3>1. past \in SUBSET Nat
      BY <1>1
    <3>2. \E i \in past : \A j \in past : i <= j
      BY <2>2, <3>1, KeepFold!LeastIs
    <3>3. least \in past
      BY <1>2a, <3>2
    <3>4. least \in 1 .. l
      BY <1>1, <3>3
    <3> QED
      BY <1>2, <2>2, <3>4
  <2> QED
    BY <2>1, <2>2
<1>4. PICK before : before = SubSeq(entries, 1, end)
  OBVIOUS
<1>5. /\ DOMAIN before = 1 .. end /\ \A i \in 1 .. end : before[i] = entries[i] /\ i \in 1 .. l
  <2>1. entries \in Seq(EntryType)
    BY DEF EntriesAre
  <2>2. /\ SubSeq(entries, 1, end) \in Seq(EntryType)
        /\ Len(SubSeq(entries, 1, end)) = end - 1 + 1
        /\ \A i \in 1 .. end - 1 + 1 : SubSeq(entries, 1, end)[i] = entries[1 + i - 1] /\ 1 + i - 1 \in 1 .. Len(entries)
    BY <1>1, <1>3, <2>1, Slice
  <2>3. end - 1 + 1 = end /\ \A i \in 1 .. end : 1 + i - 1 = i
    BY <1>3
  <2> QED
    BY <1>1, <1>4, <2>2, <2>3
<1>6. PICK found : found = Filter(before, matching)
  OBVIOUS
<1>7. found \in Seq(EntryType) /\ PickedFrom(found, before, matching, end)
  <2>1. \A i \in 1 .. end : before[i] \in EntryType
    BY <1>1, <1>5
  <2> QED
    BY <1>3, <1>5, <1>6, <2>1, FilterIs
<1>8. PICK at : Picks(found, at, before, matching, end)
  BY <1>7 DEF PickedFrom
<1>9. PICK k \in Nat : k = Len(found) /\ DOMAIN found = 1 .. k
  BY <1>7
<1>10. \A i \in 1 .. k : at[i] \in 1 .. end /\ found[i] = before[at[i]] /\ found[i] \in EntryType
  BY <1>7, <1>8, <1>9 DEF Picks
<1>11. \A i, j \in 1 .. k : i < j => at[i] < at[j]
  BY <1>8, <1>9 DEF Picks
<1>12. ASSUME NEW i \in 1 .. k, NEW j \in 1 .. k, at[i] = at[j] PROVE i = j
  <2>1. at[i] \in Int /\ at[j] \in Int
    BY <1>3, <1>10
  <2>2. ~(i < j) /\ ~(j < i)
    BY <1>11, <1>12, <2>1
  <2> QED
    BY <2>2
<1>13. PICK rows : rows = [i \in DOMAIN found |-> found[i].row]
  OBVIOUS
<1>14. Collect(entries, past, matching, maxRows).rows = rows
  BY <1>2a, <1>2, <1>4, <1>6, <1>13 DEF Collect
<1>15. DOMAIN rows = 1 .. k /\ \A i \in 1 .. k : rows[i] = found[i].row
  BY <1>9, <1>13
<1>16. Len(rows) = k
  BY <1>13, <1>9
<1>17. \A i \in 1 .. k : rows[i] = entries[at[i]].row /\ at[i] \in DOMAIN entries /\ rows[i] \in Position
  <2>1. \A i \in 1 .. k : found[i].row \in Position
    BY <1>10 DEF EntryType
  <2> QED
    BY <1>1, <1>5, <1>10, <1>15, <2>1
<1>18. once => \A i, j \in 1 .. k : rows[i] = rows[j] => i = j
  BY <1>12, <1>17 DEF EntriesAre
<1>19. once => \A i \in 1 .. k : rows[i] \in slots
  BY <1>17 DEF EntriesAre
<1> QED
  BY <1>14, <1>15, <1>16, <1>17, <1>18, <1>19 DEF RowsAre

LEMMA IndexScanIs ==
    ASSUME NEW tree, NEW slots, NEW once \in BOOLEAN, TreeOK(tree, slots, once), NEW op, NEW value, NEW maxRows
    PROVE  RowsAre(IndexScan(tree, op, value, maxRows).rows, slots, once)
<1>1. PICK target : target = MakeKey(value)
  OBVIOUS
<1>2. PICK leaf : leaf = IF op \in {"<", "<="} THEN LeftmostLeaf(tree) ELSE SeekLeaf(tree, target)
  OBVIOUS
<1>3. leaf \in DOMAIN tree.nodes /\ tree.nodes[leaf].leaf
  BY <1>2, LeftmostIs, SeekIs DEF TreeOK
<1>4. PICK entries : entries = EntriesFrom(tree, leaf)
  OBVIOUS
<1>5. EntriesAre(entries, slots, once)
  BY <1>3, <1>4, EntriesFromIs
<1> DEFINE past == {e \in DOMAIN entries : op \in {"=", "<", "<="} /\ Before(target, entries[e].key)}
           Matches(key) == CASE op = "=" -> key = target
                             [] op \in {"<", "<="} -> ~Before(target, key)
                             [] op \in {">", ">="} -> ~Before(key, target)
           matching == [e \in DOMAIN entries |-> Matches(entries[e].key)]
<1>6. IndexScan(tree, op, value, maxRows) = Collect(entries, past, matching, maxRows)
  BY <1>1, <1>2, <1>4 DEF IndexScan
<1>7. past \in SUBSET DOMAIN entries
  OBVIOUS
<1> HIDE DEF past, matching
<1> QED
  BY <1>5, <1>6, <1>7, CollectIs

LEMMA IndexPrefixScanIs ==
    ASSUME NEW tree, NEW slots, NEW once \in BOOLEAN, TreeOK(tree, slots, once), NEW prefix, NEW maxRows
    PROVE  RowsAre(IndexPrefixScan(tree, prefix, maxRows).rows, slots, once)
<1>1. PICK target : target = MakeKey(prefix)
  OBVIOUS
<1>2. PICK leaf : leaf = SeekLeaf(tree, target)
  OBVIOUS
<1>3. leaf \in DOMAIN tree.nodes /\ tree.nodes[leaf].leaf
  BY <1>2, SeekIs DEF TreeOK
<1>4. PICK entries : entries = EntriesFrom(tree, leaf)
  OBVIOUS
<1>5. EntriesAre(entries, slots, once)
  BY <1>3, <1>4, EntriesFromIs
<1> DEFINE past == {e \in DOMAIN entries : Before(target, entries[e].key) /\ ~IsPrefix(target, entries[e].key)}
           matching == [e \in DOMAIN entries |-> IsPrefix(target, entries[e].key)]
<1>6. IndexPrefixScan(tree, prefix, maxRows) = Collect(entries, past, matching, maxRows)
  BY <1>1, <1>2, <1>4 DEF IndexPrefixScan
<1>7. past \in SUBSET DOMAIN entries
  OBVIOUS
<1> HIDE DEF past, matching
<1> QED
  BY <1>5, <1>6, <1>7, CollectIs

SizeFold == INSTANCE Folding WITH Op <- AddField, Step <- NoStep
PageFold == INSTANCE Folding WITH Op <- TakePage, Step <- NoStep
CountFold == INSTANCE Folding WITH Op <- CountPage, Step <- NoStep
RoomFold == INSTANCE Folding WITH Op <- TakeRoom, Step <- NoStep

-----------------------------------------------------------------------------
(* The heap *)

PageType(S) == [slots : Seq(S \cup {Gone}), free : Int]

(* A heap whose rows are in S *)
HeapIn(heap, S) ==
  /\ heap.pages \in Seq(PageType(S))
  /\ heap = [pages |-> heap.pages, nlive |-> heap.nlive, nslots |-> heap.nslots]

Pos(p, s) == <<p, s>>

All(heap) ==
  {position \in Position : /\ position[1] \in DOMAIN heap.pages
                           /\ position[2] \in DOMAIN heap.pages[position[1]].slots}

LiveIn(heap) == {position \in All(heap) : HeapRead(heap, position) # Gone}

LEMMA PosIs ==
    /\ \A p, s \in Nat : Pos(p, s) \in Position /\ Pos(p, s)[1] = p /\ Pos(p, s)[2] = s
    /\ \A position \in Position : /\ position[1] \in Nat /\ position[2] \in Nat
                                  /\ position = Pos(position[1], position[2])
    /\ \A p, s, q, u : Pos(p, s) = Pos(q, u) => p = q /\ s = u
BY DEF Pos, Position

LEMMA PageFacts ==
    ASSUME NEW S, NEW heap, HeapIn(heap, S)
    PROVE  /\ Len(heap.pages) \in Nat /\ DOMAIN heap.pages = 1 .. Len(heap.pages)
           /\ \A p \in DOMAIN heap.pages :
                /\ heap.pages[p] \in PageType(S)
                /\ heap.pages[p].slots \in Seq(S \cup {Gone}) /\ heap.pages[p].free \in Int
                /\ Len(heap.pages[p].slots) \in Nat
                /\ DOMAIN heap.pages[p].slots = 1 .. Len(heap.pages[p].slots)
                /\ \A s \in DOMAIN heap.pages[p].slots : heap.pages[p].slots[s] \in S \cup {Gone}
<1>1. Len(heap.pages) \in Nat /\ DOMAIN heap.pages = 1 .. Len(heap.pages)
  BY DEF HeapIn
<1>2. ASSUME NEW p \in DOMAIN heap.pages
      PROVE  /\ heap.pages[p] \in PageType(S)
             /\ heap.pages[p].slots \in Seq(S \cup {Gone}) /\ heap.pages[p].free \in Int
  <2>1. PICK T : T = PageType(S)
    OBVIOUS
  <2>2. heap.pages \in Seq(T)
    BY <2>1 DEF HeapIn
  <2>3. heap.pages[p] \in T
    BY <2>2
  <2> QED
    BY <2>1, <2>3 DEF PageType
<1>3. ASSUME NEW p \in DOMAIN heap.pages
      PROVE  /\ Len(heap.pages[p].slots) \in Nat
             /\ DOMAIN heap.pages[p].slots = 1 .. Len(heap.pages[p].slots)
             /\ \A s \in DOMAIN heap.pages[p].slots : heap.pages[p].slots[s] \in S \cup {Gone}
  <2>1. PICK slots \in Seq(S \cup {Gone}) : slots = heap.pages[p].slots
    BY <1>2
  <2> QED
    BY <2>1
<1> QED
  BY <1>1, <1>2, <1>3

(* The positions of each page, page by page *)
ByPage(heap) == [p \in DOMAIN heap.pages |-> [s \in DOMAIN heap.pages[p].slots |-> Pos(p, s)]]

LEMMA SlotsAreFold == ASSUME NEW heap PROVE Slots(heap) = PageFold!Folded(<<>>, ByPage(heap))
BY DEF Slots, ByPage, Pos, FoldLeft, MapThenFoldSet, Max,
       PageFold!Folded, PageFold!MapThenFoldSet, PageFold!Greatest

LEMMA ByPageIs ==
    ASSUME NEW S, NEW heap, HeapIn(heap, S)
    PROVE  /\ DOMAIN ByPage(heap) = 1 .. Len(heap.pages)
           /\ \A p \in 1 .. Len(heap.pages) :
                /\ ByPage(heap)[p] \in Seq(Position)
                /\ Len(ByPage(heap)[p]) = Len(heap.pages[p].slots)
                /\ \A s \in DOMAIN heap.pages[p].slots : ByPage(heap)[p][s] = Pos(p, s)
<1>1. DOMAIN ByPage(heap) = 1 .. Len(heap.pages)
  BY PageFacts DEF ByPage
<1>2. ASSUME NEW p \in 1 .. Len(heap.pages)
      PROVE  /\ ByPage(heap)[p] \in Seq(Position)
             /\ Len(ByPage(heap)[p]) = Len(heap.pages[p].slots)
             /\ \A s \in DOMAIN heap.pages[p].slots : ByPage(heap)[p][s] = Pos(p, s)
  <2>1. PICK n \in Nat : n = Len(heap.pages[p].slots) /\ DOMAIN heap.pages[p].slots = 1 .. n /\ p \in Nat
    <3>1. DOMAIN heap.pages = 1 .. Len(heap.pages) /\ Len(heap.pages) \in Nat
      BY PageFacts
    <3>2. p \in DOMAIN heap.pages
      BY <3>1
    <3>3. Len(heap.pages[p].slots) \in Nat /\ DOMAIN heap.pages[p].slots = 1 .. Len(heap.pages[p].slots)
      BY <3>2, PageFacts
    <3> QED
      BY <3>1, <3>3
  <2>2. PICK seq : seq = [s \in 1 .. n |-> Pos(p, s)]
    OBVIOUS
  <2>3. ByPage(heap)[p] = seq
    BY <2>1, <2>2, PageFacts DEF ByPage
  <2>4. \A s \in 1 .. n : Pos(p, s) \in Position
    BY <2>1, PosIs
  <2>5. seq \in Seq(Position) /\ Len(seq) = n
    BY <2>1, <2>2, <2>4
  <2> QED
    BY <2>1, <2>2, <2>3, <2>5
<1> QED
  BY <1>1, <1>2

(* A sequence of the positions of a set, each once *)
Enumerates(seq, set) ==
  /\ seq \in Seq(Position)
  /\ \A i, j \in 1 .. Len(seq) : seq[i] = seq[j] => i = j
  /\ \A i \in 1 .. Len(seq) : seq[i] \in set
  /\ \A x \in set : \E i \in 1 .. Len(seq) : seq[i] = x

UpTo(heap, k) == {position \in All(heap) : position[1] <= k}

LEMMA NextPage ==
    ASSUME NEW S, NEW heap, HeapIn(heap, S), NEW k \in 1 .. Len(heap.pages),
           NEW seq, Enumerates(seq, UpTo(heap, k - 1))
    PROVE  Enumerates(TakePage(seq, ByPage(heap)[k]), UpTo(heap, k))
<1>1. PICK l \in Nat : l = Len(seq)
  BY DEF Enumerates
<1>3. k \in Nat /\ k \in DOMAIN heap.pages /\ k - 1 \in Int
  <2>1. DOMAIN heap.pages = 1 .. Len(heap.pages) /\ Len(heap.pages) \in Nat
    BY PageFacts
  <2> QED
    BY <2>1
<1>2. PICK n \in Nat : n = Len(heap.pages[k].slots) /\ DOMAIN heap.pages[k].slots = 1 .. n
  <2>1. Len(heap.pages[k].slots) \in Nat /\ DOMAIN heap.pages[k].slots = 1 .. Len(heap.pages[k].slots)
    BY <1>3, PageFacts
  <2> QED
    BY <2>1
<1>4. PICK page : page = ByPage(heap)[k]
  OBVIOUS
<1>5. page \in Seq(Position) /\ Len(page) = n /\ \A s \in 1 .. n : page[s] = Pos(k, s)
  BY <1>2, <1>4, ByPageIs
<1>6. PICK all : all = seq \o page
  OBVIOUS
<1>7. seq \in Seq(Position)
  BY DEF Enumerates
<1>8. all \in Seq(Position) /\ Len(all) = l + n
  BY <1>1, <1>5, <1>6, <1>7, Joined
<1>8a. \A i \in 1 .. l : all[i] = seq[i]
  BY <1>1, <1>5, <1>6, <1>7, Joined
<1>8b. \A i \in 1 .. n : all[l + i] = Pos(k, i)
  BY <1>1, <1>5, <1>6, <1>7, Joined
<1>9. \A i \in 1 .. l + n : i \in 1 .. l \/ \E s \in 1 .. n : i = l + s
  <2>1. ASSUME NEW i \in 1 .. l + n, i \notin 1 .. l PROVE i - l \in 1 .. n /\ i = l + (i - l)
    BY <2>1
  <2> QED
    BY <2>1
<1>10. \A i \in 1 .. l : seq[i] \in All(heap) /\ seq[i][1] <= k - 1 /\ seq[i] \in Position /\ seq[i][1] \in Nat
  BY <1>1, PosIs DEF Enumerates, UpTo, All
<1>11. \A s \in 1 .. n : Pos(k, s) \in All(heap) /\ Pos(k, s)[1] = k
  <2>1. ASSUME NEW s \in 1 .. n PROVE Pos(k, s) \in All(heap) /\ Pos(k, s)[1] = k
    <3>1. s \in Nat /\ s \in DOMAIN heap.pages[k].slots
      BY <1>2
    <3>2. Pos(k, s) \in Position /\ Pos(k, s)[1] = k /\ Pos(k, s)[2] = s
      BY <1>3, <3>1, PosIs
    <3> QED
      BY <1>3, <3>1, <3>2 DEF All
  <2> QED
    BY <2>1
<1>12. ASSUME NEW i \in 1 .. l + n, NEW j \in 1 .. l + n, all[i] = all[j] PROVE i = j
  <2>1. CASE i \in 1 .. l /\ j \in 1 .. l
    BY <1>1, <1>8a, <1>12, <2>1 DEF Enumerates
  <2>2. ASSUME NEW a \in 1 .. l, NEW s \in 1 .. n, all[a] = all[l + s] PROVE FALSE
    <3>1. seq[a] = Pos(k, s)
      BY <1>8a, <1>8b, <2>2
    <3> QED
      BY <1>3, <1>10, <1>11, <3>1
  <2>3. ASSUME NEW s \in 1 .. n, NEW u \in 1 .. n, i = l + s, j = l + u PROVE i = j
    <3>1. Pos(k, s) = Pos(k, u)
      BY <1>8b, <1>12, <2>3
    <3> QED
      BY <2>3, <3>1, PosIs
  <2> QED
    BY <1>9, <1>12, <2>1, <2>2, <2>3
<1>13. ASSUME NEW i \in 1 .. l + n PROVE all[i] \in UpTo(heap, k)
  <2>1. CASE i \in 1 .. l
    <3>1. all[i] \in All(heap) /\ all[i][1] <= k - 1 /\ all[i][1] \in Nat
      BY <1>8a, <1>10, <2>1
    <3> QED
      BY <1>3, <3>1 DEF UpTo
  <2>2. ASSUME NEW s \in 1 .. n, i = l + s PROVE all[i] \in UpTo(heap, k)
    <3>1. all[i] \in All(heap) /\ all[i][1] = k
      BY <1>8b, <1>11, <2>2
    <3> QED
      BY <1>3, <3>1 DEF UpTo
  <2> QED
    BY <1>9, <2>1, <2>2
<1>14. ASSUME NEW x \in UpTo(heap, k) PROVE \E i \in 1 .. l + n : all[i] = x
  <2>1. x \in All(heap) /\ x[1] <= k /\ x \in Position /\ x[1] \in Nat /\ x[2] \in Nat /\ x = Pos(x[1], x[2])
    BY PosIs DEF UpTo, All
  <2>2. CASE x[1] = k
    <3>1. x[2] \in 1 .. n /\ x = Pos(k, x[2])
      BY <1>2, <2>1, <2>2 DEF All
    <3>2. l + x[2] \in 1 .. l + n /\ all[l + x[2]] = x
      BY <1>8b, <3>1
    <3> QED
      BY <3>2
  <2>3. CASE x[1] # k
    <3>1. x \in UpTo(heap, k - 1)
      BY <1>3, <2>1, <2>3 DEF UpTo
    <3>2. PICK i \in 1 .. l : seq[i] = x
      BY <1>1, <3>1 DEF Enumerates
    <3> QED
      BY <1>8a, <3>2
  <2> QED
    BY <2>2, <2>3
<1>15. TakePage(seq, ByPage(heap)[k]) = all
  BY <1>4, <1>6 DEF TakePage
<1> QED
  BY <1>8, <1>12, <1>13, <1>14, <1>15 DEF Enumerates

\* heapFirst and heapNext give every slot once.
LEMMA SlotsAre ==
    ASSUME NEW S, NEW heap, HeapIn(heap, S)
    PROVE  Enumerates(Slots(heap), All(heap))
<1>1. PICK n \in Nat : n = Len(heap.pages) /\ DOMAIN heap.pages = 1 .. n
  BY PageFacts
<1>2. DOMAIN ByPage(heap) = 1 .. n
  BY <1>1, ByPageIs
<1>3. PICK r : PageFold!Stages(r, <<>>, n, ByPage(heap))
  BY <1>2, PageFold!FoldSteps
<1> DEFINE Bad == {k \in 0 .. n : ~Enumerates(r[k], UpTo(heap, k))}
<1>4. 0 \notin Bad
  <2>1. r[0] = <<>>
    BY <1>3 DEF PageFold!Stages
  <2>2. ASSUME NEW x \in UpTo(heap, 0) PROVE FALSE
    <3>1. x[1] \in 1 .. n /\ x[1] <= 0
      BY <1>1 DEF UpTo, All
    <3> QED
      BY <3>1
  <2>3. <<>> \in Seq(Position) /\ Len(<<>>) = 0
    OBVIOUS
  <2>4. Enumerates(<<>>, UpTo(heap, 0))
    <3> HIDE DEF Bad
    <3> QED
      BY <2>2, <2>3 DEF Enumerates
  <2> QED
    BY <2>1, <2>4
<1>5. ASSUME NEW k \in 1 .. n, k \in Bad PROVE k - 1 \in Bad
  <2>1. SUFFICES ASSUME k - 1 \notin Bad PROVE FALSE
    OBVIOUS
  <2>2. k - 1 \in 0 .. n
    OBVIOUS
  <2>3. Enumerates(r[k - 1], UpTo(heap, k - 1))
    BY <2>1, <2>2
  <2>4. r[k] = TakePage(r[k - 1], ByPage(heap)[k])
    BY <1>3 DEF PageFold!Stages
  <2>5. Enumerates(r[k], UpTo(heap, k))
    BY <1>1, <2>3, <2>4, NextPage
  <2> QED
    BY <1>5, <2>5
<1>6. Bad = {}
  <2>1. Bad \in SUBSET (0 .. n)
    OBVIOUS
  <2> HIDE DEF Bad
  <2> QED
    BY <1>4, <1>5, <2>1, PageFold!Climb
<1>7. Enumerates(r[n], UpTo(heap, n))
  BY <1>6
<1>8. UpTo(heap, n) = All(heap)
  <2>1. ASSUME NEW x \in All(heap) PROVE x[1] <= n
    <3>1. x[1] \in 1 .. n
      BY <1>1 DEF All
    <3> QED
      BY <3>1
  <2> QED
    BY <2>1 DEF UpTo
<1>9. Slots(heap) = r[n]
  BY <1>3, SlotsAreFold DEF PageFold!Stages
<1> QED
  BY <1>7, <1>8, <1>9

LEMMA AppendJoined ==
    ASSUME NEW S, NEW s \in Seq(S), NEW t \in Seq(S), NEW x \in S
    PROVE  s \o Append(t, x) = Append(s \o t, x)
OBVIOUS

LEMMA JoinedEmpty == ASSUME NEW S, NEW s \in Seq(S) PROVE s \o <<>> = s
OBVIOUS

(* front has the pages of heap but the last *)
ButLast(front, heap) ==
  /\ Len(heap.pages) # 0 /\ Len(front.pages) = Len(heap.pages) - 1
  /\ \A p \in 1 .. Len(heap.pages) - 1 : front.pages[p] = heap.pages[p]

\* The slots of the last page come last.
LEMMA SlotsLast ==
    ASSUME NEW S, NEW heap, HeapIn(heap, S), NEW front, HeapIn(front, S), ButLast(front, heap)
    PROVE  Slots(heap) = Slots(front) \o ByPage(heap)[Len(heap.pages)]
<1>0. PICK n \in Nat : n = Len(heap.pages)
  BY PageFacts
<1>1. DOMAIN ByPage(heap) = 1 .. n /\ DOMAIN ByPage(front) = 1 .. n - 1 /\ n # 0
  BY <1>0, ByPageIs DEF ButLast
<1>2. \A p \in 1 .. n - 1 : ByPage(front)[p] = ByPage(heap)[p]
  <2>1. ASSUME NEW p \in 1 .. n - 1 PROVE ByPage(front)[p] = ByPage(heap)[p]
    <3>1. p \in DOMAIN heap.pages /\ p \in DOMAIN front.pages
      <4>1. DOMAIN heap.pages = 1 .. n /\ DOMAIN front.pages = 1 .. n - 1
        BY <1>0, PageFacts DEF ButLast
      <4> QED
        BY <4>1
    <3>2. front.pages[p] = heap.pages[p]
      BY <1>0 DEF ButLast
    <3> QED
      BY <3>1, <3>2 DEF ByPage
  <2> QED
    BY <2>1
<1>4. PageFold!Folded(<<>>, ByPage(heap)) = TakePage(PageFold!Folded(<<>>, ByPage(front)), ByPage(heap)[n])
  BY <1>1, <1>2, PageFold!FoldLast
<1> QED
  BY <1>0, <1>4, SlotsAreFold DEF TakePage

(* The heap with other pages, or only its first ones *)
WithPages(heap, pages) == [pages |-> pages, nlive |-> heap.nlive, nslots |-> heap.nslots]

LEMMA WithPagesIs ==
    ASSUME NEW S, NEW heap, NEW pages \in Seq(PageType(S))
    PROVE  HeapIn(WithPages(heap, pages), S) /\ WithPages(heap, pages).pages = pages
BY DEF HeapIn, WithPages

FrontOf(heap) == WithPages(heap, SubSeq(heap.pages, 1, Len(heap.pages) - 1))

LEMMA FrontIs ==
    ASSUME NEW S, NEW heap, HeapIn(heap, S), Len(heap.pages) # 0
    PROVE  HeapIn(FrontOf(heap), S) /\ ButLast(FrontOf(heap), heap)
<1>1. PICK T : T = PageType(S)
  OBVIOUS
<1>2. heap.pages \in Seq(T)
  BY <1>1 DEF HeapIn
<1>3. PICK n \in Nat : n = Len(heap.pages)
  BY <1>2
<1>4. /\ SubSeq(heap.pages, 1, n - 1) \in Seq(T) /\ Len(SubSeq(heap.pages, 1, n - 1)) = n - 1
      /\ \A i \in 1 .. n - 1 : SubSeq(heap.pages, 1, n - 1)[i] = heap.pages[i]
  <2>1. n - 1 \in Nat
    BY <1>3
  <2>2. \A i \in 1 .. n - 1 : heap.pages[i] \in T
    BY <1>2, <1>3
  <2>3. PICK m \in Nat : m = n - 1
    BY <2>1
  <2> QED
    BY <1>2, <1>3, <2>1, <2>2, <2>3
<1> QED
  BY <1>1, <1>3, <1>4, WithPagesIs DEF FrontOf, ButLast

\* A fresh page holds no slot.
LEMMA FreshPage ==
    ASSUME NEW S, NEW heap, HeapIn(heap, S), NEW free \in Int,
           NEW ready, ready = WithPages(heap, Append(heap.pages, [slots |-> <<>>, free |-> free]))
    PROVE  /\ HeapIn(ready, S) /\ Len(ready.pages) = Len(heap.pages) + 1
           /\ Slots(ready) = Slots(heap) /\ All(ready) = All(heap)
           /\ \A x \in All(heap) : HeapRead(ready, x) = HeapRead(heap, x)
           /\ ready.pages[Len(heap.pages) + 1].slots = <<>>
           /\ ready.pages[Len(heap.pages) + 1].free = free
           /\ \A p \in DOMAIN heap.pages : ready.pages[p] = heap.pages[p]
<1>1. PICK T : T = PageType(S)
  OBVIOUS
<1>2. PICK page : page = [slots |-> <<>>, free |-> free]
  OBVIOUS
<1>3. page \in T /\ page.slots = <<>> /\ page.free = free
  <2>1. <<>> \in Seq(S \cup {Gone})
    OBVIOUS
  <2> QED
    BY <1>1, <1>2, <2>1 DEF PageType
<1>4. heap.pages \in Seq(T)
  BY <1>1 DEF HeapIn
<1>5. PICK n \in Nat : n = Len(heap.pages) /\ DOMAIN heap.pages = 1 .. n
  BY <1>4
<1>6. PICK pages : pages = Append(heap.pages, page)
  OBVIOUS
<1>7. /\ pages \in Seq(T) /\ Len(pages) = n + 1 /\ DOMAIN pages = 1 .. n + 1
      /\ pages[n + 1] = page /\ \A i \in 1 .. n : pages[i] = heap.pages[i]
  <2>1. /\ Append(heap.pages, page) \in Seq(T) /\ Len(Append(heap.pages, page)) = Len(heap.pages) + 1
        /\ DOMAIN Append(heap.pages, page) = 1 .. Len(heap.pages) + 1
        /\ Append(heap.pages, page)[Len(heap.pages) + 1] = page
        /\ \A i \in 1 .. Len(heap.pages) : Append(heap.pages, page)[i] = heap.pages[i]
    BY <1>3, <1>4, Appended
  <2> QED
    BY <1>5, <1>6, <2>1
<1>8. HeapIn(ready, S) /\ ready.pages = pages
  <2>1. ready = WithPages(heap, pages)
    BY <1>2, <1>6
  <2>2. pages \in Seq(PageType(S))
    BY <1>1, <1>7
  <2> QED
    BY <2>1, <2>2, WithPagesIs
<1>9. ByPage(ready)[n + 1] = <<>>
  <2>1. n + 1 \in DOMAIN pages /\ ready.pages[n + 1].slots = <<>> /\ DOMAIN (<<>>) = {}
    BY <1>3, <1>5, <1>7, <1>8
  <2>2. ByPage(ready)[n + 1] = [s \in DOMAIN (<<>>) |-> Pos(n + 1, s)]
    BY <1>8, <2>1 DEF ByPage
  <2> QED
    BY <2>1, <2>2
<1>10. Slots(ready) = Slots(heap) \o <<>>
  <2>1. Len(ready.pages) = n + 1 /\ Len(ready.pages) - 1 = n
    BY <1>5, <1>7, <1>8
  <2>2. ButLast(heap, ready)
    BY <1>5, <1>7, <1>8, <2>1 DEF ButLast
  <2>3. Slots(ready) = Slots(heap) \o ByPage(ready)[n + 1]
    BY <1>8, <2>1, <2>2, SlotsLast
  <2> QED
    BY <1>9, <2>3
<1>11. Slots(heap) \in Seq(Position)
  BY SlotsAre DEF Enumerates
<1>12. Slots(ready) = Slots(heap)
  BY <1>10, <1>11, JoinedEmpty
<1>13. \A x \in Position : x \in All(ready) <=> x \in All(heap)
  <2>1. ASSUME NEW x \in Position PROVE x \in All(ready) <=> x \in All(heap)
    <3>1. CASE x[1] \in 1 .. n
      <4>1. ready.pages[x[1]] = heap.pages[x[1]] /\ x[1] \in 1 .. n + 1
        BY <1>7, <1>8, <3>1, <1>5
      <4> QED
        BY <1>5, <1>7, <1>8, <3>1, <4>1 DEF All
    <3>2. CASE x[1] = n + 1
      <4>1. DOMAIN ready.pages[x[1]].slots = {}
        BY <1>3, <1>7, <1>8, <3>2
      <4>2. x[1] \notin 1 .. n
        BY <3>2
      <4> QED
        BY <1>5, <4>1, <4>2 DEF All
    <3>3. CASE x[1] \notin 1 .. n /\ x[1] # n + 1
      <4>1. x[1] \notin 1 .. n + 1
        BY <3>3
      <4> QED
        BY <1>5, <1>7, <1>8, <3>3, <4>1 DEF All
    <3> QED
      BY <3>1, <3>2, <3>3
  <2> QED
    BY <2>1
<1>14. All(ready) = All(heap)
  <2>1. \A x \in All(ready) : x \in Position
    BY DEF All
  <2>2. \A x \in All(heap) : x \in Position
    BY DEF All
  <2> QED
    BY <1>13, <2>1, <2>2
<1>15. \A x \in All(heap) : HeapRead(ready, x) = HeapRead(heap, x)
  <2>1. \A x \in All(heap) : ready.pages[x[1]] = heap.pages[x[1]]
    BY <1>5, <1>7, <1>8 DEF All
  <2> QED
    BY <2>1 DEF HeapRead
<1> QED
  BY <1>3, <1>5, <1>7, <1>8, <1>12, <1>14, <1>15

(* new is heap with row at a position that was no slot of it *)
Stored(heap, row, at, new) ==
  /\ at \in Position /\ at \notin All(heap)
  /\ All(new) = All(heap) \cup {at}
  /\ HeapRead(new, at) = row
  /\ \A x \in All(heap) : HeapRead(new, x) = HeapRead(heap, x)
  /\ Slots(new) = Append(Slots(heap), at)

PutLast(page, row, free) == [slots |-> Append(page.slots, row), free |-> free]

\* A row after the others of the last page.
LEMMA LastPage ==
    ASSUME NEW S, NEW heap, HeapIn(heap, S), NEW n \in Nat \ {0}, n = Len(heap.pages),
           NEW row \in S, NEW free \in Int,
           NEW new, HeapIn(new, S),
           new.pages = [heap.pages EXCEPT ![n] = PutLast(heap.pages[n], row, free)]
    PROVE  /\ Stored(heap, row, Pos(n, Len(heap.pages[n].slots) + 1), new)
           /\ new.pages[n].free = free
           /\ Len(new.pages) = n /\ \A p \in 1 .. n : p # n => new.pages[p] = heap.pages[p]
<1>1. DOMAIN heap.pages = 1 .. n /\ n \in DOMAIN heap.pages
  <2>1. DOMAIN heap.pages = 1 .. n
    BY PageFacts
  <2> QED
    BY <2>1
<1>2. PICK m \in Nat : m = Len(heap.pages[n].slots) /\ DOMAIN heap.pages[n].slots = 1 .. m
  <2>1. Len(heap.pages[n].slots) \in Nat /\ DOMAIN heap.pages[n].slots = 1 .. Len(heap.pages[n].slots)
    BY <1>1, PageFacts
  <2> QED
    BY <2>1
<1>3. PICK at : at = Pos(n, m + 1)
  OBVIOUS
<1>4. at \in Position /\ at[1] = n /\ at[2] = m + 1
  BY <1>2, <1>3, PosIs
<1>5. PICK slots : slots = Append(heap.pages[n].slots, row)
  OBVIOUS
<1>6. PICK R : R = S \cup {Gone}
  OBVIOUS
<1>7. /\ slots \in Seq(R) /\ Len(slots) = m + 1 /\ DOMAIN slots = 1 .. m + 1
      /\ slots[m + 1] = row /\ \A i \in 1 .. m : slots[i] = heap.pages[n].slots[i]
  <2>1. PICK old : old = heap.pages[n].slots
    OBVIOUS
  <2>2. old \in Seq(R) /\ row \in R
    BY <1>1, <1>6, <2>1, PageFacts
  <2>3. /\ Append(old, row) \in Seq(R) /\ Len(Append(old, row)) = Len(old) + 1
        /\ DOMAIN Append(old, row) = 1 .. Len(old) + 1
        /\ Append(old, row)[Len(old) + 1] = row /\ \A i \in 1 .. Len(old) : Append(old, row)[i] = old[i]
    BY <2>2, Appended
  <2> QED
    BY <1>2, <1>5, <2>1, <2>3
<1>8. /\ DOMAIN new.pages = 1 .. n /\ Len(new.pages) = n
      /\ new.pages[n] = PutLast(heap.pages[n], row, free)
      /\ \A p \in 1 .. n : p # n => new.pages[p] = heap.pages[p]
  <2>1. /\ DOMAIN new.pages = 1 .. n
        /\ new.pages[n] = PutLast(heap.pages[n], row, free)
        /\ \A p \in 1 .. n : p # n => new.pages[p] = heap.pages[p]
    BY <1>1
  <2>2. DOMAIN new.pages = 1 .. Len(new.pages) /\ Len(new.pages) \in Nat
    BY PageFacts
  <2>3. Len(new.pages) = n
    BY <2>1, <2>2
  <2> QED
    BY <2>1, <2>3
<1>9. new.pages[n].slots = slots /\ new.pages[n].free = free
  BY <1>5, <1>8 DEF PutLast
<1>10. \A x \in Position : x \in All(new) <=> x \in All(heap) \/ x = at
  <2>1. ASSUME NEW x \in Position PROVE x \in All(new) <=> x \in All(heap) \/ x = at
    <3>1. x[1] \in Nat /\ x[2] \in Nat /\ x = Pos(x[1], x[2])
      BY PosIs
    <3>2. CASE x[1] # n
      <4>1. x # at
        BY <1>4, <3>2
      <4> QED
        BY <1>1, <1>8, <3>2, <4>1 DEF All
    <3>3. CASE x[1] = n
      <4>1. x \in All(new) <=> x[2] \in 1 .. m + 1
        BY <1>1, <1>7, <1>8, <1>9, <3>3 DEF All
      <4>2. x \in All(heap) <=> x[2] \in 1 .. m
        BY <1>1, <1>2, <3>3 DEF All
      <4>3. x = at <=> x[2] = m + 1
        BY <1>3, <1>4, <3>1, <3>3
      <4> QED
        BY <3>1, <4>1, <4>2, <4>3
    <3> QED
      BY <3>2, <3>3
  <2> QED
    BY <2>1
<1>11. at \notin All(heap)
  <2>1. m + 1 \notin 1 .. m
    OBVIOUS
  <2> QED
    BY <1>2, <1>4, <2>1 DEF All
<1>12. All(new) = All(heap) \cup {at}
  <2>1. \A x \in All(new) : x \in Position
    BY DEF All
  <2>2. \A x \in All(heap) : x \in Position
    BY DEF All
  <2> QED
    BY <1>4, <1>10, <2>1, <2>2
<1>13. HeapRead(new, at) = row
  BY <1>4, <1>7, <1>9 DEF HeapRead
<1>14. ASSUME NEW x \in All(heap) PROVE HeapRead(new, x) = HeapRead(heap, x)
  <2>1. CASE x[1] # n
    BY <1>1, <1>8, <2>1 DEF HeapRead, All
  <2>2. CASE x[1] = n
    <3>1. x[2] \in 1 .. m
      BY <1>2, <2>2 DEF All
    <3> QED
      BY <1>7, <1>9, <2>2, <3>1 DEF HeapRead
  <2> QED
    BY <2>1, <2>2
<1>15. Slots(new) = Append(Slots(heap), at)
  <2>1. PICK front : front = FrontOf(heap)
    OBVIOUS
  <2>2. HeapIn(front, S) /\ ButLast(front, heap)
    <3>1. Len(heap.pages) # 0
      OBVIOUS
    <3> QED
      BY <2>1, <3>1, FrontIs
  <2>3. ButLast(front, new)
    <3>1. \A p \in 1 .. n - 1 : p \in 1 .. n /\ p # n
      OBVIOUS
    <3> QED
      BY <1>8, <2>2, <3>1 DEF ButLast
  <2>4. Slots(heap) = Slots(front) \o ByPage(heap)[n]
    BY <2>2, SlotsLast
  <2>5. Slots(new) = Slots(front) \o ByPage(new)[n]
    BY <1>8, <2>2, <2>3, SlotsLast
  <2>6. PICK page : page = ByPage(heap)[n]
    OBVIOUS
  <2>7. page \in Seq(Position) /\ Len(page) = m /\ \A s \in 1 .. m : page[s] = Pos(n, s)
    <3>1. n \in 1 .. Len(heap.pages)
      OBVIOUS
    <3>2. /\ ByPage(heap)[n] \in Seq(Position) /\ Len(ByPage(heap)[n]) = Len(heap.pages[n].slots)
          /\ \A s \in DOMAIN heap.pages[n].slots : ByPage(heap)[n][s] = Pos(n, s)
      BY <3>1, ByPageIs
    <3> QED
      BY <1>2, <2>6, <3>2
  <2>8. PICK wider : wider = ByPage(new)[n]
    OBVIOUS
  <2>9. wider \in Seq(Position) /\ Len(wider) = m + 1 /\ \A s \in 1 .. m + 1 : wider[s] = Pos(n, s)
    <3>1. n \in 1 .. Len(new.pages)
      BY <1>8
    <3>2. /\ ByPage(new)[n] \in Seq(Position) /\ Len(ByPage(new)[n]) = Len(new.pages[n].slots)
          /\ \A s \in DOMAIN new.pages[n].slots : ByPage(new)[n][s] = Pos(n, s)
      BY <3>1, ByPageIs
    <3> QED
      BY <1>7, <1>9, <2>8, <3>2
  <2>10. wider = Append(page, at)
    <3>1. /\ Append(page, at) \in Seq(Position) /\ Len(Append(page, at)) = Len(page) + 1
          /\ DOMAIN Append(page, at) = 1 .. Len(page) + 1
          /\ Append(page, at)[Len(page) + 1] = at /\ \A i \in 1 .. Len(page) : Append(page, at)[i] = page[i]
      BY <1>4, <2>7, Appended
    <3>2. PICK long : long = Append(page, at)
      OBVIOUS
    <3>3. /\ long \in Seq(Position) /\ Len(long) = m + 1
          /\ long[m + 1] = Pos(n, m + 1) /\ \A i \in 1 .. m : long[i] = Pos(n, i)
      BY <1>3, <2>7, <3>1, <3>2
    <3>4. \A i \in 1 .. m + 1 : i = m + 1 \/ i \in 1 .. m
      OBVIOUS
    <3>5. \A i \in 1 .. m + 1 : long[i] = wider[i]
      BY <2>9, <3>3, <3>4
    <3>6. long = wider
      BY <2>9, <3>3, <3>5
    <3> QED
      BY <3>2, <3>6
  <2>11. Slots(front) \in Seq(Position)
    BY <2>2, SlotsAre DEF Enumerates
  <2>12. PICK before : before = Slots(front)
    OBVIOUS
  <2>13. before \o Append(page, at) = Append(before \o page, at)
    BY <1>4, <2>7, <2>11, <2>12, AppendJoined
  <2> QED
    BY <2>4, <2>5, <2>6, <2>8, <2>10, <2>12, <2>13
<1> QED
  BY <1>2, <1>3, <1>4, <1>8, <1>9, <1>11, <1>12, <1>13, <1>14, <1>15 DEF Stored

LEMMA SizeIsFold == ASSUME NEW row PROVE RecordSize(row) = SizeFold!Folded(0, row)
BY DEF RecordSize, FoldLeft, MapThenFoldSet, Max,
       SizeFold!Folded, SizeFold!MapThenFoldSet, SizeFold!Greatest

\* A record takes some room.
LEMMA SizeIsNat ==
    ASSUME NEW row \in Seq(Values)
    PROVE  RecordSize(row) \in Nat
<1>1. PICK n \in Nat : DOMAIN row = 1 .. n /\ \A i \in 1 .. n : row[i] \in Values
  <2>1. Len(row) \in Nat /\ DOMAIN row = 1 .. Len(row) /\ \A i \in 1 .. Len(row) : row[i] \in Values
    OBVIOUS
  <2> QED
    BY <2>1
<1>2. PICK r : SizeFold!Stages(r, 0, n, row)
  BY <1>1, SizeFold!FoldSteps
<1> DEFINE Bad == {k \in 0 .. n : r[k] \notin Nat}
<1>3. 0 \notin Bad
  BY <1>2 DEF SizeFold!Stages
<1>4. ASSUME NEW k \in 1 .. n, k \in Bad
      PROVE  k - 1 \in Bad
  <2>1. r[k] = AddField(r[k - 1], row[k]) /\ k - 1 \in 0 .. n
    BY <1>2 DEF SizeFold!Stages
  <2>2. row[k] # NULL => Len(row[k]) \in Nat
    <3>1. row[k] \in Seq(Int) \cup {NULL}
      BY <1>1, ValuesAssumption
    <3> QED
      BY <3>1
  <2> QED
    BY <1>4, <2>1, <2>2 DEF AddField
<1>5. Bad = {}
  <2>1. Bad \in SUBSET (0 .. n)
    OBVIOUS
  <2> HIDE DEF Bad
  <2> QED
    BY <1>3, <1>4, <2>1, SizeFold!Climb
<1> QED
  BY <1>2, <1>5, SizeIsFold DEF SizeFold!Stages

(* The counters are what the pages hold *)
Counted(heap) ==
  /\ heap.nlive = Cardinality(LiveIn(heap))
  /\ heap.nslots = Len(Slots(heap))

(* Slots and records keep to the room that is not free, and only a record  *)
(* alone on its page may take some of the trailer's.                       *)
Fitted(page) ==
  /\ RoomTaken(page) + page.free <= PageRoom
  /\ page.free >= 0 \/ (Len(page.slots) = 1 /\ page.free + Trailer >= 0)

Roomy(heap) == \A p \in DOMAIN heap.pages : Fitted(heap.pages[p])

LEMMA RoomIsFold == ASSUME NEW page PROVE RoomTaken(page) = RoomFold!Folded(0, page.slots)
BY DEF RoomTaken, FoldLeft, MapThenFoldSet, Max,
       RoomFold!Folded, RoomFold!MapThenFoldSet, RoomFold!Greatest

\* What a slot takes is a number, and least when its record is gone.
LEMMA SlotTakes ==
    ASSUME NEW S \in SUBSET Seq(Values), NEW row \in S \cup {Gone}, NEW a \in Nat, NEW b \in Nat, a <= b
    PROVE  /\ TakeRoom(b, row) \in Nat
           /\ TakeRoom(a, row) <= TakeRoom(b, row)
           /\ TakeRoom(a, Gone) <= TakeRoom(b, row)
<1>1. PICK size : size = RecordSize(row)
  OBVIOUS
<1>2. row # Gone => size \in Nat
  BY <1>1, SizeIsNat
<1> QED
  BY <1>1, <1>2 DEF TakeRoom, SlotWidth

LEMMA RoomIsNat ==
    ASSUME NEW S \in SUBSET Seq(Values), NEW page, page.slots \in Seq(S \cup {Gone})
    PROVE  RoomTaken(page) \in Nat
<1>1. PICK slots \in Seq(S \cup {Gone}) : slots = page.slots
  OBVIOUS
<1>2. PICK n \in Nat : DOMAIN slots = 1 .. n /\ \A i \in 1 .. n : slots[i] \in S \cup {Gone}
  <2>1. Len(slots) \in Nat /\ DOMAIN slots = 1 .. Len(slots)
        /\ \A i \in 1 .. Len(slots) : slots[i] \in S \cup {Gone}
    OBVIOUS
  <2> QED
    BY <2>1
<1>3. PICK r : RoomFold!Stages(r, 0, n, slots)
  BY <1>2, RoomFold!FoldSteps
<1> DEFINE Bad == {k \in 0 .. n : r[k] \notin Nat}
<1>4. 0 \notin Bad
  BY <1>3 DEF RoomFold!Stages
<1>5. ASSUME NEW k \in 1 .. n, k \in Bad
      PROVE  k - 1 \in Bad
  <2>1. r[k] = TakeRoom(r[k - 1], slots[k]) /\ k - 1 \in 0 .. n
    BY <1>3 DEF RoomFold!Stages
  <2>2. ASSUME r[k - 1] \in Nat PROVE TakeRoom(r[k - 1], slots[k]) \in Nat
    <3>1. PICK row \in S \cup {Gone} : row = slots[k]
      BY <1>2
    <3>2. PICK a \in Nat : a = r[k - 1] /\ a <= a
      BY <2>2
    <3>3. TakeRoom(a, row) \in Nat
      BY <3>2, SlotTakes
    <3> QED
      BY <3>1, <3>2, <3>3
  <2> QED
    BY <1>5, <2>1, <2>2
<1>6. Bad = {}
  <2>1. Bad \in SUBSET (0 .. n)
    OBVIOUS
  <2> HIDE DEF Bad
  <2> QED
    BY <1>4, <1>5, <2>1, RoomFold!Climb
<1> QED
  BY <1>1, <1>3, <1>6, RoomIsFold DEF RoomFold!Stages

\* A row more takes its slot and its record.
LEMMA RoomOfAnother ==
    ASSUME NEW S \in SUBSET Seq(Values), NEW page, page.slots \in Seq(S \cup {Gone}), NEW row \in S,
           NEW free
    PROVE  RoomTaken(PutLast(page, row, free)) = RoomTaken(page) + SlotWidth + RecordSize(row)
<1>1. PICK slots \in Seq(S \cup {Gone}) : slots = page.slots
  OBVIOUS
<1>2. PICK n \in Nat : n = Len(slots) /\ DOMAIN slots = 1 .. n
  OBVIOUS
<1>3. PICK longer : longer = Append(slots, row)
  OBVIOUS
<1>4. DOMAIN longer = 1 .. n + 1 /\ longer[n + 1] = row /\ \A i \in 1 .. n : longer[i] = slots[i]
  BY <1>2, <1>3, Appended
<1>5. PICK m \in Nat : m = n + 1 /\ m # 0 /\ m - 1 = n
  BY <1>2
<1>6. RoomFold!Folded(0, longer) = TakeRoom(RoomFold!Folded(0, slots), longer[m])
  BY <1>2, <1>4, <1>5, RoomFold!FoldLast
<1>7. RoomTaken(PutLast(page, row, free)) = RoomFold!Folded(0, longer)
  BY <1>1, <1>3, RoomIsFold DEF PutLast
<1>8. row # Gone
  BY ValuesAssumption
<1> QED
  BY <1>1, <1>4, <1>5, <1>6, <1>7, <1>8, RoomIsFold DEF TakeRoom

\* A tombstone takes no more than the row it replaces.
LEMMA RoomOfTombstone ==
    ASSUME NEW S \in SUBSET Seq(Values), NEW page, page.slots \in Seq(S \cup {Gone}),
           NEW s, NEW new, new.slots = [page.slots EXCEPT ![s] = Gone]
    PROVE  RoomTaken(new) <= RoomTaken(page)
<1>1. PICK slots \in Seq(S \cup {Gone}) : slots = page.slots
  OBVIOUS
<1>2. PICK n \in Nat : DOMAIN slots = 1 .. n /\ \A i \in 1 .. n : slots[i] \in S \cup {Gone}
  <2>1. Len(slots) \in Nat /\ DOMAIN slots = 1 .. Len(slots)
        /\ \A i \in 1 .. Len(slots) : slots[i] \in S \cup {Gone}
    OBVIOUS
  <2> QED
    BY <2>1
<1>3. PICK marked : marked = [slots EXCEPT ![s] = Gone]
  OBVIOUS
<1>4. DOMAIN marked = 1 .. n /\ \A i \in 1 .. n : marked[i] \in {slots[i], Gone}
  BY <1>2, <1>3
<1>5. PICK r : RoomFold!Stages(r, 0, n, slots)
  BY <1>2, RoomFold!FoldSteps
<1>6. PICK q : RoomFold!Stages(q, 0, n, marked)
  BY <1>4, RoomFold!FoldSteps
<1> DEFINE Bad == {k \in 0 .. n : ~(q[k] \in Nat /\ r[k] \in Nat /\ q[k] <= r[k])}
<1>7. 0 \notin Bad
  BY <1>5, <1>6 DEF RoomFold!Stages
<1>8. ASSUME NEW k \in 1 .. n, k \in Bad
      PROVE  k - 1 \in Bad
  <2>1. SUFFICES ASSUME k - 1 \notin Bad PROVE FALSE
    OBVIOUS
  <2>2. q[k - 1] \in Nat /\ r[k - 1] \in Nat /\ q[k - 1] <= r[k - 1]
    BY <2>1
  <2>3. q[k] = TakeRoom(q[k - 1], marked[k]) /\ r[k] = TakeRoom(r[k - 1], slots[k])
    BY <1>5, <1>6 DEF RoomFold!Stages
  <2>4. slots[k] \in S \cup {Gone} /\ marked[k] \in {slots[k], Gone}
    BY <1>2, <1>4
  <2>5. PICK a \in Nat, b \in Nat : a = q[k - 1] /\ b = r[k - 1] /\ a <= b /\ a <= a
    BY <2>2
  <2>6. PICK row \in S \cup {Gone} : row = slots[k] /\ Gone \in S \cup {Gone}
    BY <2>4
  <2>7. TakeRoom(b, row) \in Nat /\ TakeRoom(a, row) <= TakeRoom(b, row) /\ TakeRoom(a, Gone) <= TakeRoom(b, row)
    BY <2>5, SlotTakes
  <2>8. TakeRoom(a, row) \in Nat /\ TakeRoom(a, Gone) \in Nat
    BY <2>5, <2>6, SlotTakes
  <2>9. q[k] \in Nat /\ r[k] \in Nat /\ q[k] <= r[k]
    <3>1. CASE marked[k] = slots[k]
      BY <2>3, <2>5, <2>6, <2>7, <2>8, <3>1
    <3>2. CASE marked[k] = Gone
      BY <2>3, <2>5, <2>6, <2>7, <2>8, <3>2
    <3> QED
      BY <2>4, <3>1, <3>2
  <2> QED
    BY <1>8, <2>9
<1>9. Bad = {}
  <2>1. Bad \in SUBSET (0 .. n)
    OBVIOUS
  <2> HIDE DEF Bad
  <2> QED
    BY <1>7, <1>8, <2>1, RoomFold!Climb
<1>10. n \in 0 .. n
  OBVIOUS
<1>11. q[n] <= r[n]
  BY <1>9, <1>10
<1> QED
  BY <1>1, <1>3, <1>5, <1>6, <1>11, RoomIsFold DEF RoomFold!Stages

HeapOK(heap, S) ==
  /\ S \in SUBSET Seq(Values)
  /\ HeapIn(heap, S)
  /\ Counted(heap)
  /\ Roomy(heap)

LEMMA EnumeratedFinite ==
    ASSUME NEW seq, NEW set, Enumerates(seq, set)
    PROVE  IsFiniteSet(set)
<1>1. PICK n \in Nat : n = Len(seq)
  BY DEF Enumerates
<1>2. IsFiniteSet(1 .. n)
  BY FS_Interval
<1>3. PICK f : f = [i \in 1 .. n |-> seq[i]]
  OBVIOUS
<1>4. f \in [1 .. n -> set] /\ \A x \in set : \E i \in 1 .. n : f[i] = x
  BY <1>1, <1>3 DEF Enumerates
<1>5. f \in Surjection(1 .. n, set)
  BY <1>4 DEF Surjection
<1> QED
  BY <1>2, <1>5, FS_Surjection

LEMMA LiveIsFinite ==
    ASSUME NEW S, NEW heap, HeapIn(heap, S)
    PROVE  IsFiniteSet(All(heap)) /\ IsFiniteSet(LiveIn(heap)) /\ Cardinality(LiveIn(heap)) \in Nat
<1>1. IsFiniteSet(All(heap))
  BY SlotsAre, EnumeratedFinite
<1>2. LiveIn(heap) \in SUBSET All(heap)
  BY DEF LiveIn
<1>3. IsFiniteSet(LiveIn(heap))
  BY <1>1, <1>2, FS_Subset
<1> QED
  BY <1>1, <1>3, FS_CardinalityType

\* A live slot holds a row.
LEMMA LiveRow ==
    ASSUME NEW S, NEW heap, HeapIn(heap, S), NEW at \in LiveIn(heap)
    PROVE  HeapRead(heap, at) \in S /\ at \in Position /\ at \in All(heap)
<1>1. at \in All(heap) /\ at \in Position /\ HeapRead(heap, at) # Gone
  BY DEF LiveIn, All
<1>2. at[1] \in DOMAIN heap.pages /\ at[2] \in DOMAIN heap.pages[at[1]].slots
  BY <1>1 DEF All
<1>3. heap.pages[at[1]].slots[at[2]] \in S \cup {Gone}
  BY <1>2, PageFacts
<1> QED
  BY <1>1, <1>3 DEF HeapRead

LEMMA LiveIs ==
    ASSUME NEW heap, NEW at \in Position
    PROVE  IsLive(heap, at) <=> at \in LiveIn(heap)
BY DEF IsLive, LiveIn, All

\* A stored row is one more live one.
LEMMA StoredLive ==
    ASSUME NEW heap, NEW row, row # Gone, NEW at, NEW new, Stored(heap, row, at, new)
    PROVE  LiveIn(new) = LiveIn(heap) \cup {at} /\ at \notin LiveIn(heap)
<1>1. at \notin All(heap) /\ All(new) = All(heap) \cup {at} /\ HeapRead(new, at) = row
  BY DEF Stored
<1>2. \A x \in All(heap) : HeapRead(new, x) = HeapRead(heap, x)
  BY DEF Stored
<1>3. \A x \in LiveIn(new) : x \in LiveIn(heap) \cup {at}
  BY <1>1, <1>2 DEF LiveIn
<1>4. \A x \in LiveIn(heap) \cup {at} : x \in LiveIn(new)
  BY <1>1, <1>2 DEF LiveIn
<1>5. at \notin LiveIn(heap)
  BY <1>1 DEF LiveIn
<1> QED
  BY <1>3, <1>4, <1>5

Put(heap, row, put) ==
  /\ Stored(heap, row, put.position, put.heap)
  /\ put.heap.nlive = heap.nlive + 1 /\ put.heap.nslots = heap.nslots + 1

LEMMA InsertIs ==
    ASSUME NEW S, NEW heap, HeapOK(heap, S), NEW row \in S, NEW pages,
           NEW put, put = HeapInsert(heap, row, pages)
    PROVE  /\ put.ok \in BOOLEAN
           /\ put.ok => HeapIn(put.heap, S) /\ Put(heap, row, put)
           /\ put.ok => Roomy(put.heap)
<1>0. HeapIn(heap, S) /\ S \in SUBSET Seq(Values)
  BY DEF HeapOK
<1>1. PICK size \in Nat : size = RecordSize(row)
  BY <1>0, SizeIsNat
<1>2. PICK n \in Nat : n = Len(heap.pages) /\ DOMAIN heap.pages = 1 .. n
  BY <1>0, PageFacts
<1>3. PICK fits : fits = (n > 0 /\ HasRoom(heap.pages[n], size))
  OBVIOUS
<1>4. PICK ok : ok = (size <= PageRoom + Trailer - SlotWidth /\ (fits \/ pages > 0))
  OBVIOUS
<1>5. PICK at : at = IF fits THEN n ELSE n + 1
  OBVIOUS
<1>6. PICK ready : ready = IF fits THEN WithPages(heap, heap.pages)
                           ELSE WithPages(heap, Append(heap.pages, [slots |-> <<>>, free |-> PageRoom]))
  OBVIOUS
<1>6a. ready.pages = IF fits THEN heap.pages ELSE Append(heap.pages, [slots |-> <<>>, free |-> PageRoom])
  BY <1>6 DEF WithPages
<1>7. PICK free : free = ready.pages[at].free - size - SlotWidth
  OBVIOUS
<1>8. PICK new : new = [pages |-> [ready.pages EXCEPT ![at] = PutLast(ready.pages[at], row, free)],
                        nlive |-> heap.nlive + 1, nslots |-> heap.nslots + 1]
  OBVIOUS
<1>9. put.ok = ok /\ (ok => put.heap = new /\ put.position = Pos(at, Len(ready.pages[at].slots) + 1))
  <2>1. HeapInsert(heap, row, pages) =
          IF ~ok THEN [ok |-> FALSE, pages |-> pages, position |-> <<>>, heap |-> heap]
          ELSE [ok |-> TRUE,
                pages |-> IF fits THEN pages ELSE pages - 1,
                position |-> <<at, Len(ready.pages[at].slots) + 1>>,
                heap |-> [pages |-> [ready.pages EXCEPT ![at] =
                                       [slots |-> Append(@.slots, row), free |-> @.free - size - SlotWidth]],
                          nlive |-> heap.nlive + 1,
                          nslots |-> heap.nslots + 1]]
    BY <1>1, <1>2, <1>3, <1>4, <1>5, <1>6a DEF HeapInsert
  <2>2. [pages |-> [ready.pages EXCEPT ![at] =
                      [slots |-> Append(@.slots, row), free |-> @.free - size - SlotWidth]],
         nlive |-> heap.nlive + 1,
         nslots |-> heap.nslots + 1] = new
    BY <1>7, <1>8 DEF PutLast
  <2>3. ok \in BOOLEAN
    BY <1>4
  <2>4. CASE ok
    BY <2>1, <2>2, <2>4 DEF Pos
  <2>5. CASE ~ok
    <3>1. put.ok = FALSE
      BY <2>1, <2>5
    <3> QED
      BY <2>3, <2>5, <3>1
  <2> QED
    BY <2>3, <2>4, <2>5
<1>10. /\ HeapIn(ready, S) /\ Len(ready.pages) = at /\ at \in Nat \ {0}
       /\ Slots(ready) = Slots(heap) /\ All(ready) = All(heap)
       /\ \A x \in All(heap) : HeapRead(ready, x) = HeapRead(heap, x)
       /\ ~fits => ready.pages[at].free = PageRoom /\ ready.pages[at].slots = <<>>
       /\ \A p \in 1 .. at : p # at \/ fits => p \in DOMAIN heap.pages /\ ready.pages[p] = heap.pages[p]
  <2>1. CASE fits
    <3>1. ready = heap
      BY <1>0, <1>6, <2>1 DEF WithPages, HeapIn
    <3>2. at = n /\ n > 0
      BY <1>3, <1>5, <2>1
    <3>3. Slots(ready) = Slots(heap) /\ All(ready) = All(heap)
          /\ \A x \in All(heap) : HeapRead(ready, x) = HeapRead(heap, x)
      BY <3>1
    <3>4. \A p \in 1 .. at : p \in DOMAIN heap.pages /\ ready.pages[p] = heap.pages[p]
      BY <1>2, <3>1, <3>2
    <3> QED
      BY <1>0, <1>2, <2>1, <3>1, <3>2, <3>3, <3>4
  <2>2. CASE ~fits
    <3>1. ready = WithPages(heap, Append(heap.pages, [slots |-> <<>>, free |-> PageRoom]))
      BY <1>6, <2>2
    <3>2. /\ HeapIn(ready, S) /\ Len(ready.pages) = Len(heap.pages) + 1
          /\ Slots(ready) = Slots(heap) /\ All(ready) = All(heap)
          /\ \A x \in All(heap) : HeapRead(ready, x) = HeapRead(heap, x)
          /\ ready.pages[Len(heap.pages) + 1].free = PageRoom
          /\ ready.pages[Len(heap.pages) + 1].slots = <<>>
          /\ \A p \in DOMAIN heap.pages : ready.pages[p] = heap.pages[p]
      <4>1. PageRoom \in Int
        BY RoomAssumption
      <4> QED
        BY <1>0, <3>1, <4>1, FreshPage
    <3>3. at = n + 1
      BY <1>5, <2>2
    <3>4. \A p \in 1 .. at : p # at => p \in DOMAIN heap.pages
      BY <1>2, <3>3
    <3> QED
      BY <1>2, <2>2, <3>2, <3>3, <3>4
  <2> QED
    BY <2>1, <2>2
<1>11. ready.pages[at].free \in Int /\ at \in DOMAIN ready.pages
  <2>1. DOMAIN ready.pages = 1 .. at
    BY <1>10, PageFacts
  <2>2. at \in DOMAIN ready.pages
    BY <1>10, <2>1
  <2> QED
    BY <1>10, <2>2, PageFacts
<1>12. free \in Int
  BY <1>7, <1>11 DEF SlotWidth
<1>13. HeapIn(new, S) /\ new.pages = [ready.pages EXCEPT ![at] = PutLast(ready.pages[at], row, free)]
  <2>1. PICK T : T = PageType(S)
    OBVIOUS
  <2>2. PICK page : page = PutLast(ready.pages[at], row, free)
    OBVIOUS
  <2>3. page \in T
    <3>1. PICK slots : slots = ready.pages[at].slots
      OBVIOUS
    <3>2. slots \in Seq(S \cup {Gone})
      BY <1>10, <1>11, <3>1, PageFacts
    <3>3. Append(slots, row) \in Seq(S \cup {Gone})
      BY <3>2
    <3> QED
      BY <1>12, <2>1, <2>2, <3>1, <3>3 DEF PutLast, PageType
  <2>4. ready.pages \in Seq(T)
    BY <1>10, <2>1 DEF HeapIn
  <2>5. PICK after : after = [ready.pages EXCEPT ![at] = page]
    OBVIOUS
  <2>6. after \in Seq(T)
    BY <1>11, <2>3, <2>4, <2>5, Placed
  <2>7. new = [pages |-> after, nlive |-> heap.nlive + 1, nslots |-> heap.nslots + 1]
    BY <1>8, <2>2, <2>5
  <2>8. new.pages = after /\ new = [pages |-> new.pages, nlive |-> new.nlive, nslots |-> new.nslots]
    BY <2>7
  <2> QED
    BY <2>1, <2>2, <2>5, <2>6, <2>8 DEF HeapIn
<1>14. PICK position : position = Pos(at, Len(ready.pages[at].slots) + 1)
  OBVIOUS
<1>15. /\ Stored(ready, row, position, new) /\ new.pages[at].free = free
       /\ Len(new.pages) = at /\ \A p \in 1 .. at : p # at => new.pages[p] = ready.pages[p]
  BY <1>10, <1>12, <1>13, <1>14, LastPage
<1>16. Stored(heap, row, position, new)
  BY <1>10, <1>15 DEF Stored
<1>17. new.nlive = heap.nlive + 1 /\ new.nslots = heap.nslots + 1
  BY <1>8
<1>18. ASSUME ok, Roomy(heap)
       PROVE  Roomy(new)
  <2>1. DOMAIN new.pages = 1 .. at
    BY <1>13, <1>15, PageFacts
  <2>2. ASSUME NEW p \in 1 .. at, p # at PROVE Fitted(new.pages[p])
    BY <1>10, <1>15, <1>18, <2>2 DEF Roomy
  <2>3. PICK page : page = ready.pages[at] /\ page.slots \in Seq(S \cup {Gone}) /\ page.free \in Int
    BY <1>10, <1>11, PageFacts
  <2>4. RoomTaken(page) \in Nat
    BY <1>0, <2>3, RoomIsNat
  <2>5. PICK put1 : put1 = PutLast(page, row, free)
    OBVIOUS
  <2>6. new.pages[at] = put1 /\ put1.free = free /\ put1.slots = Append(page.slots, row)
    <3>1. ready.pages \in Seq(PageType(S))
      BY <1>10 DEF HeapIn
    <3> QED
      BY <1>11, <1>13, <2>3, <2>5, <3>1 DEF PutLast
  <2>7. RoomTaken(put1) = RoomTaken(page) + SlotWidth + size
    BY <1>0, <1>1, <2>3, <2>5, RoomOfAnother
  <2>8. RoomTaken(page) + page.free <= PageRoom
    <3>1. CASE fits
      <4>1. ready.pages[at] = heap.pages[at] /\ at \in DOMAIN heap.pages
        BY <1>2, <1>3, <1>5, <1>10, <3>1
      <4> QED
        BY <1>18, <2>3, <4>1 DEF Roomy, Fitted
    <3>2. CASE ~fits
      <4>1. page.slots = <<>> /\ page.free = PageRoom
        BY <1>10, <2>3, <3>2
      <4>2. RoomTaken(page) = 0
        <5>1. DOMAIN page.slots = 1 .. 0
          BY <4>1
        <5> QED
          BY <5>1, RoomIsFold, RoomFold!FoldOfNothing
      <4> QED
        BY <4>1, <4>2, RoomAssumption
    <3> QED
      BY <3>1, <3>2
  <2>9. RoomTaken(put1) + put1.free <= PageRoom
    BY <1>1, <1>7, <2>3, <2>4, <2>6, <2>7, <2>8, RoomAssumption DEF SlotWidth
  <2>10. free >= 0 \/ (Len(put1.slots) = 1 /\ free + Trailer >= 0)
    <3>1. CASE fits
      <4>1. HasRoom(heap.pages[n], size) /\ at = n
        BY <1>3, <1>5, <3>1
      <4>2. ready.pages[at] = heap.pages[at]
        BY <1>10, <3>1, <1>11, <4>1, <1>2
      <4> QED
        BY <1>7, <1>11, <4>1, <4>2 DEF HasRoom, SlotWidth
    <3>2. CASE ~fits
      <4>1. Len(put1.slots) = 1
        BY <1>10, <2>3, <2>6, <3>2
      <4>2. free = PageRoom - size - SlotWidth /\ size <= PageRoom + Trailer - SlotWidth
        BY <1>4, <1>7, <1>10, <1>18, <3>2
      <4> QED
        BY <1>1, <4>1, <4>2, RoomAssumption DEF SlotWidth
    <3> QED
      BY <3>1, <3>2
  <2>11. Fitted(new.pages[at])
    BY <2>6, <2>9, <2>10 DEF Fitted
  <2> QED
    BY <2>1, <2>2, <2>11 DEF Roomy
<1>19. ok \in BOOLEAN
  BY <1>4
<1>20. ok => Put(heap, row, put)
  BY <1>9, <1>14, <1>16, <1>17 DEF Put
<1>21. put.ok => Roomy(put.heap)
  BY <1>9, <1>18 DEF HeapOK
<1> QED
  BY <1>9, <1>13, <1>19, <1>20, <1>21

LEMMA EnumeratedAppend ==
    ASSUME NEW seq \in Seq(Position), NEW at \in Position
    PROVE  Len(Append(seq, at)) = Len(seq) + 1
OBVIOUS

\* A row stored is one more slot and one more live row.
LEMMA StoreKeeps ==
    ASSUME NEW S, NEW heap, HeapOK(heap, S), NEW row \in S, NEW pages,
           NEW put, put = HeapInsert(heap, row, pages), put.ok
    PROVE  /\ HeapOK(put.heap, S) /\ Put(heap, row, put) /\ row # Gone
           /\ LiveIn(put.heap) = LiveIn(heap) \cup {put.position} /\ put.position \notin LiveIn(heap)
<1>1. HeapIn(heap, S) /\ S \in SUBSET Seq(Values) /\ Counted(heap)
  BY DEF HeapOK
<1>2. HeapIn(put.heap, S) /\ Put(heap, row, put) /\ Roomy(put.heap)
  BY InsertIs
<1>3. PICK new : new = put.heap
  OBVIOUS
<1>4. PICK at : at = put.position
  OBVIOUS
<1>5. Stored(heap, row, at, new) /\ new.nlive = heap.nlive + 1 /\ new.nslots = heap.nslots + 1
  BY <1>2, <1>3, <1>4 DEF Put
<1>6. row # Gone
  BY <1>1, ValuesAssumption
<1>7. LiveIn(new) = LiveIn(heap) \cup {at} /\ at \notin LiveIn(heap)
  BY <1>5, <1>6, StoredLive
<1>8. new.nlive = Cardinality(LiveIn(new))
  <2>1. IsFiniteSet(LiveIn(heap))
    BY <1>1, LiveIsFinite
  <2>2. PICK live : live = LiveIn(heap)
    OBVIOUS
  <2>3. Cardinality(live \cup {at}) = Cardinality(live) + 1
    BY <1>7, <2>1, <2>2, FS_AddElement
  <2> QED
    BY <1>1, <1>5, <1>7, <2>2, <2>3 DEF Counted
<1>9. new.nslots = Len(Slots(new))
  <2>1. PICK slots : slots = Slots(heap)
    OBVIOUS
  <2>2. slots \in Seq(Position)
    BY <1>1, <2>1, SlotsAre DEF Enumerates
  <2>3. Slots(new) = Append(slots, at) /\ at \in Position
    BY <1>5, <2>1 DEF Stored
  <2>4. Len(Slots(new)) = Len(slots) + 1
    BY <2>2, <2>3, EnumeratedAppend
  <2> QED
    BY <1>1, <1>5, <2>1, <2>4 DEF Counted
<1> QED
  BY <1>1, <1>2, <1>3, <1>4, <1>6, <1>7, <1>8, <1>9 DEF HeapOK, Counted

(* new is heap with one row tombstoned *)
Marked(heap, at, new) ==
  /\ All(new) = All(heap) /\ Slots(new) = Slots(heap)
  /\ LiveIn(new) = LiveIn(heap) \ {at}
  /\ \A x \in All(heap) : x # at => HeapRead(new, x) = HeapRead(heap, x)
  /\ new.nslots = heap.nslots
  /\ new.nlive = IF at \in LiveIn(heap) THEN heap.nlive - 1 ELSE heap.nlive

LEMMA MarkKeeps ==
    ASSUME NEW S, NEW heap, HeapOK(heap, S), NEW at \in Position,
           NEW new, new = HeapMarkDeleted(heap, at)
    PROVE  HeapOK(new, S) /\ Marked(heap, at, new)
<1>1. HeapIn(heap, S) /\ S \in SUBSET Seq(Values) /\ Counted(heap) /\ Roomy(heap)
  BY DEF HeapOK
<1>2. CASE at \notin LiveIn(heap)
  <2>1. new = heap
    BY <1>2, LiveIs DEF HeapMarkDeleted
  <2>2. LiveIn(heap) = LiveIn(heap) \ {at}
    BY <1>2
  <2> QED
    BY <1>2, <2>1, <2>2 DEF Marked
<1>3. CASE at \in LiveIn(heap)
  <2>1. PICK p : p = at[1]
    OBVIOUS
  <2>2. PICK s : s = at[2]
    OBVIOUS
  <2>3. at = Pos(p, s) /\ p \in Nat /\ s \in Nat
    BY <2>1, <2>2, PosIs
  <2>4. at \in All(heap) /\ p \in DOMAIN heap.pages /\ s \in DOMAIN heap.pages[p].slots
    BY <1>3, <2>1, <2>2 DEF LiveIn, All
  <2>5. PICK slots : slots = [heap.pages[p].slots EXCEPT ![s] = Gone]
    OBVIOUS
  <2>6. PICK page : page = [heap.pages[p] EXCEPT !.slots = slots]
    OBVIOUS
  <2>7. PICK pages : pages = [heap.pages EXCEPT ![p] = page]
    OBVIOUS
  <2>8. new = [heap EXCEPT !.pages[p].slots[s] = Gone, !.nlive = @ - 1]
    <3>1. IsLive(heap, at)
      BY <1>3, LiveIs
    <3> QED
      BY <2>1, <2>2, <3>1 DEF HeapMarkDeleted
  <2>9. new = [pages |-> pages, nlive |-> heap.nlive - 1, nslots |-> heap.nslots]
    <3>1. heap = [pages |-> heap.pages, nlive |-> heap.nlive, nslots |-> heap.nslots]
      BY <1>1 DEF HeapIn
    <3>2. PICK marked : marked = [heap EXCEPT !.pages[p].slots[s] = Gone]
      OBVIOUS
    <3>3. marked = [heap EXCEPT !.pages = pages]
      BY <2>5, <2>6, <2>7, <3>2
    <3>4. marked = [pages |-> pages, nlive |-> heap.nlive, nslots |-> heap.nslots]
      BY <3>1, <3>3
    <3>5. new = [marked EXCEPT !.nlive = @ - 1]
      BY <2>8, <3>2
    <3> QED
      BY <3>4, <3>5
  <2>10. PICK R : R = S \cup {Gone}
    OBVIOUS
  <2>11. /\ slots \in Seq(R) /\ DOMAIN slots = DOMAIN heap.pages[p].slots /\ slots[s] = Gone
         /\ \A u \in DOMAIN slots : u # s => slots[u] = heap.pages[p].slots[u]
    <3>1. PICK old : old = heap.pages[p].slots
      OBVIOUS
    <3>2. old \in Seq(R) /\ Gone \in R /\ s \in DOMAIN old
      BY <1>1, <2>4, <2>10, <3>1, PageFacts
    <3>3. slots = [old EXCEPT ![s] = Gone]
      BY <2>5, <3>1
    <3>4. slots \in Seq(R) /\ DOMAIN slots = DOMAIN old /\ slots[s] = Gone
          /\ \A u \in DOMAIN old : u # s => slots[u] = old[u]
      BY <3>2, <3>3, Placed
    <3> QED
      BY <3>1, <3>4
  <2>12. page \in PageType(S) /\ page.slots = slots /\ page.free = heap.pages[p].free
    <3>1. heap.pages[p] \in PageType(S)
      BY <1>1, <2>4, PageFacts
    <3> QED
      BY <2>6, <2>10, <2>11, <3>1 DEF PageType
  <2>13. /\ pages \in Seq(PageType(S)) /\ DOMAIN pages = DOMAIN heap.pages
         /\ pages[p] = page /\ \A q \in DOMAIN pages : q # p => pages[q] = heap.pages[q]
    <3>1. PICK T : T = PageType(S)
      OBVIOUS
    <3>2. heap.pages \in Seq(T) /\ page \in T
      BY <1>1, <2>12, <3>1 DEF HeapIn
    <3>3. /\ pages \in Seq(T) /\ DOMAIN pages = DOMAIN heap.pages
          /\ pages[p] = page /\ \A q \in DOMAIN heap.pages : q # p => pages[q] = heap.pages[q]
      BY <2>4, <2>7, <3>2, Placed
    <3> QED
      BY <3>1, <3>3
  <2>14. /\ new.pages = pages /\ new.nlive = heap.nlive - 1 /\ new.nslots = heap.nslots
         /\ HeapIn(new, S)
    BY <2>9, <2>13 DEF HeapIn
  <2>15. \A q \in DOMAIN heap.pages : DOMAIN new.pages[q].slots = DOMAIN heap.pages[q].slots
    <3>1. ASSUME NEW q \in DOMAIN heap.pages PROVE DOMAIN new.pages[q].slots = DOMAIN heap.pages[q].slots
      <4>1. CASE q = p
        BY <2>11, <2>12, <2>13, <2>14, <4>1
      <4>2. CASE q # p
        BY <2>13, <2>14, <4>2
      <4> QED
        BY <4>1, <4>2
    <3> QED
      BY <3>1
  <2>16. All(new) = All(heap)
    <3>1. \A x \in Position : x \in All(new) <=> x \in All(heap)
      BY <2>13, <2>14, <2>15 DEF All
    <3>2. \A x \in All(new) : x \in Position
      BY DEF All
    <3>3. \A x \in All(heap) : x \in Position
      BY DEF All
    <3> QED
      BY <3>1, <3>2, <3>3
  <2>17. ByPage(new) = ByPage(heap)
    <3>1. DOMAIN new.pages = DOMAIN heap.pages
      BY <2>13, <2>14
    <3>2. \A q \in DOMAIN heap.pages : [u \in DOMAIN new.pages[q].slots |-> Pos(q, u)] = [u \in DOMAIN heap.pages[q].slots |-> Pos(q, u)]
      BY <2>15
    <3> QED
      BY <3>1, <3>2 DEF ByPage
  <2>18. Slots(new) = Slots(heap)
    BY <2>17, SlotsAreFold
  <2>19. HeapRead(new, at) = Gone
    BY <2>1, <2>2, <2>11, <2>12, <2>13, <2>14 DEF HeapRead
  <2>20. ASSUME NEW x \in All(heap), x # at PROVE HeapRead(new, x) = HeapRead(heap, x)
    <3>1. /\ x \in Position /\ x[1] \in DOMAIN heap.pages /\ x[2] \in DOMAIN heap.pages[x[1]].slots
          /\ x = Pos(x[1], x[2])
      BY PosIs DEF All
    <3>2. CASE x[1] # p
      BY <2>13, <2>14, <3>1, <3>2 DEF HeapRead
    <3>3. CASE x[1] = p
      <4>1. x[2] # s
        BY <2>3, <2>20, <3>1, <3>3
      <4> QED
        BY <2>11, <2>12, <2>13, <2>14, <3>1, <3>3, <4>1 DEF HeapRead
    <3> QED
      BY <3>2, <3>3
  <2>21. LiveIn(new) = LiveIn(heap) \ {at}
    <3>1. \A x \in LiveIn(new) : x \in LiveIn(heap) \ {at}
      BY <2>16, <2>19, <2>20 DEF LiveIn
    <3>2. \A x \in LiveIn(heap) \ {at} : x \in LiveIn(new)
      BY <2>16, <2>20 DEF LiveIn
    <3> QED
      BY <3>1, <3>2
  <2>22. new.nlive = Cardinality(LiveIn(new))
    <3>1. IsFiniteSet(LiveIn(heap))
      BY <1>1, LiveIsFinite
    <3>2. PICK live : live = LiveIn(heap)
      OBVIOUS
    <3>3. Cardinality(live \ {at}) = Cardinality(live) - 1
      BY <1>3, <3>1, <3>2, FS_RemoveElement
    <3> QED
      BY <1>1, <2>14, <2>21, <3>2, <3>3 DEF Counted
  <2>23. Roomy(new)
    <3>1. ASSUME NEW q \in DOMAIN heap.pages, q # p PROVE Fitted(new.pages[q])
      BY <1>1, <2>13, <2>14, <3>1 DEF Roomy
    <3>2. PICK old : old = heap.pages[p] /\ old.slots \in Seq(R) /\ old.free \in Int /\ Fitted(old)
      BY <1>1, <2>4, <2>10, PageFacts DEF Roomy
    <3>3. RoomTaken(page) <= RoomTaken(old)
      BY <1>1, <2>5, <2>10, <2>12, <3>2, RoomOfTombstone
    <3>4. RoomTaken(page) \in Nat /\ RoomTaken(old) \in Nat
      BY <1>1, <2>10, <2>11, <2>12, <3>2, RoomIsNat
    <3>5. page.free = old.free /\ Len(page.slots) = Len(old.slots)
      BY <2>11, <2>12, <3>2
    <3>6. Fitted(page)
      BY <3>2, <3>3, <3>4, <3>5, RoomAssumption DEF Fitted
    <3> QED
      BY <2>13, <2>14, <3>1, <3>6 DEF Roomy
  <2>24. new.nslots = Len(Slots(new))
    BY <1>1, <2>14, <2>18 DEF Counted
  <2>25. HeapOK(new, S)
    BY <1>1, <2>14, <2>22, <2>23, <2>24 DEF HeapOK, Counted
  <2>26. Marked(heap, at, new)
    BY <1>3, <2>14, <2>16, <2>18, <2>20, <2>21 DEF Marked
  <2> QED
    BY <2>25, <2>26
<1> QED
  BY <1>2, <1>3

-----------------------------------------------------------------------------
(* Scans *)

\* A scan gives every live row once.
LEMMA ScanIs ==
    ASSUME NEW S, NEW heap, HeapIn(heap, S)
    PROVE  Enumerates(HeapScan(heap), LiveIn(heap))
<1>1. PICK slots : slots = Slots(heap)
  OBVIOUS
<1>2. Enumerates(slots, All(heap))
  BY <1>1, SlotsAre
<1>3. PICK n \in Nat : n = Len(slots) /\ DOMAIN slots = 1 .. n
  BY <1>2 DEF Enumerates
<1>4. PICK keep : keep = [i \in DOMAIN slots |-> IsLive(heap, slots[i])]
  OBVIOUS
<1>5. \A i \in 1 .. n : slots[i] \in All(heap) /\ slots[i] \in Position
  BY <1>2, <1>3 DEF Enumerates, All
<1>6. \A i \in 1 .. n : keep[i] <=> slots[i] \in LiveIn(heap)
  <2>1. ASSUME NEW i \in 1 .. n PROVE keep[i] <=> slots[i] \in LiveIn(heap)
    <3>1. slots[i] \in Position
      BY <1>5
    <3>2. IsLive(heap, slots[i]) <=> slots[i] \in LiveIn(heap)
      BY <3>1, LiveIs
    <3> QED
      BY <1>3, <1>4, <3>2
  <2> QED
    BY <2>1
<1>7. PICK scan : scan = HeapScan(heap)
  OBVIOUS
<1>8. scan = Filter(slots, keep)
  BY <1>1, <1>4, <1>7 DEF HeapScan
<1>9. scan \in Seq(Position) /\ PickedFrom(scan, slots, keep, n)
  BY <1>3, <1>5, <1>8, FilterIs
<1>10. PICK at : Picks(scan, at, slots, keep, n)
  BY <1>9 DEF PickedFrom
<1>11. PICK l \in Nat : l = Len(scan)
  BY <1>9
<1>12. \A i \in 1 .. l : at[i] \in 1 .. n /\ keep[at[i]] /\ scan[i] = slots[at[i]]
  BY <1>10, <1>11 DEF Picks
<1>13. ASSUME NEW i \in 1 .. l, NEW j \in 1 .. l, scan[i] = scan[j] PROVE i = j
  <2>1. at[i] = at[j]
    BY <1>2, <1>3, <1>12, <1>13 DEF Enumerates
  <2>2. at[i] \in Int /\ at[j] \in Int
    BY <1>12
  <2>3. ~(i < j) /\ ~(j < i)
    BY <1>10, <1>11, <2>1, <2>2 DEF Picks
  <2> QED
    BY <2>3
<1>14. \A i \in 1 .. l : scan[i] \in LiveIn(heap)
  BY <1>6, <1>12
<1>15. ASSUME NEW x \in LiveIn(heap) PROVE \E i \in 1 .. l : scan[i] = x
  <2>1. x \in All(heap)
    BY DEF LiveIn
  <2>2. PICK k \in 1 .. n : slots[k] = x
    BY <1>2, <1>3, <2>1 DEF Enumerates
  <2>3. keep[k]
    BY <1>6, <2>2
  <2>4. PICK i \in 1 .. l : at[i] = k
    BY <1>10, <1>11, <2>3 DEF Picks
  <2> QED
    BY <1>12, <2>2, <2>4
<1> QED
  BY <1>7, <1>9, <1>11, <1>13, <1>14, <1>15 DEF Enumerates

\* Rows of two heaps agree when their scans and what they read do.
LEMMA SameRows ==
    ASSUME NEW S, NEW heap, HeapIn(heap, S), NEW new,
           HeapScan(new) = HeapScan(heap), \A x \in LiveIn(heap) : HeapRead(new, x) = HeapRead(heap, x)
    PROVE  RowsOf(new) = RowsOf(heap)
<1>1. PICK scan : scan = HeapScan(heap)
  OBVIOUS
<1>2. Enumerates(scan, LiveIn(heap))
  BY <1>1, ScanIs
<1>3. DOMAIN scan = 1 .. Len(scan)
  BY <1>2 DEF Enumerates
<1>4. \A i \in DOMAIN scan : HeapRead(new, scan[i]) = HeapRead(heap, scan[i])
  BY <1>2, <1>3 DEF Enumerates
<1>5. RowsOf(new) = [i \in DOMAIN scan |-> HeapRead(new, scan[i])]
  BY <1>1 DEF RowsOf
<1>6. RowsOf(heap) = [i \in DOMAIN scan |-> HeapRead(heap, scan[i])]
  BY <1>1 DEF RowsOf
<1> QED
  BY <1>4, <1>5, <1>6

LEMMA RowsOfIs ==
    ASSUME NEW S, NEW heap, HeapIn(heap, S)
    PROVE  /\ RowsOf(heap) \in Seq(S) /\ Len(RowsOf(heap)) = Len(HeapScan(heap))
           /\ \A i \in 1 .. Len(HeapScan(heap)) :
                /\ HeapScan(heap)[i] \in LiveIn(heap)
                /\ RowsOf(heap)[i] = HeapRead(heap, HeapScan(heap)[i])
<1>1. PICK scan : scan = HeapScan(heap)
  OBVIOUS
<1>2. Enumerates(scan, LiveIn(heap))
  BY <1>1, ScanIs
<1>3. PICK n \in Nat : n = Len(scan) /\ DOMAIN scan = 1 .. n
  BY <1>2 DEF Enumerates
<1>4. \A i \in 1 .. n : scan[i] \in LiveIn(heap)
  BY <1>2, <1>3 DEF Enumerates
<1>5. \A i \in 1 .. n : HeapRead(heap, scan[i]) \in S
  BY <1>4, LiveRow
<1>6. PICK rows : rows = [i \in 1 .. n |-> HeapRead(heap, scan[i])]
  OBVIOUS
<1>7. rows \in Seq(S) /\ Len(rows) = n /\ \A i \in 1 .. n : rows[i] = HeapRead(heap, scan[i])
  BY <1>5, <1>6
<1>8. RowsOf(heap) = rows
  BY <1>1, <1>3, <1>6 DEF RowsOf
<1> QED
  BY <1>1, <1>3, <1>4, <1>7, <1>8

\* One more slot, live or not.
LEMMA ScanAppend ==
    ASSUME NEW S, NEW heap, HeapIn(heap, S), NEW new, NEW at \in Position,
           Slots(new) = Append(Slots(heap), at),
           \A x \in All(heap) : x \in LiveIn(new) <=> x \in LiveIn(heap)
    PROVE  HeapScan(new) = IF at \in LiveIn(new) THEN Append(HeapScan(heap), at) ELSE HeapScan(heap)
<1>1. PICK slots : slots = Slots(heap)
  OBVIOUS
<1>2. Enumerates(slots, All(heap))
  BY <1>1, SlotsAre
<1>3. PICK n \in Nat : n = Len(slots) /\ DOMAIN slots = 1 .. n
  BY <1>2 DEF Enumerates
<1>4. PICK longer : longer = Slots(new)
  OBVIOUS
<1>5. /\ DOMAIN longer = 1 .. n + 1 /\ longer[n + 1] = at
      /\ \A i \in 1 .. n : longer[i] = slots[i]
  <2>1. slots \in Seq(Position)
    BY <1>2 DEF Enumerates
  <2>2. /\ DOMAIN Append(slots, at) = 1 .. Len(slots) + 1 /\ Append(slots, at)[Len(slots) + 1] = at
        /\ \A i \in 1 .. Len(slots) : Append(slots, at)[i] = slots[i]
    BY <2>1, Appended
  <2> QED
    BY <1>1, <1>3, <1>4, <2>2
<1>6. PICK kept : kept = [i \in DOMAIN slots |-> IsLive(heap, slots[i])]
  OBVIOUS
<1>7. PICK keep : keep = [i \in DOMAIN longer |-> IsLive(new, longer[i])]
  OBVIOUS
<1>8. \A i \in 1 .. n : slots[i] \in All(heap) /\ slots[i] \in Position
  BY <1>2, <1>3 DEF Enumerates, All
<1>9. \A i \in 1 .. n : kept[i] = keep[i]
  <2>1. ASSUME NEW i \in 1 .. n PROVE kept[i] = keep[i]
    <3>1. IsLive(heap, slots[i]) = IsLive(new, slots[i])
      <4>1. slots[i] \in Position /\ slots[i] \in All(heap)
        BY <1>8
      <4>2. IsLive(heap, slots[i]) <=> IsLive(new, slots[i])
        BY <4>1, LiveIs
      <4>3. IsLive(heap, slots[i]) \in BOOLEAN /\ IsLive(new, slots[i]) \in BOOLEAN
        BY DEF IsLive
      <4> QED
        BY <4>2, <4>3
    <3>2. i \in 1 .. n + 1
      OBVIOUS
    <3> QED
      BY <1>3, <1>5, <1>6, <1>7, <3>1, <3>2
  <2> QED
    BY <2>1
<1>10. keep[n + 1] <=> at \in LiveIn(new)
  <2>1. IsLive(new, at) <=> at \in LiveIn(new)
    BY LiveIs
  <2>2. n + 1 \in DOMAIN longer
    BY <1>5
  <2> QED
    BY <1>5, <1>7, <2>1, <2>2
<1>11. PICK m \in Nat : m = n + 1
  OBVIOUS
<1>12. Filter(longer, keep) = IF keep[m] THEN Append(Filter(slots, kept), longer[m]) ELSE Filter(slots, kept)
  <2>1. m # 0 /\ DOMAIN longer = 1 .. m /\ DOMAIN slots = 1 .. m - 1
        /\ (\A i \in 1 .. m - 1 : slots[i] = longer[i]) /\ (\A i \in 1 .. m - 1 : kept[i] = keep[i])
    BY <1>3, <1>5, <1>9, <1>11
  <2> QED
    BY <2>1, FilterLast
<1>13. HeapScan(new) = Filter(longer, keep)
  BY <1>4, <1>7 DEF HeapScan
<1>14. HeapScan(heap) = Filter(slots, kept)
  BY <1>1, <1>6 DEF HeapScan
<1> QED
  BY <1>5, <1>10, <1>11, <1>12, <1>13, <1>14

\* A stored row is the last of a scan.
LEMMA StoredRows ==
    ASSUME NEW S, NEW heap, HeapIn(heap, S), NEW row, row # Gone, NEW at, NEW new,
           HeapIn(new, S), Stored(heap, row, at, new)
    PROVE  RowsOf(new) = Append(RowsOf(heap), row)
<1>1. /\ LiveIn(new) = LiveIn(heap) \cup {at} /\ at \notin LiveIn(heap)
  BY StoredLive
<1>2. at \in Position /\ at \notin All(heap) /\ Slots(new) = Append(Slots(heap), at)
      /\ HeapRead(new, at) = row /\ \A x \in All(heap) : HeapRead(new, x) = HeapRead(heap, x)
  BY DEF Stored
<1>3. \A x \in All(heap) : x \in LiveIn(new) <=> x \in LiveIn(heap)
  BY <1>1, <1>2
<1>4. PICK scan : scan = HeapScan(heap)
  OBVIOUS
<1>5. HeapScan(new) = Append(scan, at)
  <2>1. HeapScan(new) = IF at \in LiveIn(new) THEN Append(HeapScan(heap), at) ELSE HeapScan(heap)
    BY <1>2, <1>3, ScanAppend
  <2> QED
    BY <1>1, <1>4, <2>1
<1>6. Enumerates(scan, LiveIn(heap))
  BY <1>4, ScanIs
<1>7. PICK n \in Nat : n = Len(scan)
  BY <1>6 DEF Enumerates
<1>8. PICK longer : longer = Append(scan, at)
  OBVIOUS
<1>9. DOMAIN longer = 1 .. n + 1 /\ longer[n + 1] = at /\ \A i \in 1 .. n : longer[i] = scan[i]
  <2>1. scan \in Seq(Position)
    BY <1>6 DEF Enumerates
  <2> QED
    BY <1>2, <1>7, <1>8, <2>1, Appended
<1>10. PICK rows : rows = RowsOf(heap)
  OBVIOUS
<1>11. rows \in Seq(S) /\ Len(rows) = n /\ \A i \in 1 .. n : scan[i] \in LiveIn(heap) /\ rows[i] = HeapRead(heap, scan[i])
  BY <1>4, <1>7, <1>10, RowsOfIs
<1>12. PICK news : news = [i \in 1 .. n + 1 |-> HeapRead(new, longer[i])]
  OBVIOUS
<1>13. RowsOf(new) = news
  BY <1>5, <1>8, <1>9, <1>12 DEF RowsOf
<1>14. \A i \in 1 .. n : news[i] = rows[i]
  <2>1. ASSUME NEW i \in 1 .. n PROVE news[i] = rows[i]
    <3>1. i \in 1 .. n + 1 /\ scan[i] \in All(heap)
      BY <1>11 DEF LiveIn
    <3> QED
      BY <1>2, <1>9, <1>11, <1>12, <3>1
  <2> QED
    BY <2>1
<1>15. news[n + 1] = row
  BY <1>2, <1>9, <1>12
<1>16. news = Append(rows, row)
  <2>1. row \in S
    <3>1. at \in LiveIn(new)
      BY <1>1
    <3> QED
      BY <1>2, <3>1, LiveRow
  <2>2. /\ Append(rows, row) \in Seq(S) /\ Len(Append(rows, row)) = Len(rows) + 1
        /\ Append(rows, row)[Len(rows) + 1] = row /\ \A i \in 1 .. Len(rows) : Append(rows, row)[i] = rows[i]
    BY <1>11, <2>1, Appended
  <2>3. PICK long : long = Append(rows, row)
    OBVIOUS
  <2>4. \A i \in 1 .. n + 1 : i = n + 1 \/ i \in 1 .. n
    OBVIOUS
  <2>5. \A i \in 1 .. n + 1 : long[i] = news[i]
    BY <1>11, <1>14, <1>15, <2>2, <2>3, <2>4
  <2>6. long \in Seq(S) /\ Len(long) = n + 1
    BY <1>11, <2>2, <2>3
  <2>7. long = [i \in 1 .. n + 1 |-> long[i]]
    BY <2>6
  <2> QED
    BY <1>12, <2>3, <2>5, <2>7
<1> QED
  BY <1>10, <1>13, <1>16

\* A stored row tombstoned again leaves the rows as they were.
LEMMA UnstoredRows ==
    ASSUME NEW S, NEW heap, HeapIn(heap, S), NEW row, row # Gone, NEW at, NEW mid,
           Stored(heap, row, at, mid), NEW new, Marked(mid, at, new)
    PROVE  LiveIn(new) = LiveIn(heap) /\ RowsOf(new) = RowsOf(heap)
<1>1. /\ LiveIn(mid) = LiveIn(heap) \cup {at} /\ at \notin LiveIn(heap)
  BY StoredLive
<1>2. at \in Position /\ at \notin All(heap) /\ Slots(mid) = Append(Slots(heap), at) /\ All(mid) = All(heap) \cup {at}
      /\ \A x \in All(heap) : HeapRead(mid, x) = HeapRead(heap, x)
  BY DEF Stored
<1>3. Slots(new) = Slots(mid) /\ LiveIn(new) = LiveIn(mid) \ {at}
      /\ \A x \in All(mid) : x # at => HeapRead(new, x) = HeapRead(mid, x)
  BY DEF Marked
<1>4. LiveIn(new) = LiveIn(heap)
  BY <1>1, <1>3
<1>5. Slots(new) = Append(Slots(heap), at)
  BY <1>2, <1>3
<1>6. \A x \in All(heap) : x \in LiveIn(new) <=> x \in LiveIn(heap)
  BY <1>4
<1>7. at \notin LiveIn(new)
  BY <1>1, <1>4
<1>8. HeapScan(new) = HeapScan(heap)
  <2>1. HeapScan(new) = IF at \in LiveIn(new) THEN Append(HeapScan(heap), at) ELSE HeapScan(heap)
    BY <1>2, <1>5, <1>6, ScanAppend
  <2> QED
    BY <1>7, <2>1
<1>9. \A x \in LiveIn(heap) : HeapRead(new, x) = HeapRead(heap, x)
  <2>1. ASSUME NEW x \in LiveIn(heap) PROVE HeapRead(new, x) = HeapRead(heap, x)
    <3>1. x \in All(heap) /\ x # at /\ x \in All(mid)
      BY <1>1, <1>2 DEF LiveIn
    <3> QED
      BY <1>2, <1>3, <3>1
  <2> QED
    BY <2>1
<1>10. RowsOf(new) = RowsOf(heap)
  BY <1>8, <1>9, SameRows
<1> QED
  BY <1>4, <1>10

CopyFold == INSTANCE Folding WITH Op <- CopyRow, Step <- NoStep

LEMMA InsertFails ==
    ASSUME NEW heap, NEW row, NEW pages, NEW put, put = HeapInsert(heap, row, pages), ~put.ok
    PROVE  put.heap = heap
<1>1. PICK n : n = Len(heap.pages)
  OBVIOUS
<1>2. PICK fits : fits = (n > 0 /\ HasRoom(heap.pages[n], RecordSize(row)))
  OBVIOUS
<1>3. PICK ok : ok = (RecordSize(row) <= PageRoom + Trailer - SlotWidth /\ (fits \/ pages > 0))
  OBVIOUS
<1>4. PICK other : other = put
  OBVIOUS
<1>5. CASE ~ok
  <2>1. put = [ok |-> FALSE, pages |-> pages, position |-> <<>>, heap |-> heap]
    BY <1>1, <1>2, <1>3, <1>5 DEF HeapInsert
  <2> QED
    BY <2>1
<1>6. CASE ok
  <2>1. put.ok
    BY <1>1, <1>2, <1>3, <1>6 DEF HeapInsert
  <2> QED
    BY <2>1
<1> QED
  BY <1>5, <1>6

LEMMA InsertGives ==
    ASSUME NEW heap, NEW row, NEW pages, NEW put, put = HeapInsert(heap, row, pages)
    PROVE  put = [ok |-> put.ok, heap |-> put.heap, pages |-> put.pages, position |-> put.position]
<1>1. PICK n : n = Len(heap.pages)
  OBVIOUS
<1>2. PICK fits : fits = (n > 0 /\ HasRoom(heap.pages[n], RecordSize(row)))
  OBVIOUS
<1>3. PICK ok : ok = (RecordSize(row) <= PageRoom + Trailer - SlotWidth /\ (fits \/ pages > 0))
  OBVIOUS
<1>4. CASE ~ok
  <2>1. put = [ok |-> FALSE, pages |-> pages, position |-> <<>>, heap |-> heap]
    BY <1>1, <1>2, <1>3, <1>4 DEF HeapInsert
  <2> QED
    BY <2>1
<1>5. CASE ok
  <2>1. PICK ready : ready = IF fits THEN heap.pages ELSE Append(heap.pages, [slots |-> <<>>, free |-> PageRoom])
    OBVIOUS
  <2>2. PICK at : at = IF fits THEN n ELSE n + 1
    OBVIOUS
  <2>3. PICK new : new = [pages |-> [ready EXCEPT ![at] =
                                  [slots |-> Append(@.slots, row), free |-> @.free - RecordSize(row) - SlotWidth]],
                     nlive |-> heap.nlive + 1,
                     nslots |-> heap.nslots + 1]
    OBVIOUS
  <2>4. put = [ok |-> TRUE, pages |-> IF fits THEN pages ELSE pages - 1,
               position |-> <<at, Len(ready[at].slots) + 1>>, heap |-> new]
    BY <1>1, <1>2, <1>3, <1>5, <2>1, <2>2, <2>3 DEF HeapInsert
  <2>5. PICK left, position : put = [ok |-> TRUE, pages |-> left, position |-> position, heap |-> new]
    BY <2>4
  <2> QED
    BY <2>5
<1> QED
  BY <1>4, <1>5

LEMMA EmptyHeapIs ==
    ASSUME NEW T \in SUBSET Seq(Values)
    PROVE  HeapOK(EmptyHeap, T) /\ RowsOf(EmptyHeap) = <<>> /\ LiveIn(EmptyHeap) = {} /\ All(EmptyHeap) = {}
<1>1. EmptyHeap.pages = <<>> /\ EmptyHeap.nlive = 0 /\ EmptyHeap.nslots = 0
  BY DEF EmptyHeap
<1>2. HeapIn(EmptyHeap, T)
  <2>1. <<>> \in Seq(PageType(T))
    OBVIOUS
  <2> QED
    BY <2>1 DEF EmptyHeap, HeapIn
<1>3. All(EmptyHeap) = {} /\ LiveIn(EmptyHeap) = {}
  <2>1. DOMAIN EmptyHeap.pages = {}
    BY <1>1
  <2> QED
    BY <2>1 DEF All, LiveIn
<1>4. Enumerates(Slots(EmptyHeap), {}) /\ Enumerates(HeapScan(EmptyHeap), {})
  BY <1>2, <1>3, SlotsAre, ScanIs
<1>5. Len(Slots(EmptyHeap)) = 0 /\ Len(HeapScan(EmptyHeap)) = 0
  <2>1. \A seq : Enumerates(seq, {}) => Len(seq) = 0
    <3>1. ASSUME NEW seq, Enumerates(seq, {}) PROVE Len(seq) = 0
      <4>1. Len(seq) \in Nat /\ \A i \in 1 .. Len(seq) : seq[i] \in {}
        BY <3>1 DEF Enumerates
      <4>2. 1 \notin 1 .. Len(seq)
        BY <4>1
      <4> QED
        BY <4>1, <4>2
    <3> QED
      BY <3>1
  <2> QED
    BY <1>4, <2>1
<1>6. RowsOf(EmptyHeap) = <<>>
  <2>1. PICK rows : rows = RowsOf(EmptyHeap)
    OBVIOUS
  <2>2. rows \in Seq(T) /\ Len(rows) = 0
    BY <1>2, <1>5, <2>1, RowsOfIs
  <2>3. rows = <<>>
    BY <2>2
  <2> QED
    BY <2>1, <2>3
<1>7. Counted(EmptyHeap)
  BY <1>1, <1>3, <1>5, FS_EmptySet DEF Counted
<1>8. Roomy(EmptyHeap)
  BY <1>1 DEF Roomy
<1> QED
  BY <1>2, <1>3, <1>6, <1>7, <1>8 DEF HeapOK

(* The first k rows are copied *)
Copied(to, rows, T, k) ==
  /\ to.ok \in BOOLEAN
  /\ HeapOK(to.heap, T)
  /\ to.ok => /\ Len(RowsOf(to.heap)) = k
              /\ \A i \in 1 .. k : RowsOf(to.heap)[i] = rows[i]

LEMMA CopyNext ==
    ASSUME NEW T, NEW rows \in Seq(T), NEW k \in 1 .. Len(rows), NEW to, Copied(to, rows, T, k - 1),
           NEW next, next = CopyRow(to, rows[k])
    PROVE  Copied(next, rows, T, k)
<1>1. PICK row \in T : row = rows[k]
  OBVIOUS
<1>2. CASE ~to.ok
  <2>1. next = to
    BY <1>2 DEF CopyRow
  <2> QED
    BY <1>2, <2>1 DEF Copied
<1>3. CASE to.ok
  <2>1. next = HeapInsert(to.heap, row, to.pages)
    BY <1>1, <1>3 DEF CopyRow
  <2>2. PICK heap : heap = to.heap
    OBVIOUS
  <2>3. HeapOK(heap, T) /\ HeapIn(heap, T)
    BY <2>2 DEF Copied, HeapOK
  <2>4. next = HeapInsert(heap, row, to.pages)
    BY <2>1, <2>2
  <2>5. next.ok \in BOOLEAN
    BY <2>3, <2>4, InsertIs
  <2>6. CASE ~next.ok
    <3>1. next.heap = heap
      BY <2>4, <2>6, InsertFails
    <3> QED
      BY <2>3, <2>5, <2>6, <3>1 DEF Copied
  <2>7. CASE next.ok
    <3>1. HeapOK(next.heap, T) /\ Put(heap, row, next) /\ row # Gone
      BY <2>3, <2>4, <2>7, StoreKeeps
    <3>2. HeapIn(next.heap, T) /\ Stored(heap, row, next.position, next.heap)
      BY <3>1 DEF HeapOK, Put
    <3>3. RowsOf(next.heap) = Append(RowsOf(heap), row)
      BY <2>3, <3>1, <3>2, StoredRows
    <3>4. PICK before : before = RowsOf(heap)
      OBVIOUS
    <3>5. before \in Seq(T) /\ Len(before) = k - 1 /\ \A i \in 1 .. k - 1 : before[i] = rows[i]
      BY <1>3, <2>2, <2>3, <3>4, RowsOfIs DEF Copied
    <3>6. PICK after : after = Append(before, row)
      OBVIOUS
    <3>7. Len(after) = k - 1 + 1 /\ after[k - 1 + 1] = row /\ \A i \in 1 .. k - 1 : after[i] = before[i]
      BY <3>5, <3>6, Appended
    <3>8. k - 1 + 1 = k /\ \A i \in 1 .. k : i = k \/ i \in 1 .. k - 1
      OBVIOUS
    <3>9. Len(after) = k /\ \A i \in 1 .. k : after[i] = rows[i]
      BY <1>1, <3>5, <3>7, <3>8
    <3> QED
      BY <2>5, <3>1, <3>3, <3>4, <3>6, <3>9 DEF Copied
  <2> QED
    BY <2>5, <2>6, <2>7
<1> QED
  BY <1>2, <1>3

LEMMA CopyIsFold ==
    ASSUME NEW base, NEW seq
    PROVE  FoldLeft(CopyRow, base, seq) = CopyFold!Folded(base, seq)
BY DEF FoldLeft, MapThenFoldSet, Max,
       CopyFold!Folded, CopyFold!MapThenFoldSet, CopyFold!Greatest

\* A heap compacted has the same rows in the same order.
LEMMA CompactIs ==
    ASSUME NEW S, NEW heap, HeapIn(heap, S), NEW T \in SUBSET Seq(Values), RowsOf(heap) \in Seq(T),
           NEW pages, NEW compact, compact = HeapCompact(heap, pages)
    PROVE  /\ compact.ok \in BOOLEAN
           /\ compact.ok => HeapOK(compact.heap, T) /\ RowsOf(compact.heap) = RowsOf(heap)
           /\ ~compact.ok => HeapScan(heap) # <<>>
<1>1. PICK rows : rows = RowsOf(heap)
  OBVIOUS
<1>2. PICK n \in Nat : n = Len(rows) /\ DOMAIN rows = 1 .. n
  BY <1>1
<1>3. PICK base : base = [ok |-> TRUE, heap |-> EmptyHeap, pages |-> pages, position |-> <<>>]
  OBVIOUS
<1>4. PICK r : CopyFold!Stages(r, base, n, rows)
  BY <1>2, CopyFold!FoldSteps
<1> DEFINE Bad == {k \in 0 .. n : ~Copied(r[k], rows, T, k)}
<1>5. 0 \notin Bad
  <2>1. r[0] = base
    BY <1>4 DEF CopyFold!Stages
  <2>2. base.ok = TRUE /\ base.heap = EmptyHeap
    BY <1>3
  <2>3. RowsOf(EmptyHeap) = <<>> /\ HeapOK(EmptyHeap, T)
    BY EmptyHeapIs
  <2>4. Len(<<>>) = 0 /\ \A i \in 1 .. 0 : FALSE
    OBVIOUS
  <2>5. Copied(base, rows, T, 0)
    <3> HIDE DEF Bad
    <3> QED
      BY <2>2, <2>3, <2>4 DEF Copied
  <2> QED
    BY <2>1, <2>5
<1>6. ASSUME NEW k \in 1 .. n, k \in Bad PROVE k - 1 \in Bad
  <2>1. SUFFICES ASSUME k - 1 \notin Bad PROVE FALSE
    OBVIOUS
  <2>2. k - 1 \in 0 .. n
    OBVIOUS
  <2>3. Copied(r[k - 1], rows, T, k - 1)
    BY <2>1, <2>2
  <2>4. r[k] = CopyRow(r[k - 1], rows[k])
    BY <1>4 DEF CopyFold!Stages
  <2>5. Copied(r[k], rows, T, k)
    BY <1>1, <1>2, <2>3, <2>4, CopyNext
  <2> QED
    BY <1>6, <2>5
<1>7. Bad = {}
  <2>1. Bad \in SUBSET (0 .. n)
    OBVIOUS
  <2> HIDE DEF Bad
  <2> QED
    BY <1>5, <1>6, <2>1, CopyFold!Climb
<1>8. Copied(r[n], rows, T, n)
  BY <1>7
<1>9. PICK copied : copied = r[n]
  OBVIOUS
<1>10. copied = FoldLeft(CopyRow, base, rows)
  BY <1>4, <1>9, CopyIsFold DEF CopyFold!Stages
<1>11. compact = IF copied.ok THEN [copied EXCEPT !.pages = @ + Len(heap.pages)]
                 ELSE [copied EXCEPT !.heap = heap, !.pages = pages]
  BY <1>1, <1>3, <1>10 DEF HeapCompact
<1>12. compact.ok = copied.ok /\ (copied.ok => compact.heap = copied.heap)
  <2> DEFINE Fresh(x) == x = [ok |-> x.ok, heap |-> x.heap, pages |-> x.pages, position |-> x.position]
  <2>1. Fresh(base)
    BY <1>3
  <2>2. \A heap1, row, pages1 : Fresh(HeapInsert(heap1, row, pages1))
    BY InsertGives
  <2>3. CASE n = 0
    BY <1>4, <1>9, <1>11, <2>1, <2>3 DEF CopyFold!Stages
  <2>4. \A k \in 0 .. n : Fresh(r[k])
    <3> HIDE DEF Bad
    <3> DEFINE Other == {k \in 0 .. n : ~Fresh(r[k])}
    <3>1. 0 \notin Other
      BY <1>4, <2>1 DEF CopyFold!Stages
    <3>2. ASSUME NEW k \in 1 .. n, k \in Other PROVE k - 1 \in Other
      <4>1. r[k] = CopyRow(r[k - 1], rows[k]) /\ k - 1 \in 0 .. n
        BY <1>4 DEF CopyFold!Stages
      <4>2. r[k] = r[k - 1] \/ r[k] = HeapInsert(r[k - 1].heap, rows[k], r[k - 1].pages)
        BY <4>1 DEF CopyRow
      <4>3. ~Fresh(r[k])
        BY <3>2
      <4>4. r[k] = r[k - 1]
        BY <2>2, <4>2, <4>3
      <4>5. ~Fresh(r[k - 1])
        BY <4>3, <4>4
      <4> QED
        BY <4>1, <4>5
    <3>3. Other = {}
      <4>1. Other \in SUBSET (0 .. n)
        OBVIOUS
      <4> HIDE DEF Other
      <4> QED
        BY <3>1, <3>2, <4>1, CopyFold!Climb
    <3> QED
      BY <3>3
  <2>5. Fresh(copied)
    BY <1>2, <1>9, <2>4
  <2> QED
    BY <1>11, <2>5
<1>13. ASSUME copied.ok PROVE RowsOf(copied.heap) = rows
  <2>1. PICK others : others = RowsOf(copied.heap)
    OBVIOUS
  <2>2. HeapIn(copied.heap, T)
    BY <1>8, <1>9 DEF Copied, HeapOK
  <2>3. others \in Seq(T)
    BY <2>1, <2>2, RowsOfIs
  <2>4. Len(others) = n /\ \A i \in 1 .. n : others[i] = rows[i]
    BY <1>8, <1>9, <1>13, <2>1 DEF Copied
  <2>5. rows = [i \in 1 .. n |-> rows[i]]
    BY <1>1, <1>2
  <2>6. others = [i \in 1 .. n |-> others[i]]
    BY <2>3, <2>4
  <2>7. others = rows
    BY <2>4, <2>5, <2>6
  <2> QED
    BY <2>1, <2>7
<1>14. ASSUME ~copied.ok PROVE HeapScan(heap) # <<>>
  <2>1. n # 0
    <3>1. SUFFICES ASSUME n = 0 PROVE FALSE
      OBVIOUS
    <3>2. copied = base
      BY <1>4, <1>9, <3>1 DEF CopyFold!Stages
    <3> QED
      BY <1>3, <1>14, <3>2
  <2>2. Len(HeapScan(heap)) = n
    BY <1>1, <1>2, RowsOfIs
  <2>3. Len(<<>>) = 0
    OBVIOUS
  <2> QED
    BY <2>1, <2>2, <2>3
<1>15. copied.ok \in BOOLEAN /\ HeapOK(copied.heap, T)
  BY <1>8, <1>9 DEF Copied
<1> QED
  BY <1>1, <1>12, <1>13, <1>14, <1>15

EntryFold == INSTANCE Folding WITH Op <- AddEntry, Step <- NoStep
FillFold == INSTANCE Folding WITH Op <- FillEntry, Step <- NoStep
RebuildFold == INSTANCE Folding WITH Op <- RebuildIndex, Step <- NoStep

-----------------------------------------------------------------------------
(* Sequences whose elements are of no set named *)

IsSeq(seq) == seq \in Seq({seq[i] : i \in DOMAIN seq})

LEMMA SeqIs ==
    ASSUME NEW seq, IsSeq(seq)
    PROVE  Len(seq) \in Nat /\ DOMAIN seq = 1 .. Len(seq) /\ seq = [i \in 1 .. Len(seq) |-> seq[i]]
<1>1. PICK S : S = {seq[i] : i \in DOMAIN seq}
  OBVIOUS
<1>2. seq \in Seq(S)
  BY <1>1 DEF IsSeq
<1> QED
  BY <1>2

LEMMA SeqIn ==
    ASSUME NEW S, NEW seq \in Seq(S)
    PROVE  IsSeq(seq) /\ \A i \in DOMAIN seq : seq[i] \in S
<1>1. PICK n \in Nat : n = Len(seq) /\ DOMAIN seq = 1 .. n
  OBVIOUS
<1>2. PICK T : T = {seq[i] : i \in DOMAIN seq}
  OBVIOUS
<1>3. \A i \in 1 .. n : seq[i] \in T
  BY <1>1, <1>2
<1>4. seq \in Seq(T)
  BY <1>1, <1>3
<1> QED
  BY <1>2, <1>4 DEF IsSeq

SetAt(seq, k, x) == [seq EXCEPT ![k] = x]

\* A sequence with one element replaced is one.
LEMMA SeqExcept ==
    ASSUME NEW seq, IsSeq(seq), NEW k \in DOMAIN seq, NEW x
    PROVE  /\ IsSeq(SetAt(seq, k, x)) /\ Len(SetAt(seq, k, x)) = Len(seq)
           /\ DOMAIN SetAt(seq, k, x) = DOMAIN seq
           /\ SetAt(seq, k, x)[k] = x /\ \A i \in DOMAIN seq : i # k => SetAt(seq, k, x)[i] = seq[i]
<1>0. PICK new : new = SetAt(seq, k, x)
  OBVIOUS
<1>1. PICK S : S = {seq[i] : i \in DOMAIN seq}
  OBVIOUS
<1>2. seq \in Seq(S)
  BY <1>1 DEF IsSeq
<1>3. PICK T : T = S \cup {x}
  OBVIOUS
<1>4. seq \in Seq(T) /\ x \in T
  <2>1. \A i \in DOMAIN seq : seq[i] \in T
    BY <1>1, <1>3
  <2> QED
    BY <1>2, <1>3, <2>1
<1>5. /\ new \in Seq(T) /\ DOMAIN new = DOMAIN seq /\ Len(new) = Len(seq)
      /\ new[k] = x /\ \A q \in DOMAIN seq : q # k => new[q] = seq[q]
  BY <1>0, <1>4, Placed DEF SetAt
<1> QED
  BY <1>0, <1>5, SeqIn

-----------------------------------------------------------------------------
(* The indexes *)

IndexOK(index, cols, slots, once) ==
  /\ index = [column |-> index.column, slot |-> index.slot, tree |-> index.tree]
  /\ index.slot \in DOMAIN cols /\ cols[index.slot].name = index.column
  /\ TreeOK(index.tree, slots, once)

IndexesOK(indexes, cols, slots, once) ==
  /\ IsSeq(indexes)
  /\ \A i \in DOMAIN indexes : IndexOK(indexes[i], cols, slots, once)

\* More slots to be from, or no promise that each row is there once.
LEMMA TreeWeaker ==
    ASSUME NEW tree, NEW slots, NEW once \in BOOLEAN, TreeOK(tree, slots, once),
           NEW more, slots \subseteq more, NEW still \in BOOLEAN, still => once
    PROVE  TreeOK(tree, more, still)
<1>1. still => RowsOnce(tree.nodes, more)
  BY DEF TreeOK, RowsOnce
<1> QED
  BY <1>1 DEF TreeOK

LEMMA IndexesWeaker ==
    ASSUME NEW indexes, NEW cols, NEW slots, NEW once \in BOOLEAN, IndexesOK(indexes, cols, slots, once),
           NEW more, slots \subseteq more, NEW still \in BOOLEAN, still => once
    PROVE  IndexesOK(indexes, cols, more, still)
<1>1. ASSUME NEW i \in DOMAIN indexes PROVE IndexOK(indexes[i], cols, more, still)
  <2>1. PICK index : index = indexes[i]
    OBVIOUS
  <2>2. IndexOK(index, cols, slots, once)
    BY <2>1 DEF IndexesOK
  <2>3. TreeOK(index.tree, slots, once)
    BY <2>2 DEF IndexOK
  <2>4. PICK tree : tree = index.tree
    OBVIOUS
  <2>5. TreeOK(tree, more, still)
    BY <2>3, <2>4, TreeWeaker
  <2> QED
    BY <2>1, <2>2, <2>4, <2>5 DEF IndexOK
<1> QED
  BY <1>1 DEF IndexesOK

(* The first k indexes have the row at a position *)
Adding(done, indexes, cols, slots, at, once, k) ==
  /\ done.ok \in BOOLEAN /\ done.damaged \in BOOLEAN
  /\ IsSeq(done.indexes) /\ Len(done.indexes) = Len(indexes)
  /\ \A i \in 1 .. k : IndexOK(done.indexes[i], cols, slots \cup {at}, once)
  /\ \A i \in k + 1 .. Len(indexes) : done.indexes[i] = indexes[i]

IndexableRow(row, cols) == \A c \in DOMAIN cols : row[c] # NULL => row[c] \in Seq(Int)

LEMMA AddNext ==
    ASSUME NEW indexes, NEW cols, NEW slots, NEW once \in BOOLEAN, IndexesOK(indexes, cols, slots, once),
           NEW at \in Position, at \notin slots, NEW row, IndexableRow(row, cols),
           NEW k \in 1 .. Len(indexes), NEW done, Adding(done, indexes, cols, slots, at, once, k - 1)
    PROVE  Adding(AddEntry(done, [index |-> k, value |-> row[indexes[k].slot], row |-> at]),
                  indexes, cols, slots, at, once, k)
<1>1. PICK n \in Nat : n = Len(indexes) /\ DOMAIN indexes = 1 .. n
  BY SeqIs DEF IndexesOK
<1>2. IsSeq(done.indexes) /\ Len(done.indexes) = n
  BY <1>1 DEF Adding
<1>3. DOMAIN done.indexes = 1 .. n /\ done.indexes = [i \in 1 .. n |-> done.indexes[i]]
  BY <1>2, SeqIs
<1>4. k \in 1 .. n /\ k \in k - 1 + 1 .. n /\ k + 1 \in Int
  BY <1>1
<1>5. done.indexes[k] = indexes[k]
  BY <1>1, <1>4 DEF Adding
<1>6. PICK index : index = indexes[k]
  OBVIOUS
<1>7. IndexOK(index, cols, slots, once)
  BY <1>1, <1>6 DEF IndexesOK
<1>8. PICK all : all = slots \cup {at}
  OBVIOUS
<1>9. \A i \in 1 .. k - 1 : IndexOK(done.indexes[i], cols, all, once)
  BY <1>8 DEF Adding
<1>10. \A i \in k + 1 .. n : done.indexes[i] = indexes[i]
  <2>1. \A i \in k + 1 .. n : i \in k - 1 + 1 .. n
    BY <1>1
  <2> QED
    BY <1>1, <2>1 DEF Adding
<1>11. \A i \in 1 .. k : i = k \/ i \in 1 .. k - 1
  OBVIOUS
<1>12. PICK next : next = AddEntry(done, [index |-> k, value |-> row[indexes[k].slot], row |-> at])
  OBVIOUS
<1>13. CASE ~done.ok
  <2>1. next = done
    BY <1>12, <1>13 DEF AddEntry
  <2>2. IndexOK(index, cols, all, once)
    <3>1. PICK tree : tree = index.tree
      OBVIOUS
    <3>2. TreeOK(tree, slots, once)
      BY <1>7, <3>1 DEF IndexOK
    <3>3. TreeOK(tree, all, once)
      BY <1>8, <3>2, TreeWeaker
    <3> QED
      BY <1>7, <3>1, <3>3 DEF IndexOK
  <2>3. \A i \in 1 .. k : IndexOK(done.indexes[i], cols, all, once)
    BY <1>5, <1>6, <1>9, <1>11, <2>2
  <2> QED
    BY <1>1, <1>2, <1>8, <1>10, <1>12, <2>1, <2>3 DEF Adding
<1>14. CASE done.ok
  <2>1. PICK value : value = row[index.slot]
    OBVIOUS
  <2>2. PICK tree : tree = index.tree
    OBVIOUS
  <2>3. PICK put : put = IndexInsert(tree, value, at, done.pages)
    OBVIOUS
  <2>4. TreeOK(put.tree, all, once) /\ put.ok \in BOOLEAN /\ put.rootLost \in BOOLEAN
    <3>1. value # NULL => value \in Seq(Int)
      BY <1>7, <2>1 DEF IndexOK, IndexableRow
    <3>2. TreeOK(tree, slots, once)
      BY <1>7, <2>2 DEF IndexOK
    <3>3. once => at \notin slots
      OBVIOUS
    <3>4. PICK left : left = done.pages
      OBVIOUS
    <3>5. put = IndexInsert(tree, value, at, left)
      BY <2>3, <3>4
    <3>6. TreeOK(put.tree, slots \cup {at}, once) /\ put.ok \in BOOLEAN /\ put.rootLost \in BOOLEAN
      BY <3>1, <3>2, <3>3, <3>5, InsertKeeps
    <3> QED
      BY <1>8, <3>6
  <2>5. PICK new : new = [index EXCEPT !.tree = put.tree]
    OBVIOUS
  <2>6. IndexOK(new, cols, all, once)
    <3>1. index = [column |-> index.column, slot |-> index.slot, tree |-> index.tree]
      BY <1>7 DEF IndexOK
    <3>2. new = [column |-> index.column, slot |-> index.slot, tree |-> put.tree]
      BY <2>5, <3>1
    <3>3. new.column = index.column /\ new.slot = index.slot /\ new.tree = put.tree
      BY <3>2
    <3> QED
      BY <1>7, <2>4, <3>2, <3>3 DEF IndexOK
  <2>7. PICK news : news = [done.indexes EXCEPT ![k] = new]
    OBVIOUS
  <2>8. next.indexes = news /\ next.ok = put.ok /\ next.damaged = put.rootLost
    <3>1. PICK olds : olds = done.indexes
      OBVIOUS
    <3>2. [olds EXCEPT ![k].tree = put.tree] = news
      BY <1>4, <1>3, <1>5, <1>6, <2>5, <2>7, <3>1
    <3>3. next = [indexes |-> [olds EXCEPT ![k].tree = put.tree],
                  pages |-> put.pages, ok |-> put.ok, damaged |-> put.rootLost]
      BY <1>5, <1>6, <1>12, <1>14, <2>1, <2>2, <2>3, <3>1 DEF AddEntry
    <3> QED
      BY <3>2, <3>3
  <2>9. /\ IsSeq(news) /\ Len(news) = n
        /\ news[k] = new /\ \A i \in 1 .. n : i # k => news[i] = done.indexes[i]
    <3>1. PICK olds : olds = done.indexes
      OBVIOUS
    <3>2. IsSeq(olds) /\ DOMAIN olds = 1 .. n /\ Len(olds) = n /\ k \in DOMAIN olds /\ news = SetAt(olds, k, new)
      BY <1>2, <1>3, <1>4, <2>7, <3>1 DEF SetAt
    <3>3. /\ IsSeq(SetAt(olds, k, new)) /\ Len(SetAt(olds, k, new)) = Len(olds)
          /\ SetAt(olds, k, new)[k] = new /\ \A i \in DOMAIN olds : i # k => SetAt(olds, k, new)[i] = olds[i]
      <4>1. IsSeq(olds) /\ k \in DOMAIN olds
        BY <3>2
      <4> HIDE <3>2
      <4> QED
        BY <4>1, SeqExcept
    <3> QED
      BY <3>1, <3>2, <3>3
  <2>11. \A i \in 1 .. k : IndexOK(news[i], cols, all, once)
    <3>1. \A i \in 1 .. k - 1 : i \in 1 .. n /\ i # k
      BY <1>1
    <3> QED
      BY <1>9, <1>11, <2>6, <2>9, <3>1
  <2>12. \A i \in k + 1 .. n : news[i] = indexes[i]
    <3>1. \A i \in k + 1 .. n : i \in 1 .. n /\ i # k
      BY <1>1
    <3> QED
      BY <1>10, <2>9, <3>1
  <2> QED
    BY <1>1, <1>8, <1>12, <2>4, <2>8, <2>9, <2>11, <2>12 DEF Adding
<1> QED
  <2>1. done.ok \in BOOLEAN
    BY DEF Adding
  <2> QED
    BY <1>13, <1>14, <2>1

LEMMA AddIsFold ==
    ASSUME NEW base, NEW seq
    PROVE  FoldLeft(AddEntry, base, seq) = EntryFold!Folded(base, seq)
BY DEF FoldLeft, MapThenFoldSet, Max,
       EntryFold!Folded, EntryFold!MapThenFoldSet, EntryFold!Greatest

\* Whatever became of it, every index has the row at most once.
LEMMA IndexedIs ==
    ASSUME NEW indexes, NEW cols, NEW slots, NEW once \in BOOLEAN, IndexesOK(indexes, cols, slots, once),
           NEW at \in Position, at \notin slots, NEW row, IndexableRow(row, cols), NEW pages,
           NEW added, added = IndexInsertRow(indexes, row, at, pages)
    PROVE  /\ added.ok \in BOOLEAN /\ added.damaged \in BOOLEAN
           /\ IndexesOK(added.indexes, cols, slots \cup {at}, once)
<1>1. PICK n \in Nat : n = Len(indexes) /\ DOMAIN indexes = 1 .. n
  BY SeqIs DEF IndexesOK
<1>2. PICK base : base = [indexes |-> indexes, pages |-> pages, ok |-> TRUE, damaged |-> FALSE]
  OBVIOUS
<1>3. PICK seq : seq = [i \in DOMAIN indexes |-> [index |-> i, value |-> row[indexes[i].slot], row |-> at]]
  OBVIOUS
<1>4. DOMAIN seq = 1 .. n
  BY <1>1, <1>3
<1>5. PICK r : EntryFold!Stages(r, base, n, seq)
  BY <1>4, EntryFold!FoldSteps
<1> DEFINE Bad == {k \in 0 .. n : ~Adding(r[k], indexes, cols, slots, at, once, k)}
<1>6. 0 \notin Bad
  <2>1. r[0] = base
    BY <1>5 DEF EntryFold!Stages
  <2>2. base.ok = TRUE /\ base.damaged = FALSE /\ base.indexes = indexes
    BY <1>2
  <2>3. Adding(base, indexes, cols, slots, at, once, 0)
    <3> HIDE DEF Bad
    <3>1. \A i \in 1 .. 0 : FALSE
      OBVIOUS
    <3> QED
      BY <2>2, <3>1 DEF Adding, IndexesOK
  <2> QED
    BY <2>1, <2>3
<1>7. ASSUME NEW k \in 1 .. n, k \in Bad PROVE k - 1 \in Bad
  <2>1. SUFFICES ASSUME k - 1 \notin Bad PROVE FALSE
    OBVIOUS
  <2>2. k - 1 \in 0 .. n
    OBVIOUS
  <2>3. PICK done : done = r[k - 1]
    OBVIOUS
  <2>4. Adding(done, indexes, cols, slots, at, once, k - 1)
    BY <2>1, <2>2, <2>3
  <2>5. r[k] = AddEntry(done, [index |-> k, value |-> row[indexes[k].slot], row |-> at])
    <3>1. r[k] = AddEntry(done, seq[k])
      BY <1>5, <2>3 DEF EntryFold!Stages
    <3>2. seq[k] = [index |-> k, value |-> row[indexes[k].slot], row |-> at]
      BY <1>1, <1>3
    <3> QED
      BY <3>1, <3>2
  <2>6. k \in 1 .. Len(indexes)
    BY <1>1
  <2>7. Adding(r[k], indexes, cols, slots, at, once, k)
    <3> HIDE DEF Bad
    <3> QED
      BY <2>4, <2>5, <2>6, AddNext
  <2> QED
    BY <1>7, <2>7
<1>8. Bad = {}
  <2>1. Bad \in SUBSET (0 .. n)
    OBVIOUS
  <2> HIDE DEF Bad
  <2> QED
    BY <1>6, <1>7, <2>1, EntryFold!Climb
<1>9. Adding(r[n], indexes, cols, slots, at, once, n)
  BY <1>8
<1>10. added = r[n]
  <2>1. added = FoldLeft(AddEntry, base, seq)
    BY <1>2, <1>3 DEF IndexInsertRow
  <2> QED
    BY <1>5, <2>1, AddIsFold DEF EntryFold!Stages
<1>11. IsSeq(added.indexes) /\ Len(added.indexes) = n
  BY <1>1, <1>9, <1>10 DEF Adding
<1>12. DOMAIN added.indexes = 1 .. n
  BY <1>11, SeqIs
<1> QED
  BY <1>9, <1>10, <1>11, <1>12 DEF Adding, IndexesOK

(* The first k of a sequence of positions *)
Firsts(scan, k) == {x \in Position : \E i \in 1 .. k : scan[i] = x}

Filling(done, scan, k) == done.ok \in BOOLEAN /\ TreeOK(done.tree, Firsts(scan, k), TRUE)

LEMMA FillNext ==
    ASSUME NEW heap, NEW scan, Enumerates(scan, LiveIn(heap)), NEW k \in 1 .. Len(scan),
           NEW done, Filling(done, scan, k - 1), NEW value, value # NULL => value \in Seq(Int)
    PROVE  Filling(FillEntry(done, [value |-> value, row |-> scan[k]]), scan, k)
<1>0. PICK n \in Nat : n = Len(scan)
  BY DEF Enumerates
<1>1. scan[k] \in Position /\ \A i, j \in 1 .. n : scan[i] = scan[j] => i = j
  BY <1>0 DEF Enumerates
<1>2. PICK at \in Position : at = scan[k]
  BY <1>1
<1>3. PICK before : before = Firsts(scan, k - 1)
  OBVIOUS
<1>4. Firsts(scan, k) = before \cup {at}
  <2>1. \A i \in 1 .. k : i = k \/ i \in 1 .. k - 1
    OBVIOUS
  <2>2. \A i \in 1 .. k - 1 : i \in 1 .. k
    OBVIOUS
  <2>3. \A x \in Firsts(scan, k) : x \in before \cup {at}
    BY <1>2, <1>3, <2>1 DEF Firsts
  <2>4. \A x \in before : x \in Firsts(scan, k)
    BY <1>3, <2>2 DEF Firsts
  <2>5. at \in Firsts(scan, k)
    BY <1>2 DEF Firsts
  <2> QED
    BY <2>3, <2>4, <2>5
<1>5. at \notin before
  <2>1. SUFFICES ASSUME at \in before PROVE FALSE
    OBVIOUS
  <2>2. PICK i \in 1 .. k - 1 : scan[i] = at
    BY <1>3, <2>1 DEF Firsts
  <2>3. i \in 1 .. n /\ k \in 1 .. n /\ i # k
    BY <1>0
  <2> QED
    BY <1>1, <1>2, <2>2, <2>3
<1>6. PICK next : next = FillEntry(done, [value |-> value, row |-> scan[k]])
  OBVIOUS
<1>7. done.ok \in BOOLEAN /\ TreeOK(done.tree, before, TRUE)
  BY <1>3 DEF Filling
<1>8. PICK tree : tree = done.tree
  OBVIOUS
<1>9. CASE done.ok
  <2>1. PICK left : left = done.pages
    OBVIOUS
  <2>2. next = IndexInsert(tree, value, at, left)
    BY <1>2, <1>6, <1>8, <1>9, <2>1 DEF FillEntry
  <2>3. TreeOK(tree, before, TRUE) /\ (TRUE => at \notin before) /\ TRUE \in BOOLEAN
    BY <1>5, <1>7, <1>8
  <2>4. TreeOK(next.tree, before \cup {at}, TRUE) /\ next.ok \in BOOLEAN
    BY <2>2, <2>3, InsertKeeps
  <2> QED
    BY <1>4, <1>6, <2>4 DEF Filling
<1>10. CASE ~done.ok
  <2>1. next = done
    BY <1>6, <1>10 DEF FillEntry
  <2>2. PICK all : all = before \cup {at}
    OBVIOUS
  <2>3. TreeOK(tree, before, TRUE) /\ before \subseteq all /\ (TRUE => TRUE) /\ TRUE \in BOOLEAN
    BY <1>7, <1>8, <2>2
  <2>4. TreeOK(tree, all, TRUE)
    BY <2>3, TreeWeaker
  <2> QED
    BY <1>4, <1>6, <1>7, <1>8, <2>1, <2>2, <2>4 DEF Filling
<1> QED
  BY <1>7, <1>9, <1>10

LEMMA FillIsFold ==
    ASSUME NEW base, NEW seq
    PROVE  FoldLeft(FillEntry, base, seq) = FillFold!Folded(base, seq)
BY DEF FoldLeft, MapThenFoldSet, Max,
       FillFold!Folded, FillFold!MapThenFoldSet, FillFold!Greatest

(* Every row has a value for the slot *)
Reaches(S, slot) == \A row \in S : row[slot] # NULL => row[slot] \in Seq(Int)

\* An index filled from the rows has each of them at most once.
LEMMA FillIs ==
    ASSUME NEW S, NEW heap, HeapIn(heap, S), NEW slot, Reaches(S, slot), NEW pages,
           NEW filled, filled = FillIndex(heap, slot, pages)
    PROVE  filled.ok \in BOOLEAN /\ TreeOK(filled.tree, All(heap), TRUE)
<1>1. PICK scan : scan = HeapScan(heap)
  OBVIOUS
<1>2. Enumerates(scan, LiveIn(heap))
  BY <1>1, ScanIs
<1>3. PICK n \in Nat : n = Len(scan) /\ DOMAIN scan = 1 .. n
  BY <1>2 DEF Enumerates
<1>4. PICK base : base = [tree |-> EmptyTree, pages |-> pages - 1, ok |-> pages > 0, rootLost |-> FALSE]
  OBVIOUS
<1>5. PICK seq : seq = [i \in DOMAIN scan |-> [value |-> HeapRead(heap, scan[i])[slot], row |-> scan[i]]]
  OBVIOUS
<1>6. DOMAIN seq = 1 .. n
  BY <1>3, <1>5
<1>7. PICK r : FillFold!Stages(r, base, n, seq)
  BY <1>6, FillFold!FoldSteps
<1> DEFINE Bad == {k \in 0 .. n : ~Filling(r[k], scan, k)}
<1>8. 0 \notin Bad
  <2>1. r[0] = base
    BY <1>7 DEF FillFold!Stages
  <2>2. base.ok \in BOOLEAN /\ base.tree = EmptyTree
    BY <1>4
  <2>3. TreeOK(EmptyTree, {}, TRUE)
    BY EmptyTreeIsOK
  <2>4. Firsts(scan, 0) = {}
    <3>1. \A i \in 1 .. 0 : FALSE
      OBVIOUS
    <3> QED
      BY <3>1 DEF Firsts
  <2>5. Filling(base, scan, 0)
    BY <2>2, <2>3, <2>4 DEF Filling
  <2> QED
    BY <2>1, <2>5
<1>9. ASSUME NEW k \in 1 .. n, k \in Bad PROVE k - 1 \in Bad
  <2>1. SUFFICES ASSUME k - 1 \notin Bad PROVE FALSE
    OBVIOUS
  <2>2. k - 1 \in 0 .. n
    OBVIOUS
  <2>3. PICK done : done = r[k - 1]
    OBVIOUS
  <2>4. Filling(done, scan, k - 1)
    BY <2>1, <2>2, <2>3
  <2>5. PICK value : value = HeapRead(heap, scan[k])[slot]
    OBVIOUS
  <2>6. r[k] = FillEntry(done, [value |-> value, row |-> scan[k]])
    <3>1. r[k] = FillEntry(done, seq[k])
      BY <1>7, <2>3 DEF FillFold!Stages
    <3>2. seq[k] = [value |-> value, row |-> scan[k]]
      BY <1>3, <1>5, <2>5
    <3> QED
      BY <3>1, <3>2
  <2>7. value # NULL => value \in Seq(Int)
    <3>1. scan[k] \in LiveIn(heap)
      BY <1>2, <1>3 DEF Enumerates
    <3>2. HeapRead(heap, scan[k]) \in S
      BY <3>1, LiveRow
    <3> QED
      BY <2>5, <3>2 DEF Reaches
  <2>8. k \in 1 .. Len(scan)
    BY <1>3
  <2>9. Filling(r[k], scan, k)
    <3> HIDE DEF Bad
    <3> QED
      BY <1>2, <2>4, <2>6, <2>7, <2>8, FillNext
  <2> QED
    BY <1>9, <2>9
<1>10. Bad = {}
  <2>1. Bad \in SUBSET (0 .. n)
    OBVIOUS
  <2> HIDE DEF Bad
  <2> QED
    BY <1>8, <1>9, <2>1, FillFold!Climb
<1>11. Filling(r[n], scan, n)
  BY <1>10
<1>12. filled = r[n]
  <2>1. filled = FoldLeft(FillEntry, base, seq)
    BY <1>1, <1>4, <1>5 DEF FillIndex
  <2> QED
    BY <1>7, <2>1, FillIsFold DEF FillFold!Stages
<1>13. PICK some : some = Firsts(scan, n)
  OBVIOUS
<1>14. some \subseteq All(heap)
  <2>1. \A i \in 1 .. n : scan[i] \in All(heap)
    BY <1>2, <1>3 DEF Enumerates, LiveIn
  <2> QED
    BY <1>13, <2>1 DEF Firsts
<1>15. PICK tree : tree = filled.tree
  OBVIOUS
<1>16. PICK all : all = All(heap)
  OBVIOUS
<1>17. TreeOK(tree, some, TRUE) /\ some \subseteq all /\ TRUE \in BOOLEAN /\ (TRUE => TRUE)
  BY <1>11, <1>12, <1>13, <1>14, <1>15, <1>16 DEF Filling
<1>18. TreeOK(tree, all, TRUE)
  BY <1>17, TreeWeaker
<1> QED
  BY <1>11, <1>12, <1>15, <1>16, <1>18 DEF Filling

-----------------------------------------------------------------------------
(* The indexes rebuilt *)

IsTable(t) == t = [cols |-> t.cols, check |-> t.check, heap |-> t.heap, indexes |-> t.indexes]

(* The first k indexes are rebuilt *)
Rebuilding(done, t, cols, k) ==
  /\ done.ok \in BOOLEAN /\ done.damaged = ~done.ok
  /\ IsTable(done.table)
  /\ done.table.cols = t.cols /\ done.table.check = t.check /\ done.table.heap = t.heap
  /\ Len(done.table.indexes) = Len(t.indexes)
  /\ IndexesOK(done.table.indexes, cols, {}, FALSE)
  /\ done.ok => \A i \in 1 .. k : TreeOK(done.table.indexes[i].tree, All(t.heap), TRUE)

LEMMA RebuildNext ==
    ASSUME NEW S, NEW t, NEW cols, HeapIn(t.heap, S), \A c \in DOMAIN cols : Reaches(S, c),
           NEW k \in 1 .. Len(t.indexes), NEW done, Rebuilding(done, t, cols, k - 1)
    PROVE  Rebuilding(RebuildIndex(done, k), t, cols, k)
<1>1. PICK next : next = RebuildIndex(done, k)
  OBVIOUS
<1>2. PICK old : old = done.table
  OBVIOUS
<1>3. PICK indexes : indexes = old.indexes
  OBVIOUS
<1>4. /\ IsTable(old) /\ old.cols = t.cols /\ old.check = t.check /\ old.heap = t.heap
      /\ Len(indexes) = Len(t.indexes) /\ IndexesOK(indexes, cols, {}, FALSE)
      /\ done.ok \in BOOLEAN /\ done.damaged = ~done.ok
      /\ done.ok => \A i \in 1 .. k - 1 : TreeOK(indexes[i].tree, All(t.heap), TRUE)
  BY <1>2, <1>3 DEF Rebuilding
<1>5. PICK n \in Nat : n = Len(indexes) /\ DOMAIN indexes = 1 .. n /\ k \in 1 .. n
  BY <1>4, SeqIs DEF IndexesOK
<1>6. CASE ~done.ok
  <2>1. next = done
    BY <1>1, <1>6 DEF RebuildIndex
  <2> QED
    BY <1>1, <1>6, <2>1 DEF Rebuilding
<1>7. CASE done.ok
  <2>1. PICK index : index = indexes[k]
    OBVIOUS
  <2>2. IndexOK(index, cols, {}, FALSE)
    BY <1>4, <1>5, <2>1 DEF IndexesOK
  <2>3. PICK freed : freed = done.pages + Cardinality(Subtree(index.tree))
    OBVIOUS
  <2>4. PICK filled : filled = FillIndex(t.heap, index.slot, freed)
    OBVIOUS
  <2>5. filled.ok \in BOOLEAN /\ TreeOK(filled.tree, All(t.heap), TRUE)
    <3>1. PICK heap : heap = t.heap
      OBVIOUS
    <3>2. PICK slot : slot = index.slot
      OBVIOUS
    <3>3. HeapIn(heap, S) /\ Reaches(S, slot)
      BY <2>2, <3>1, <3>2 DEF IndexOK
    <3>4. filled = FillIndex(heap, slot, freed)
      BY <2>4, <3>1, <3>2
    <3>5. filled.ok \in BOOLEAN /\ TreeOK(filled.tree, All(heap), TRUE)
      BY <3>3, <3>4, FillIs
    <3> QED
      BY <3>1, <3>5
  <2>6. PICK tree : tree = filled.tree
    OBVIOUS
  <2>7. PICK new : new = [index EXCEPT !.tree = tree]
    OBVIOUS
  <2>8. new.tree = tree /\ IndexOK(new, cols, {}, FALSE)
    <3>1. index = [column |-> index.column, slot |-> index.slot, tree |-> index.tree]
      BY <2>2 DEF IndexOK
    <3>2. new = [column |-> index.column, slot |-> index.slot, tree |-> tree]
      BY <2>7, <3>1
    <3>3. new.column = index.column /\ new.slot = index.slot /\ new.tree = tree
      BY <3>2
    <3>4. TreeOK(tree, {}, FALSE)
      BY <2>5, <2>6 DEF TreeOK
    <3> QED
      BY <2>2, <3>2, <3>3, <3>4 DEF IndexOK
  <2>9. PICK news : news = SetAt(indexes, k, new)
    OBVIOUS
  <2>10. /\ IsSeq(news) /\ Len(news) = n /\ DOMAIN news = 1 .. n
         /\ news[k] = new /\ \A i \in 1 .. n : i # k => news[i] = indexes[i]
    <3>1. IsSeq(indexes) /\ k \in DOMAIN indexes
      BY <1>4, <1>5 DEF IndexesOK
    <3>2. /\ IsSeq(SetAt(indexes, k, new)) /\ Len(SetAt(indexes, k, new)) = Len(indexes)
          /\ DOMAIN SetAt(indexes, k, new) = DOMAIN indexes
          /\ SetAt(indexes, k, new)[k] = new
          /\ \A i \in DOMAIN indexes : i # k => SetAt(indexes, k, new)[i] = indexes[i]
      BY <3>1, SeqExcept
    <3> QED
      BY <1>5, <2>9, <3>2
  <2>11. /\ next.table = [cols |-> t.cols, check |-> t.check, heap |-> t.heap, indexes |-> news]
         /\ next.ok = filled.ok /\ next.damaged = ~filled.ok
    <3>1. PICK table2 : table2 = [old EXCEPT !.indexes[k].tree = tree]
      OBVIOUS
    <3>2. next = [table |-> table2, pages |-> filled.pages, ok |-> filled.ok, damaged |-> ~filled.ok]
      BY <1>1, <1>2, <1>3, <1>4, <1>7, <2>1, <2>3, <2>4, <2>6, <3>1 DEF RebuildIndex
    <3>3. old = [cols |-> t.cols, check |-> t.check, heap |-> t.heap, indexes |-> indexes]
      BY <1>3, <1>4 DEF IsTable
    <3>4. table2 = [old EXCEPT !.indexes = news]
      BY <1>3, <1>5, <2>1, <2>7, <2>9, <3>1 DEF SetAt
    <3>5. table2 = [cols |-> t.cols, check |-> t.check, heap |-> t.heap, indexes |-> news]
      BY <3>3, <3>4
    <3> QED
      BY <3>2, <3>5
  <2>12. IndexesOK(news, cols, {}, FALSE)
    <3>1. \A i \in 1 .. n : IndexOK(indexes[i], cols, {}, FALSE)
      BY <1>4, <1>5 DEF IndexesOK
    <3>2. \A i \in 1 .. n : IndexOK(news[i], cols, {}, FALSE)
      BY <2>8, <2>10, <3>1
    <3> QED
      BY <2>10, <3>2 DEF IndexesOK
  <2>13. next.ok => \A i \in 1 .. k : TreeOK(news[i].tree, All(t.heap), TRUE)
    <3>1. \A i \in 1 .. k : i = k \/ (i \in 1 .. k - 1 /\ i \in 1 .. n /\ i # k)
      BY <1>5
    <3> QED
      BY <1>4, <1>7, <2>5, <2>6, <2>8, <2>10, <3>1
  <2>14. PICK after : after = next.table
    OBVIOUS
  <2>15. after.cols = t.cols /\ after.check = t.check /\ after.heap = t.heap /\ after.indexes = news /\ IsTable(after)
    BY <2>11, <2>14 DEF IsTable
  <2>16. next.ok \in BOOLEAN /\ next.damaged = ~next.ok
    BY <2>5, <2>11
  <2> QED
    BY <1>1, <1>4, <1>5, <2>10, <2>12, <2>13, <2>14, <2>15, <2>16 DEF Rebuilding
<1> QED
  BY <1>4, <1>6, <1>7

LEMMA RebuildIsFold ==
    ASSUME NEW base, NEW seq
    PROVE  FoldLeft(RebuildIndex, base, seq) = RebuildFold!Folded(base, seq)
BY DEF FoldLeft, MapThenFoldSet, Max,
       RebuildFold!Folded, RebuildFold!MapThenFoldSet, RebuildFold!Greatest

(* What rebuilding the indexes of a table ends in *)
RebuiltTo(run, t, cols) ==
  /\ run.ok \in BOOLEAN /\ run.damaged = ~run.ok
  /\ IsTable(run.table)
  /\ run.table.cols = t.cols /\ run.table.check = t.check /\ run.table.heap = t.heap
  /\ IndexesOK(run.table.indexes, cols, All(t.heap), run.ok)

LEMMA RebuiltIs ==
    ASSUME NEW S, NEW t, NEW cols, IsTable(t), HeapIn(t.heap, S), \A c \in DOMAIN cols : Reaches(S, c),
           IndexesOK(t.indexes, cols, {}, FALSE), NEW pages
    PROVE  RebuiltTo(RebuildIndexes(Run(t, pages)), t, cols)
<1>1. PICK n \in Nat : n = Len(t.indexes) /\ DOMAIN t.indexes = 1 .. n
  <2>1. PICK indexes : indexes = t.indexes
    OBVIOUS
  <2> QED
    BY <2>1, SeqIs DEF IndexesOK
<1>2. PICK base : base = Run(t, pages)
  OBVIOUS
<1>3. base.table = t /\ base.ok = TRUE /\ base.damaged = FALSE
  BY <1>2 DEF Run
<1>4. PICK seq : seq = [i \in DOMAIN t.indexes |-> i]
  OBVIOUS
<1>5. DOMAIN seq = 1 .. n /\ \A i \in 1 .. n : seq[i] = i
  BY <1>1, <1>4
<1>6. PICK r : RebuildFold!Stages(r, base, n, seq)
  BY <1>5, RebuildFold!FoldSteps
<1> DEFINE Bad == {k \in 0 .. n : ~Rebuilding(r[k], t, cols, k)}
<1>7. 0 \notin Bad
  <2>1. r[0] = base
    BY <1>6 DEF RebuildFold!Stages
  <2>2. Rebuilding(base, t, cols, 0)
    <3> HIDE DEF Bad
    <3>1. \A i \in 1 .. 0 : FALSE
      OBVIOUS
    <3> QED
      BY <1>3, <3>1 DEF Rebuilding
  <2> QED
    BY <2>1, <2>2
<1>8. ASSUME NEW k \in 1 .. n, k \in Bad PROVE k - 1 \in Bad
  <2>1. SUFFICES ASSUME k - 1 \notin Bad PROVE FALSE
    OBVIOUS
  <2>2. k - 1 \in 0 .. n
    OBVIOUS
  <2>3. PICK done : done = r[k - 1]
    OBVIOUS
  <2>4. Rebuilding(done, t, cols, k - 1)
    BY <2>1, <2>2, <2>3
  <2>5. r[k] = RebuildIndex(done, k)
    BY <1>5, <1>6, <2>3 DEF RebuildFold!Stages
  <2>6. k \in 1 .. Len(t.indexes)
    BY <1>1
  <2>7. Rebuilding(r[k], t, cols, k)
    <3> HIDE DEF Bad
    <3> QED
      BY <2>4, <2>5, <2>6, RebuildNext
  <2> QED
    BY <1>8, <2>7
<1>9. Bad = {}
  <2>1. Bad \in SUBSET (0 .. n)
    OBVIOUS
  <2> HIDE DEF Bad
  <2> QED
    BY <1>7, <1>8, <2>1, RebuildFold!Climb
<1>10. PICK run : run = r[n]
  OBVIOUS
<1>11. Rebuilding(run, t, cols, n)
  BY <1>9, <1>10
<1>12. RebuildIndexes(Run(t, pages)) = run
  <2>1. RebuildIndexes(Run(t, pages)) = FoldLeft(RebuildIndex, base, seq)
    BY <1>2, <1>3, <1>4 DEF RebuildIndexes
  <2> QED
    BY <1>6, <1>10, <2>1, RebuildIsFold DEF RebuildFold!Stages
<1>13. PICK indexes : indexes = run.table.indexes
  OBVIOUS
<1>14. IndexesOK(indexes, cols, {}, FALSE) /\ IsSeq(indexes) /\ Len(indexes) = n
  BY <1>1, <1>11, <1>13 DEF Rebuilding, IndexesOK
<1>15. DOMAIN indexes = 1 .. n
  BY <1>14, SeqIs
<1>16. run.ok \in BOOLEAN
  BY <1>11 DEF Rebuilding
<1>17. ASSUME NEW i \in DOMAIN indexes PROVE IndexOK(indexes[i], cols, All(t.heap), run.ok)
  <2>1. IndexOK(indexes[i], cols, {}, FALSE)
    BY <1>14 DEF IndexesOK
  <2>2. TreeOK(indexes[i].tree, All(t.heap), run.ok)
    <3>1. CASE run.ok
      <4>1. run.ok = TRUE
        BY <1>16, <3>1
      <4> QED
        BY <1>11, <1>13, <1>15, <4>1 DEF Rebuilding
    <3>2. CASE ~run.ok
      BY <2>1, <3>2 DEF IndexOK, TreeOK
    <3> QED
      BY <3>1, <3>2
  <2> QED
    BY <2>1, <2>2 DEF IndexOK
<1>18. IndexesOK(indexes, cols, All(t.heap), run.ok)
  BY <1>14, <1>17 DEF IndexesOK
<1> QED
  BY <1>11, <1>12, <1>13, <1>18 DEF Rebuilding, RebuiltTo

LeafStep == INSTANCE Folding WITH Op <- NoOp, Step <- IndexableIn

\* The index found for a column is one of the list.
LEMMA FoundIndex ==
    ASSUME NEW indexes, IsSeq(indexes), NEW name, FindIndexOn(indexes, name) # 0
    PROVE  FindIndexOn(indexes, name) \in DOMAIN indexes /\ indexes[FindIndexOn(indexes, name)].column = name
<1>1. PICK on : on = {i \in DOMAIN indexes : indexes[i].column = name}
  OBVIOUS
<1>2. PICK least : least = CHOOSE i \in on : \A j \in on : i <= j
  OBVIOUS
<1>3. FindIndexOn(indexes, name) = IF on = {} THEN 0 ELSE least
  BY <1>1, <1>2 DEF FindIndexOn
<1>4. on # {}
  BY <1>3
<1>5. on \in SUBSET Nat
  <2>1. DOMAIN indexes = 1 .. Len(indexes) /\ Len(indexes) \in Nat
    BY SeqIs
  <2>2. \A i \in on : i \in 1 .. Len(indexes)
    BY <1>1, <2>1
  <2> QED
    BY <2>1, <2>2
<1>6. \E i \in on : \A j \in on : i <= j
  BY <1>4, <1>5, KeepFold!LeastIs
<1>7. least \in on
  BY <1>2, <1>6
<1> QED
  BY <1>1, <1>3, <1>4, <1>7

\* The comparison an index narrows the rows by has an index.
LEMMA LeafIs ==
    ASSUME NEW cond, Condition(cond), cond # <<>>, NEW indexes, IsSeq(indexes),
           NEW leaf, leaf = FindIndexableLeaf(cond, indexes), leaf # 0
    PROVE  leaf \in DOMAIN cond /\ FindIndexOn(indexes, cond[leaf].column) \in DOMAIN indexes
<1>1. PICK n \in Nat : n = Len(cond) /\ DOMAIN cond = 1 .. n
  BY DEF Condition
<1>2. PICK where : where = [cond |-> cond, indexes |-> indexes]
  OBVIOUS
<1>3. where.cond = cond /\ where.indexes = indexes
  BY <1>2
<1>4. PICK depth : depth = [m \in DOMAIN cond |-> m]
  OBVIOUS
<1>5. depth \in [DOMAIN cond -> 0 .. n] /\ \A m \in DOMAIN cond : depth[m] = m
  BY <1>1, <1>4
<1>6. \A m \in DOMAIN cond : cond[m].kind = "and" =>
        /\ cond[m].left \in DOMAIN cond /\ depth[cond[m].left] < depth[m]
        /\ cond[m].right \in DOMAIN cond /\ depth[cond[m].right] < depth[m]
  <2>1. ASSUME NEW m \in DOMAIN cond, cond[m].kind = "and"
        PROVE  /\ cond[m].left \in DOMAIN cond /\ depth[cond[m].left] < depth[m]
               /\ cond[m].right \in DOMAIN cond /\ depth[cond[m].right] < depth[m]
    <3>1. cond[m].left \in 1 .. m - 1 /\ cond[m].right \in 1 .. m - 1
      BY <2>1 DEF Condition
    <3>2. \A x \in 1 .. m - 1 : x \in DOMAIN cond /\ x < m
      BY <1>1
    <3> QED
      BY <1>5, <3>1, <3>2
  <2> QED
    BY <2>1
<1>7. LeafStep!Descends(where, DOMAIN cond, depth)
  <2>1. ASSUME NEW m \in DOMAIN cond, NEW f, NEW g, \A q \in DOMAIN cond : depth[q] < depth[m] => f[q] = g[q]
        PROVE  IndexableIn(where, f, m) = IndexableIn(where, g, m)
    <3>1. CASE cond[m].kind = "and"
      <4>1. f[cond[m].left] = g[cond[m].left] /\ f[cond[m].right] = g[cond[m].right]
        BY <1>6, <2>1, <3>1
      <4> QED
        BY <1>3, <3>1, <4>1 DEF IndexableIn
    <3>2. CASE cond[m].kind # "and"
      BY <1>3, <3>2 DEF IndexableIn
    <3> QED
      BY <3>1, <3>2
  <2> QED
    BY <2>1 DEF LeafStep!Descends
<1>8. \E f : LeafStep!Solves(f, where, DOMAIN cond)
  BY <1>1, <1>5, <1>7, LeafStep!Recursion
<1> DEFINE Find == CHOOSE f : f = [m \in DOMAIN cond |-> IndexableIn(where, f, m)]
<1>9. Find = [m \in DOMAIN cond |-> IndexableIn(where, Find, m)]
  BY <1>8 DEF LeafStep!Solves
<1>10. leaf = Find[n]
  BY <1>1, <1>2 DEF FindIndexableLeaf
<1> HIDE DEF Find
<1>11. \A m \in DOMAIN cond : Find[m] = IndexableIn(where, Find, m)
  BY <1>9
<1> DEFINE Good(x) == x = 0 \/ (x \in DOMAIN cond /\ FindIndexOn(indexes, cond[x].column) # 0)
<1>12. \A m \in DOMAIN cond : (\A q \in DOMAIN cond : q < m => Good(Find[q])) => Good(Find[m])
  <2>1. ASSUME NEW m \in DOMAIN cond, \A q \in DOMAIN cond : q < m => Good(Find[q])
        PROVE  Good(Find[m])
    <3>1. Find[m] = IndexableIn(where, Find, m)
      BY <1>11
    <3>2. cond[m].kind \in {"compare", "not", "and", "or"}
      BY DEF Condition
    <3>3. CASE cond[m].kind = "compare"
      <4>1. Find[m] = IF Indexable(cond[m], indexes) THEN m ELSE 0
        BY <1>3, <3>1, <3>3 DEF IndexableIn
      <4> QED
        BY <4>1 DEF Indexable
    <3>4. CASE cond[m].kind = "and"
      <4>1. PICK l \in DOMAIN cond : l = cond[m].left /\ l < m
        BY <1>5, <1>6, <3>4
      <4>2. PICK u \in DOMAIN cond : u = cond[m].right /\ u < m
        BY <1>5, <1>6, <3>4
      <4>3. Find[m] = IF Find[l] # 0 THEN Find[l] ELSE Find[u]
        BY <1>3, <3>1, <3>4, <4>1, <4>2 DEF IndexableIn
      <4>4. Good(Find[l]) /\ Good(Find[u])
        BY <2>1, <4>1, <4>2
      <4> QED
        BY <4>3, <4>4
    <3>5. CASE cond[m].kind \in {"not", "or"}
      <4>1. Find[m] = 0
        BY <1>3, <3>1, <3>5 DEF IndexableIn
      <4> QED
        BY <4>1
    <3> QED
      BY <3>2, <3>3, <3>4, <3>5
  <2> QED
    BY <2>1
<1> DEFINE Bad == {m \in 0 .. n : \E q \in DOMAIN cond : q <= m /\ ~Good(Find[q])}
<1>13. 0 \notin Bad
  <2>1. \A q \in 1 .. n : ~(q <= 0)
    OBVIOUS
  <2> QED
    BY <1>1, <2>1
<1>14. ASSUME NEW m \in 1 .. n, m \in Bad PROVE m - 1 \in Bad
  <2>1. PICK q \in DOMAIN cond : q <= m /\ ~Good(Find[q])
    BY <1>14
  <2>2. PICK p \in DOMAIN cond : p < q /\ ~Good(Find[p])
    BY <1>12, <2>1
  <2>3. p <= m - 1 /\ m - 1 \in 0 .. n
    BY <1>1, <2>1, <2>2
  <2> HIDE DEF Good
  <2> QED
    BY <2>2, <2>3
<1>15. Bad = {}
  <2>1. Bad \in SUBSET (0 .. n)
    OBVIOUS
  <2> HIDE DEF Bad
  <2> QED
    BY <1>13, <1>14, <2>1, KeepFold!Climb
<1>16. n \in DOMAIN cond
  <2>1. n # 0
    <3>1. SUFFICES ASSUME n = 0 PROVE FALSE
      OBVIOUS
    <3> QED
      BY <1>1, <3>1 DEF Condition
  <2> QED
    BY <1>1, <2>1
<1>17. Good(Find[n])
  <2>1. n \in 0 .. n /\ n <= n
    OBVIOUS
  <2> HIDE DEF Good
  <2> QED
    BY <1>15, <1>16, <2>1
<1>18. leaf \in DOMAIN cond /\ FindIndexOn(indexes, cond[leaf].column) # 0
  BY <1>10, <1>17
<1> QED
  BY <1>18, FoundIndex

\* The rows a WHERE keeps are live, and each is there once.
LEMMA ChosenAre ==
    ASSUME NEW S, NEW t, HeapIn(t.heap, S), NEW once \in BOOLEAN,
           IndexesOK(t.indexes, t.cols, All(t.heap), once),
           NEW where, Condition(where), NEW chosen, chosen = CollectRows(t, where)
    PROVE  /\ RowsAre(chosen.rows, All(t.heap), once)
           /\ \A i \in DOMAIN chosen.rows : chosen.rows[i] \in LiveIn(t.heap)
<1>1. PICK bound : bound = ResolveCondition(t.cols, where)
  OBVIOUS
<1> DEFINE Kept(position) == /\ IsLive(t.heap, position)
                             /\ EvaluateCondition(where, bound, HeapRead(t.heap, position)) = "true"
           Tested(rows) == Filter(rows, [i \in DOMAIN rows |-> Kept(rows[i])])
<1>2. \A position : Kept(position) => IsLive(t.heap, position)
  OBVIOUS
<1> HIDE DEF Kept
<1>3. ASSUME NEW rows, RowsAre(rows, All(t.heap), once)
      PROVE  /\ RowsAre(Tested(rows), All(t.heap), once)
             /\ \A i \in DOMAIN Tested(rows) : Tested(rows)[i] \in LiveIn(t.heap)
  <2>1. PICK n \in Nat : n = Len(rows) /\ DOMAIN rows = 1 .. n /\ \A i \in 1 .. n : rows[i] \in Position
    BY <1>3 DEF RowsAre
  <2>2. PICK keep : keep = [i \in DOMAIN rows |-> Kept(rows[i])]
    OBVIOUS
  <2>3. PICK tested : tested = Filter(rows, keep)
    OBVIOUS
  <2>4. tested = Tested(rows)
    BY <2>2, <2>3
  <2> HIDE DEF Tested
  <2>5. tested \in Seq(Position) /\ PickedFrom(tested, rows, keep, n)
    BY <2>1, <2>3, FilterIs
  <2>6. PICK at : Picks(tested, at, rows, keep, n)
    BY <2>5 DEF PickedFrom
  <2>7. PICK k \in Nat : k = Len(tested) /\ DOMAIN tested = 1 .. k
    BY <2>5
  <2>8. \A i \in 1 .. k : at[i] \in 1 .. n /\ keep[at[i]] /\ tested[i] = rows[at[i]]
    BY <2>6, <2>7 DEF Picks
  <2>9. ASSUME NEW i \in 1 .. k, NEW j \in 1 .. k, tested[i] = tested[j], once PROVE i = j
    <3>1. at[i] = at[j]
      BY <1>3, <2>1, <2>8, <2>9 DEF RowsAre
    <3>2. at[i] \in Int /\ at[j] \in Int
      BY <2>8
    <3>3. ~(i < j) /\ ~(j < i)
      BY <2>6, <2>7, <3>1, <3>2 DEF Picks
    <3> QED
      BY <3>3
  <2>10. ASSUME NEW i \in 1 .. k PROVE tested[i] \in LiveIn(t.heap) /\ tested[i] \in Position
    <3>1. Kept(rows[at[i]]) /\ tested[i] = rows[at[i]] /\ rows[at[i]] \in Position
      BY <2>1, <2>2, <2>8
    <3>2. IsLive(t.heap, tested[i]) /\ tested[i] \in Position
      BY <1>2, <3>1
    <3> QED
      BY <3>2, LiveIs
  <2>11. \A i \in 1 .. k : tested[i] \in All(t.heap)
    BY <2>10 DEF LiveIn
  <2>12. RowsAre(tested, All(t.heap), once)
    BY <2>7, <2>9, <2>10, <2>11 DEF RowsAre
  <2> QED
    BY <2>4, <2>7, <2>10, <2>12
<1>4. PICK scan : scan = HeapScan(t.heap)
  OBVIOUS
<1>5. Enumerates(scan, LiveIn(t.heap))
  BY <1>4, ScanIs
<1>6. RowsAre(scan, All(t.heap), once) /\ \A i \in DOMAIN scan : scan[i] \in LiveIn(t.heap)
  <2>1. PICK n \in Nat : n = Len(scan) /\ DOMAIN scan = 1 .. n
    BY <1>5 DEF Enumerates
  <2>2. \A i \in 1 .. n : scan[i] \in LiveIn(t.heap)
    BY <1>5, <2>1 DEF Enumerates
  <2>3. \A i \in 1 .. n : scan[i] \in All(t.heap) /\ scan[i] \in Position
    BY <2>2 DEF LiveIn, All
  <2>4. \A i, j \in 1 .. n : scan[i] = scan[j] => i = j
    BY <1>5, <2>1 DEF Enumerates
  <2> QED
    BY <2>1, <2>2, <2>3, <2>4 DEF RowsAre
<1>7. PICK leaf : leaf = FindIndexableLeaf(where, t.indexes)
  OBVIOUS
<1>8. PICK node : node = where[leaf]
  OBVIOUS
<1>9. PICK tree : tree = t.indexes[FindIndexOn(t.indexes, node.column)].tree
  OBVIOUS
<1>10. PICK found : found = IF node.op = "like" THEN IndexPrefixScan(tree, LikePrefix(node.literal), t.heap.nslots)
                            ELSE IndexScan(tree, node.op, node.literal, t.heap.nslots)
  OBVIOUS
<1>11. chosen = IF where = Always THEN [ok |-> TRUE, rows |-> scan]
                ELSE IF leaf = 0 THEN [ok |-> TRUE, rows |-> Tested(scan)]
                ELSE [ok |-> found.ok, rows |-> Tested(found.rows)]
  BY <1>1, <1>4, <1>7, <1>8, <1>9, <1>10 DEF CollectRows, Kept
<1> HIDE DEF Tested
<1>12. CASE where = Always
  BY <1>6, <1>11, <1>12
<1>13. CASE where # Always /\ leaf = 0
  <2>1. chosen.rows = Tested(scan)
    BY <1>11, <1>13
  <2> QED
    BY <1>3, <1>6, <2>1
<1>14. CASE where # Always /\ leaf # 0
  <2>1. chosen.rows = Tested(found.rows)
    BY <1>11, <1>14
  <2>2. PICK indexes : indexes = t.indexes
    OBVIOUS
  <2>3. PICK i : i = FindIndexOn(indexes, node.column)
    OBVIOUS
  <2>4. i \in DOMAIN indexes
    <3>1. IsSeq(indexes) /\ leaf = FindIndexableLeaf(where, indexes) /\ where # <<>>
      BY <1>7, <1>14, <2>2 DEF IndexesOK, Always
    <3>2. FindIndexOn(indexes, where[leaf].column) \in DOMAIN indexes
      BY <1>14, <3>1, LeafIs
    <3> QED
      BY <1>8, <2>3, <3>2
  <2>5. TreeOK(tree, All(t.heap), once)
    <3>1. IndexOK(indexes[i], t.cols, All(t.heap), once)
      BY <2>2, <2>4 DEF IndexesOK
    <3> QED
      BY <1>9, <2>2, <2>3, <3>1 DEF IndexOK
  <2>6. RowsAre(found.rows, All(t.heap), once)
    <3>1. PICK all : all = All(t.heap)
      OBVIOUS
    <3>2. PICK most : most = t.heap.nslots
      OBVIOUS
    <3>3. CASE node.op = "like"
      <4>1. PICK prefix : prefix = LikePrefix(node.literal)
        OBVIOUS
      <4>2. RowsAre(IndexPrefixScan(tree, prefix, most).rows, all, once)
        BY <2>5, <3>1, IndexPrefixScanIs
      <4> QED
        BY <1>10, <3>1, <3>2, <3>3, <4>1, <4>2
    <3>4. CASE node.op # "like"
      <4>1. PICK op : op = node.op
        OBVIOUS
      <4>2. PICK literal : literal = node.literal
        OBVIOUS
      <4>3. RowsAre(IndexScan(tree, op, literal, most).rows, all, once)
        BY <2>5, <3>1, IndexScanIs
      <4> QED
        BY <1>10, <3>1, <3>2, <3>4, <4>1, <4>2, <4>3
    <3> QED
      BY <3>3, <3>4
  <2>7. PICK rows : rows = found.rows
    OBVIOUS
  <2>8. /\ RowsAre(Tested(rows), All(t.heap), once)
        /\ \A j \in DOMAIN Tested(rows) : Tested(rows)[j] \in LiveIn(t.heap)
    BY <1>3, <2>6, <2>7
  <2> QED
    BY <2>1, <2>7, <2>8
<1> QED
  BY <1>12, <1>13, <1>14
=============================================================================
