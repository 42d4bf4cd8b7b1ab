------------------------------- MODULE BTree -------------------------------
(***************************************************************************)
(* The B+ trees of 11_index.c as pure operators.  A tree is                *)
(*   nodes     one node per page, the pages of the tree numbered 1, 2, ... *)
(*             in the order newNode took them                              *)
(*   root      the page of the root                                        *)
(*   keyCount  what Index.keyCount says                                    *)
(* A node has keys and kids: the rows of a leaf, the pages of an internal  *)
(* node (entry payloads, then lastChild: one more than keys), and next,    *)
(* the next leaf or NoPage.                                                *)
(*                                                                         *)
(* A value is a text, a sequence of numbers, or NULL.  Only text is cut to *)
(* KeyMax characters when it is stored, so text is the type whose stored   *)
(* order and value order can disagree.                                     *)
(*                                                                         *)
(* Every newNode takes one page of an allowance, freeSubtree gives pages    *)
(* back to it; with none left newNode fails.                               *)
(***************************************************************************)
EXTENDS Integers, Sequences, FiniteSets, SequencesExt

CONSTANTS
  NULL,       \* the value that is no text
  Order,      \* entries that fit in a node (nodeOrder); a full node splits
  KeyMax      \* characters of a text that are stored (INDEX_KEY_MAX)

ASSUME OrderAssumption == Order \in Nat /\ Order >= 3
ASSUME KeyMaxAssumption == KeyMax \in Nat \ {0}

NoPage == 0

TakeKept(kept, candidate) == IF candidate.keep THEN Append(kept, candidate.item) ELSE kept

(* The items whose place in keep is TRUE, in their order *)
Filter(items, keep) ==
  FoldLeft(TakeKept, <<>>, [i \in DOMAIN items |-> [item |-> items[i], keep |-> keep[i]]])

-----------------------------------------------------------------------------
(* Keys *)

(* a sorts strictly before b: first difference, then length *)
Before(a, b) ==
  \/ IsStrictPrefix(a, b)
  \/ \E i \in DOMAIN a \cap DOMAIN b :
       /\ SubSeq(a, 1, i - 1) = SubSeq(b, 1, i - 1)
       /\ a[i] < b[i]

(* What is stored of a value.  Two stored keys that agree are equal to      *)
(* compareKeys even when the values are not.                               *)
MakeKey(value) ==
  IF value = NULL THEN <<>>
  ELSE SubSeq(value, 1, IF Len(value) < KeyMax THEN Len(value) ELSE KeyMax)

(* 1 + the number of keys before the searched one: where it belongs, and   *)
(* which child to descend into                                             *)
LowerBound(keys, key) == 1 + Cardinality({i \in DOMAIN keys : Before(keys[i], key)})

-----------------------------------------------------------------------------
(* Insertion *)

Node(leaf, keys, kids, next) == [leaf |-> leaf, keys |-> keys, kids |-> kids, next |-> next]

EmptyTree == [root |-> 1, keyCount |-> 0, nodes |-> <<Node(TRUE, <<>>, <<>>, NoPage)>>]

\* (mutant) the entry whose key goes up stays in both halves
SplitLeafInBoth(node, page) ==
  LET half == Order \div 2
      n == Len(node.keys)
  IN [key |-> node.keys[half + 1],
      left |-> Node(TRUE, SubSeq(node.keys, 1, half + 1), SubSeq(node.kids, 1, half + 1), page),
      right |-> Node(TRUE, SubSeq(node.keys, half + 1, n), SubSeq(node.kids, half + 1, n),
                     node.next)]

(* The two halves of a full node and the key that goes up.  A leaf keeps   *)
(* every key, a copy of the right one's first key goes up; an internal     *)
(* node gives up its middle key.                                           *)
SplitLeaf(node, page) ==
  LET half == Order \div 2
      n == Len(node.keys)
  IN [key |-> node.keys[half + 1],
      left |-> Node(TRUE, SubSeq(node.keys, 1, half), SubSeq(node.kids, 1, half), page),
      right |-> Node(TRUE, SubSeq(node.keys, half + 1, n), SubSeq(node.kids, half + 1, n),
                     node.next)]

\* (mutant) the middle key goes up and stays as well
SplitInternalKeepsKey(node) ==
  LET n == Len(node.keys)
      middle == n \div 2 + 1
  IN [key |-> node.keys[middle],
      left |-> Node(FALSE, SubSeq(node.keys, 1, middle), SubSeq(node.kids, 1, middle), NoPage),
      right |-> Node(FALSE, SubSeq(node.keys, middle + 1, n),
                     SubSeq(node.kids, middle + 1, n + 1), NoPage)]

SplitInternal(node) ==
  LET n == Len(node.keys)
      middle == n \div 2 + 1
  IN [key |-> node.keys[middle],
      left |-> Node(FALSE, SubSeq(node.keys, 1, middle - 1), SubSeq(node.kids, 1, middle), NoPage),
      right |-> Node(FALSE, SubSeq(node.keys, middle + 1, n),
                     SubSeq(node.kids, middle + 1, n + 1), NoPage)]

(* What insertInto hands to the level above: the pages, the separator and  *)
(* the new right node if it split, the allowance left, and whether a page  *)
(* could not be had.                                                       *)
Whole(nodes, pages) ==
  [nodes |-> nodes, split |-> FALSE, key |-> <<>>, right |-> NoPage, pages |-> pages, ok |-> TRUE]

Halved(nodes, p, halves, pages) ==
  [nodes |-> Append([nodes EXCEPT ![p] = halves.left], halves.right),
   split |-> TRUE, key |-> halves.key, right |-> Len(nodes) + 1, pages |-> pages - 1, ok |-> TRUE]

(* The node has just taken an entry: it splits when that entry filled it,  *)
(* and only then.  A node whose split failed stays overfull and is never   *)
(* split again.                                                            *)
SplitIfFull(nodes, p, pages) ==
  CASE Len(nodes[p].keys) # Order -> Whole(nodes, pages)
    [] Len(nodes[p].keys) = Order /\ pages = 0 -> [Whole(nodes, pages) EXCEPT !.ok = FALSE]
    [] OTHER -> Halved(nodes, p, IF nodes[p].leaf THEN SplitLeaf(nodes[p], Len(nodes) + 1)
                                 ELSE SplitInternal(nodes[p]), pages)

(* A leaf takes key and row at the same place, an internal node the new    *)
(* child after the separator: the left half stays where it was.            *)
InsertIntoLeaf(nodes, p, at, key, row) ==
  [nodes EXCEPT ![p].keys = InsertAt(@, at, key), ![p].kids = InsertAt(@, at, row)]

InsertChild(nodes, p, at, key, child) ==
  [nodes EXCEPT ![p].keys = InsertAt(@, at, key), ![p].kids = InsertAt(@, at + 1, child)]

TakeSplit(below, p, at) ==
  IF ~below.split THEN below
  ELSE SplitIfFull(InsertChild(below.nodes, p, at, below.key, below.right), p, below.pages)

(* into gives what the insertion did below a page *)
IntoPage(new, into, p) ==
  LET node == new.nodes[p]
      at == LowerBound(node.keys, new.key)
  IN IF node.leaf THEN SplitIfFull(InsertIntoLeaf(new.nodes, p, at, new.key, new.row), p, new.pages)
     ELSE TakeSplit(into[node.kids[at]], p, at)

InsertInto(nodes, root, key, row, pages) ==
  LET new == [nodes |-> nodes, key |-> key, row |-> row, pages |-> pages]
      Into[p \in DOMAIN nodes] == IntoPage(new, Into, p)
  IN Into[root]

WithRoot(nodes, key, left, right) == Append(nodes, Node(FALSE, <<key>>, <<left, right>>, NoPage))

(* A root that split gets a new root above it.  When that page cannot be   *)
(* had the old root stays, and no descent reaches its right half again.    *)
GrowRoot(tree, split) ==
  LET keyCount == IF split.ok THEN tree.keyCount + 1 ELSE tree.keyCount
      Result(root, nodes, pages, ok, lost) ==
        [tree |-> [root |-> root, nodes |-> nodes, keyCount |-> keyCount],
         pages |-> pages, ok |-> ok, rootLost |-> lost]
  IN CASE ~split.split -> Result(tree.root, split.nodes, split.pages, split.ok, FALSE)
       [] split.split /\ split.pages = 0 -> Result(tree.root, split.nodes, 0, FALSE, TRUE)
       [] OTHER -> Result(Len(split.nodes) + 1,
                          WithRoot(split.nodes, split.key, tree.root, split.right),
                          split.pages - 1, TRUE, FALSE)

IndexInsert(tree, value, row, pages) ==
  IF value = NULL THEN [tree |-> tree, pages |-> pages, ok |-> TRUE, rootLost |-> FALSE]
  ELSE GrowRoot(tree, InsertInto(tree.nodes, tree.root, MakeKey(value), row, pages))

-----------------------------------------------------------------------------
(* Scanning *)

DownLeft(nodes, down, p) == IF nodes[p].leaf THEN p ELSE down[nodes[p].kids[1]]

LeftmostLeaf(tree) ==
  LET Down[p \in DOMAIN tree.nodes] == DownLeft(tree.nodes, Down, p) IN Down[tree.root]

DownTo(sought, down, p) ==
  LET node == sought.nodes[p]
  IN IF node.leaf THEN p ELSE down[node.kids[LowerBound(node.keys, sought.key)]]

SeekLeaf(tree, key) ==
  LET sought == [nodes |-> tree.nodes, key |-> key]
      Down[p \in DOMAIN tree.nodes] == DownTo(sought, Down, p)
  IN Down[tree.root]

Entries(node) == [i \in DOMAIN node.keys |-> [key |-> node.keys[i], row |-> node.kids[i]]]

Onward(nodes, walk, p) == IF p = NoPage THEN <<>> ELSE Entries(nodes[p]) \o walk[nodes[p].next]

(* The entries met by walking the leaf chain from a leaf to its end *)
EntriesFrom(tree, leaf) ==
  LET Walk[p \in DOMAIN tree.nodes \cup {NoPage}] == Onward(tree.nodes, Walk, p) IN Walk[leaf]

(* The rows of the matching entries before the first one past the range.   *)
(* The caller's buffer holds maxRows of them: one more is an error.        *)
Collect(entries, past, matching, maxRows) ==
  LET end == IF past = {} THEN Len(entries) ELSE (CHOOSE i \in past : \A j \in past : i <= j) - 1
      found == Filter(SubSeq(entries, 1, end), matching)
  IN [ok |-> Len(found) <= maxRows, rows |-> [i \in DOMAIN found |-> found[i].row]]

IndexableOperator(op) == op \in {"=", "<", "<=", ">", ">="}

\* (mutant) a strict comparison is strict on the stored keys too
IndexScanStrict(tree, op, value, maxRows) ==
  LET target == MakeKey(value)
      entries == EntriesFrom(tree, LeftmostLeaf(tree))
      Matches(key) == CASE op = "=" -> key = target
                        [] op = "<" -> Before(key, target)
                        [] op = "<=" -> ~Before(target, key)
                        [] op = ">" -> Before(target, key)
                        [] op = ">=" -> ~Before(key, target)
  IN Collect(entries, {}, [e \in DOMAIN entries |-> Matches(entries[e].key)], maxRows)

IndexScan(tree, op, value, maxRows) ==
  LET target == MakeKey(value)
      leaf == IF op \in {"<", "<="} THEN LeftmostLeaf(tree) ELSE SeekLeaf(tree, target)
      entries == EntriesFrom(tree, leaf)
      past == {e \in DOMAIN entries : op \in {"=", "<", "<="} /\ Before(target, entries[e].key)}
      Matches(key) == CASE op = "=" -> key = target
                        [] op \in {"<", "<="} -> ~Before(target, key)
                        [] op \in {">", ">="} -> ~Before(key, target)
  IN Collect(entries, past, [e \in DOMAIN entries |-> Matches(entries[e].key)], maxRows)

IndexPrefixScan(tree, prefix, maxRows) ==
  LET target == MakeKey(prefix)
      entries == EntriesFrom(tree, SeekLeaf(tree, target))
      past == {e \in DOMAIN entries :
                 Before(target, entries[e].key) /\ ~IsPrefix(target, entries[e].key)}
  IN Collect(entries, past, [e \in DOMAIN entries |-> IsPrefix(target, entries[e].key)], maxRows)

(* The pages a descent from the root reaches: what freeSubtree gives back *)
Subtree(tree) ==
  LET Below[p \in DOMAIN tree.nodes] ==
        {p} \cup (IF tree.nodes[p].leaf THEN {}
                  ELSE UNION {Below[tree.nodes[p].kids[i]] : i \in DOMAIN tree.nodes[p].kids})
  IN Below[tree.root]
=============================================================================
