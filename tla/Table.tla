------------------------------- MODULE Table -------------------------------
(***************************************************************************)
(* One table: its catalog entry, its heap and the indexes on it, and the   *)
(* statements that change them.  07_storage.c keeps the rows, 11_index.c   *)
(* the trees (module BTree), 06_executor.c runs a statement over both and  *)
(* has to keep them telling the same story; 05_semantic.c decides what     *)
(* reaches it.  A statement is one step: the write lock is held around it. *)
(*                                                                         *)
(* A statement runs with an allowance of pages the pool can still supply;  *)
(* the statement fails where the code asks for a page and there is none,   *)
(* and what it had changed by then stays changed.                          *)
(*                                                                         *)
(* A row is a sequence of values in catalog order, a position the number   *)
(* of a page of the heap and of a slot in it.                              *)
(***************************************************************************)
EXTENDS BTree

CONSTANTS
  Gone,           \* what a tombstoned slot holds
  NoDefault,      \* a column without DEFAULT
  PageRoom,       \* room for slots and records in a heap page
  Trailer,        \* room of a page kept for its checksum
  SlotsPerPage,   \* SLOTS_PER_PAGE
  MaxSlots,       \* bound: slots a heap may ever have
  MaxIndexes,     \* bound: indexes on the table
  MaxColumns,     \* MAX_COLS
  Allowances,     \* pages the pool may have left when a statement starts
  Values,         \* the texts, and NULL, that statements bring
  Tables,         \* catalog entries CREATE TABLE may ask for
  AddedColumns,   \* columns ALTER TABLE ADD may ask for
  Renamed,        \* pairs of column names ALTER TABLE RENAME may be given
  Inserts,        \* the values INSERT is given, by column
  Wheres,         \* the conditions UPDATE and DELETE are given
  Queries,        \* the conditions the properties try
  Patterns,       \* the LIKE patterns the properties try
  Updates         \* the SET lists UPDATE is given

Column(name, unique, notNull, size, default) ==
  [name |-> name, unique |-> unique, notNull |-> notNull, size |-> size, default |-> default]

IsColumn(c) ==
  /\ c = Column(c.name, c.unique, c.notNull, c.size, c.default)
  /\ c.unique \in BOOLEAN /\ c.notNull \in BOOLEAN /\ c.size \in Nat
  /\ c.default \in Values \cup {NoDefault}

ASSUME ValuesAssumption ==
  /\ NULL \in Values /\ NULL \notin Seq(Int) /\ Gone \notin Seq(Values)
  /\ Values \subseteq Seq(Int) \cup {NULL}
  /\ NoDefault \notin Values

(* A node of a condition names nodes before it (04_parser.c builds the     *)
(* operands of NOT, AND and OR before the node itself).                    *)
Condition(cond) ==
  /\ DOMAIN cond = 1 .. Len(cond) /\ Len(cond) \in Nat
  /\ \A n \in DOMAIN cond :
       /\ cond[n].kind \in {"compare", "not", "and", "or"}
       /\ cond[n].kind = "compare" => cond[n].column # NULL
       /\ cond[n].kind # "compare" => cond[n].left \in 1 .. n - 1
       /\ cond[n].kind \in {"and", "or"} => cond[n].right \in 1 .. n - 1

ASSUME WheresAssumption == \A where \in Wheres : Condition(where)

ASSUME RoomAssumption ==
  /\ PageRoom \in Nat /\ Trailer \in Nat
  /\ SlotsPerPage \in Nat \ {0}
  /\ MaxSlots \in Nat /\ MaxIndexes \in Nat /\ MaxColumns \in Nat
  /\ Allowances \subseteq Nat

(* The columns a condition names *)
NamesIn(cond) ==
  LET compares == {n \in DOMAIN cond : cond[n].kind = "compare"}
  IN ({cond[n].column : n \in compares} \cup {cond[n].right : n \in compares}) \ {NULL}

(* CREATE TABLE has at least one column, no two of a name, and a CHECK on  *)
(* its own columns (semanticCheck).                                        *)
ASSUME TablesAssumption ==
  \A shape \in Tables :
    /\ Condition(shape.check)
    /\ NamesIn(shape.check) \subseteq {shape.cols[c].name : c \in DOMAIN shape.cols}
    /\ shape.cols \in Seq({shape.cols[c] : c \in DOMAIN shape.cols})
    /\ Len(shape.cols) \in 1 .. MaxColumns
    /\ \A c \in DOMAIN shape.cols : IsColumn(shape.cols[c])
    /\ \A c, d \in DOMAIN shape.cols : shape.cols[c].name = shape.cols[d].name => c = d

ASSUME StatementsAssumption ==
  /\ \A column \in AddedColumns : IsColumn(column)
  /\ \A given \in Inserts : \A name \in DOMAIN given : given[name] \in Values
  /\ \A sets \in Updates :
       /\ sets \in Seq({sets[i] : i \in DOMAIN sets})
       /\ \A i \in DOMAIN sets :
            IF sets[i].literal THEN sets[i].value \in Values ELSE sets[i].map \in [Values -> Values]

VARIABLES
  table,     \* catalog entry, heap and indexes
  last,      \* the last statement and whether it succeeded
  damaged    \* an allocation failed where the code cannot undo what it had done

vars == <<table, last, damaged>>

SlotWidth == 1

-----------------------------------------------------------------------------
(* The heap: 07_storage.c *)

EmptyHeap == [pages |-> <<>>, nlive |-> 0, nslots |-> 0]

AddField(size, v) == size + 1 + (IF v = NULL THEN 0 ELSE Len(v))

RecordSize(row) == FoldLeft(AddField, 0, row)

\* (mutant) the slot that points to the record is forgotten
HasRoomForRecord(page, size) == Len(page.slots) < SlotsPerPage /\ page.free >= size

HasRoom(page, size) == Len(page.slots) < SlotsPerPage /\ page.free >= SlotWidth + size

(* A row goes to the last page, or to a new one.  The size test lets a     *)
(* record use the trailer's room as well.                                  *)
HeapInsert(heap, row, pages) ==
  LET size == RecordSize(row)
      n == Len(heap.pages)
      fits == n > 0 /\ HasRoom(heap.pages[n], size)
      at == IF fits THEN n ELSE n + 1
      ready == IF fits THEN heap.pages ELSE Append(heap.pages, [slots |-> <<>>, free |-> PageRoom])
      ok == size <= PageRoom + Trailer - SlotWidth /\ (fits \/ pages > 0)
  IN IF ~ok THEN [ok |-> FALSE, pages |-> pages, position |-> <<>>, heap |-> heap]
     ELSE [ok |-> TRUE,
           pages |-> IF fits THEN pages ELSE pages - 1,
           position |-> <<at, Len(ready[at].slots) + 1>>,
           heap |-> [pages |-> [ready EXCEPT ![at] =
                                  [slots |-> Append(@.slots, row), free |-> @.free - size - SlotWidth]],
                     nlive |-> heap.nlive + 1,
                     nslots |-> heap.nslots + 1]]

TakePage(all, slots) == all \o slots

(* Every slot, tombstones too, in the order heapFirst and heapNext give *)
Slots(heap) ==
  FoldLeft(TakePage, <<>>,
           [p \in DOMAIN heap.pages |-> [s \in DOMAIN heap.pages[p].slots |-> <<p, s>>]])

HeapRead(heap, position) == heap.pages[position[1]].slots[position[2]]

(* A position outside the heap is as good as a tombstone *)
IsLive(heap, position) ==
  /\ position[1] \in DOMAIN heap.pages
  /\ position[2] \in DOMAIN heap.pages[position[1]].slots
  /\ HeapRead(heap, position) # Gone

(* The positions of a full scan, and the rows at them *)
HeapScan(heap) ==
  LET slots == Slots(heap) IN Filter(slots, [i \in DOMAIN slots |-> IsLive(heap, slots[i])])

RowsOf(heap) ==
  LET scan == HeapScan(heap) IN [i \in DOMAIN scan |-> HeapRead(heap, scan[i])]

HeapMarkDeleted(heap, position) ==
  IF ~IsLive(heap, position) THEN heap
  ELSE [heap EXCEPT !.pages[position[1]].slots[position[2]] = Gone, !.nlive = @ - 1]

(* The live rows on fresh pages; the old pages are given back only then *)
CopyRow(to, row) == IF to.ok THEN HeapInsert(to.heap, row, to.pages) ELSE to

HeapCompact(heap, pages) ==
  LET Replaced(copied) ==
        IF copied.ok THEN [copied EXCEPT !.pages = @ + Len(heap.pages)]
        ELSE [copied EXCEPT !.heap = heap, !.pages = pages]
  IN Replaced(FoldLeft(CopyRow, [ok |-> TRUE, heap |-> EmptyHeap, pages |-> pages, position |-> <<>>],
                       RowsOf(heap)))

-----------------------------------------------------------------------------
(* Conditions: three-valued, over nodes that name each other by number *)

(* A column against a literal, another column, or a set of values *)
Compare(op, column, literal) ==
  [kind |-> "compare", op |-> op, column |-> column, right |-> NULL, literal |-> literal, members |-> {}]
CompareColumns(op, column, right) == [Compare(op, column, NULL) EXCEPT !.right = right]
In(column, members) == [Compare("in", column, NULL) EXCEPT !.members = members]
Not(left) == [kind |-> "not", left |-> left]
And(left, right) == [kind |-> "and", left |-> left, right |-> right]
Or(left, right) == [kind |-> "or", left |-> left, right |-> right]

(* No WHERE, no CHECK *)
Always == <<>>

AnyRun == 0         \* the pattern character %
AnyOne == -1        \* the pattern character _

\* (mutant) % stands for one character
LikeMatchOne(text, pattern) ==
  /\ Len(text) = Len(pattern)
  /\ \A i \in DOMAIN text : pattern[i] \in {AnyOne, AnyRun, text[i]}

(* likeMatch: t and p are where the loop stands in the text and in the     *)
(* pattern, star the pattern position after the last % met (0: none), retry *)
(* the text position that % is at                                          *)
LikeMatch(text, pattern) ==
  LET Here(p) == IF p \in DOMAIN pattern THEN pattern[p] ELSE NULL
      Loop[s \in [t : Nat, p : Nat, star : Nat, retry : Nat]] ==
        CASE s.t > Len(text) -> \A i \in s.p .. Len(pattern) : pattern[i] = AnyRun
          [] s.t <= Len(text) /\ Here(s.p) = AnyRun ->
               Loop[[t |-> s.t, p |-> s.p + 1, star |-> s.p + 1, retry |-> s.t]]
          [] s.t <= Len(text) /\ Here(s.p) \in {AnyOne, text[s.t]} ->
               Loop[[s EXCEPT !.t = @ + 1, !.p = @ + 1]]
          [] OTHER -> /\ s.star # 0
                      /\ Loop[[t |-> s.retry + 1, p |-> s.star, star |-> s.star,
                               retry |-> s.retry + 1]]
  IN Loop[[t |-> 1, p |-> 1, star |-> 0, retry |-> 0]]

LikePrefix(pattern) ==
  LET wild == {i \in DOMAIN pattern : pattern[i] \in {AnyRun, AnyOne}}
  IN IF wild = {} THEN pattern
     ELSE SubSeq(pattern, 1, (CHOOSE i \in wild : \A j \in wild : i <= j) - 1)

Truth(b) == IF b THEN "true" ELSE "false"

ComparePredicate(value, other, op) ==
  CASE op = "is null" -> Truth(value = NULL)
    [] op = "is not null" -> Truth(value # NULL)
    [] op \notin {"is null", "is not null"} /\ (value = NULL \/ other = NULL) -> "unknown"
    [] OTHER ->
         Truth(CASE op = "like" -> LikeMatch(value, other)
                 [] op = "not like" -> ~LikeMatch(value, other)
                 [] op = "=" -> value = other
                 [] op = "<>" -> value # other
                 [] op = "<" -> Before(value, other)
                 [] op = "<=" -> ~Before(other, value)
                 [] op = ">" -> Before(other, value)
                 [] op = ">=" -> ~Before(value, other))

ValueInResult(value, members) ==
  CASE value = NULL -> "unknown"
    [] value # NULL /\ value \in members -> "true"
    [] value # NULL /\ value \notin members /\ NULL \in members -> "unknown"
    [] OTHER -> "false"

(* The truth of one node, when eval gives that of the nodes below it *)
TruthOf(test, eval, n) ==
  LET node == test.cond[n]
      slot == test.bound[node.column]
      left == eval[node.left]
      right == eval[node.right]
  IN CASE node.kind = "compare" ->
            IF slot = 0 THEN "unknown"
            ELSE IF node.op = "in" THEN ValueInResult(test.row[slot], node.members)
            ELSE IF node.right = NULL THEN ComparePredicate(test.row[slot], node.literal, node.op)
            ELSE ComparePredicate(test.row[slot], test.row[test.bound[node.right]], node.op)
       [] node.kind = "not" ->
            IF left = "unknown" THEN left ELSE Truth(left = "false")
       [] node.kind = "and" ->
            IF "false" \in {left, right} THEN "false"
            ELSE IF "unknown" \in {left, right} THEN "unknown" ELSE "true"
       [] node.kind = "or" ->
            IF "true" \in {left, right} THEN "true"
            ELSE IF "unknown" \in {left, right} THEN "unknown" ELSE "false"

(* The last node is the root.  bound gives each column the slot it was     *)
(* resolved to; a column resolved to none makes a comparison unknown.      *)
EvaluateCondition(cond, bound, row) ==
  LET test == [cond |-> cond, bound |-> bound, row |-> row]
      Eval[n \in DOMAIN cond] == TruthOf(test, Eval, n)
  IN Eval[Len(cond)]

-----------------------------------------------------------------------------
(* The access path: 06_executor.c *)

(* The position of a column in the catalog entry, 0 when it has none *)
FindColumn(cols, name) ==
  LET at == {c \in DOMAIN cols : cols[c].name = name}
  IN IF at = {} THEN 0 ELSE CHOOSE c \in at : TRUE

(* The slots the columns of a condition resolve to *)
ResolveCondition(cols, cond) == [name \in NamesIn(cond) |-> FindColumn(cols, name)]

(* The first index of the list on a column, 0 when there is none *)
FindIndexOn(indexes, name) ==
  LET on == {i \in DOMAIN indexes : indexes[i].column = name}
  IN IF on = {} THEN 0 ELSE CHOOSE i \in on : \A j \in on : i <= j

Indexable(node, indexes) ==
  /\ node.right = NULL
  /\ FindIndexOn(indexes, node.column) # 0
  /\ \/ IndexableOperator(node.op)
     \/ node.op = "like" /\ node.literal # NULL /\ LikePrefix(node.literal) # <<>>

(* What the search finds at one node, when find gives it below *)
IndexableIn(where, find, n) ==
  LET node == where.cond[n]
  IN CASE node.kind = "compare" -> IF Indexable(node, where.indexes) THEN n ELSE 0
       [] node.kind = "and" -> IF find[node.left] # 0 THEN find[node.left] ELSE find[node.right]
       [] OTHER -> 0

(* The comparison an index can narrow the rows by, 0 when there is none:   *)
(* only one that the condition cannot be true without, so only under AND   *)
FindIndexableLeaf(cond, indexes) ==
  LET where == [cond |-> cond, indexes |-> indexes]
      Find[n \in DOMAIN cond] == IndexableIn(where, Find, n)
  IN Find[Len(cond)]

(* The positions of the rows a WHERE keeps: from a scan, or from an index, *)
(* whose candidates are tested again                                       *)
CollectRows(t, where) ==
  LET bound == ResolveCondition(t.cols, where)
      Kept(position) == /\ IsLive(t.heap, position)
                        /\ EvaluateCondition(where, bound, HeapRead(t.heap, position)) = "true"
      leaf == FindIndexableLeaf(where, t.indexes)
      node == where[leaf]
      tree == t.indexes[FindIndexOn(t.indexes, node.column)].tree
      found == IF node.op = "like" THEN IndexPrefixScan(tree, LikePrefix(node.literal), t.heap.nslots)
               ELSE IndexScan(tree, node.op, node.literal, t.heap.nslots)
      Tested(rows) == Filter(rows, [i \in DOMAIN rows |-> Kept(rows[i])])
  IN CASE where = Always -> [ok |-> TRUE, rows |-> HeapScan(t.heap)]
       [] where # Always /\ leaf = 0 -> [ok |-> TRUE, rows |-> Tested(HeapScan(t.heap))]
       [] OTHER -> [ok |-> found.ok, rows |-> Tested(found.rows)]

-----------------------------------------------------------------------------
(* Constraints *)

(* Some other live row holds the value.  The probe's buffer has one place  *)
(* more than the heap has slots.                                           *)
ValueIsTaken(t, c, value, exclude) ==
  LET i == FindIndexOn(t.indexes, t.cols[c].name)
      found == IF i = 0 THEN [ok |-> TRUE, rows |-> HeapScan(t.heap)]
               ELSE IndexScan(t.indexes[i].tree, "=", value, t.heap.nslots + 1)
  IN \/ ~found.ok
     \/ \E r \in DOMAIN found.rows :
          /\ found.rows[r] # exclude
          /\ IsLive(t.heap, found.rows[r])
          /\ HeapRead(t.heap, found.rows[r])[c] = value

(* The CHECK of a table: its condition, the slots its columns are bound to, *)
(* and for the properties only the slots they were declared with           *)
BindCheck(cols, cond) ==
  [cond |-> cond, bound |-> ResolveCondition(cols, cond), declared |-> ResolveCondition(cols, cond)]

\* (mutant) a varchar holds one character more than it was declared with
CheckConstraintsOneMore(t, row, exclude) ==
  /\ \A c \in DOMAIN t.cols :
       IF row[c] = NULL THEN ~t.cols[c].notNull
       ELSE /\ t.cols[c].size = 0 \/ Len(row[c]) <= t.cols[c].size + 1
            /\ t.cols[c].unique => ~ValueIsTaken(t, c, row[c], exclude)
  /\ t.check.cond # Always => EvaluateCondition(t.check.cond, t.check.bound, row) # "false"

CheckConstraints(t, row, exclude) ==
  /\ \A c \in DOMAIN t.cols :
       IF row[c] = NULL THEN ~t.cols[c].notNull
       ELSE /\ t.cols[c].size = 0 \/ Len(row[c]) <= t.cols[c].size
            /\ t.cols[c].unique => ~ValueIsTaken(t, c, row[c], exclude)
  /\ t.check.cond # Always => EvaluateCondition(t.check.cond, t.check.bound, row) # "false"

-----------------------------------------------------------------------------
(* Storing a row in the heap and in every index *)

NewIndex(cols, c, tree) == [column |-> cols[c].name, slot |-> c, tree |-> tree]

AddEntry(done, entry) ==
  LET Added(put) ==
        [indexes |-> [done.indexes EXCEPT ![entry.index].tree = put.tree],
         pages |-> put.pages, ok |-> put.ok, damaged |-> put.rootLost]
  IN IF ~done.ok THEN done
     ELSE Added(IndexInsert(done.indexes[entry.index].tree, entry.value, entry.row, done.pages))

(* Every index in turn, up to the first that fails *)
IndexInsertRow(indexes, row, position, pages) ==
  FoldLeft(AddEntry, [indexes |-> indexes, pages |-> pages, ok |-> TRUE, damaged |-> FALSE],
           [i \in DOMAIN indexes |->
              [index |-> i, value |-> row[indexes[i].slot], row |-> position]])

(* What a statement has done so far *)
Run(t, pages) == [table |-> t, pages |-> pages, ok |-> TRUE, damaged |-> FALSE]

KeepIfIndexed(heap, position, indexed) ==
  IF indexed THEN heap ELSE HeapMarkDeleted(heap, position)

(* The row is stored, then indexed; one that an index would not take is    *)
(* tombstoned, and the entries other indexes took are left.                *)
StoreRow(run, row) ==
  LET Indexed(stored, added) ==
        [table |-> [run.table EXCEPT
                      !.heap = KeepIfIndexed(stored.heap, stored.position, added.ok),
                      !.indexes = added.indexes],
         pages |-> added.pages, ok |-> added.ok, damaged |-> added.damaged]
      Stored(stored) ==
        IF ~stored.ok THEN [run EXCEPT !.ok = FALSE]
        ELSE Indexed(stored,
                     IndexInsertRow(run.table.indexes, row, stored.position, stored.pages))
  IN Stored(HeapInsert(run.table.heap, row, run.pages))

FillEntry(done, entry) ==
  IF done.ok THEN IndexInsert(done.tree, entry.value, entry.row, done.pages) ELSE done

(* Fills a tree from the live rows *)
FillIndex(heap, slot, pages) ==
  LET scan == HeapScan(heap)
  IN FoldLeft(FillEntry, [tree |-> EmptyTree, pages |-> pages - 1, ok |-> pages > 0, rootLost |-> FALSE],
              [i \in DOMAIN scan |-> [value |-> HeapRead(heap, scan[i])[slot], row |-> scan[i]]])

RebuildIndex(done, i) ==
  LET Filled(filled) ==
        [table |-> [done.table EXCEPT !.indexes[i].tree = filled.tree],
         pages |-> filled.pages, ok |-> filled.ok, damaged |-> ~filled.ok]
  IN IF ~done.ok THEN done
     ELSE Filled(FillIndex(done.table.heap, done.table.indexes[i].slot,
                   done.pages + Cardinality(Subtree(done.table.indexes[i].tree))))

(* Each index loses its tree and gets a new one.  A failure leaves it      *)
(* without the rows, and those after it with the entries they had.         *)
RebuildIndexes(run) == FoldLeft(RebuildIndex, run, [i \in DOMAIN run.table.indexes |-> i])

-----------------------------------------------------------------------------
(* The statements *)

NoTable == [cols |-> <<>>, check |-> BindCheck(<<>>, Always), heap |-> EmptyHeap, indexes |-> <<>>]

Exists == table.cols # <<>>

ColumnNames == {table.cols[c].name : c \in DOMAIN table.cols}

(* The semantic stage lets through only conditions on the table's columns *)
Named(where) ==
  \A n \in DOMAIN where : where[n].kind = "compare" =>
    {where[n].column, where[n].right} \subseteq ColumnNames \cup {NULL}

Finish(statement, run) ==
  /\ table' = run.table
  /\ last' = [statement |-> statement, ok |-> run.ok]
  /\ damaged' = (damaged \/ run.damaged)

Fail(statement) ==
  /\ last' = [statement |-> statement, ok |-> FALSE]
  /\ UNCHANGED <<table, damaged>>

IndexUnique(run, c) ==
  CASE ~run.table.cols[c].unique -> run
    [] run.table.cols[c].unique /\ run.pages = 0 -> [run EXCEPT !.ok = FALSE]
    [] OTHER -> [run EXCEPT !.table.indexes = <<NewIndex(run.table.cols, c, EmptyTree)>> \o @,
                            !.pages = @ - 1]

(* An empty heap, the catalog entry and an index for every UNIQUE column.  *)
(* A default of NULL in a NOT NULL column is refused.  When an index page  *)
(* cannot be had the table is there without that index.                    *)
CreateTable ==
  /\ ~Exists
  /\ \E shape \in Tables, pages \in Allowances :
       LET entry == [NoTable EXCEPT !.cols = shape.cols, !.check = BindCheck(shape.cols, shape.check)]
       IN IF \E c \in DOMAIN shape.cols : shape.cols[c].notNull /\ shape.cols[c].default = NULL
          THEN Fail("create")
          ELSE Finish("create", FoldLeft(IndexUnique, Run(entry, pages), [c \in DOMAIN shape.cols |-> c]))

DropTable == Exists /\ Finish("drop", Run(NoTable, 0))

(* Filled from the rows; a tree that cannot be filled is dropped again *)
CreateIndex ==
  /\ Exists
  /\ Len(table.indexes) < MaxIndexes
  /\ \E c \in DOMAIN table.cols, pages \in Allowances :
       LET filled == FillIndex(table.heap, c, pages)
           index == NewIndex(table.cols, c, filled.tree)
       IN IF ~filled.ok THEN Fail("create index")
          ELSE Finish("create index",
                      Run([table EXCEPT !.indexes = <<index>> \o @], filled.pages))

DropIndex ==
  \E i \in DOMAIN table.indexes :
    Finish("drop index", Run([table EXCEPT !.indexes = RemoveAt(@, i)], 0))

(* A column the statement leaves out takes its default, or NULL *)
InsertedRow(given) ==
  [c \in DOMAIN table.cols |->
     CASE table.cols[c].name \in DOMAIN given -> given[table.cols[c].name]
       [] table.cols[c].name \notin DOMAIN given /\ table.cols[c].default # NoDefault ->
            table.cols[c].default
       [] OTHER -> NULL]

Insert ==
  /\ Exists
  /\ table.heap.nslots < MaxSlots
  /\ \E given \in Inserts, pages \in Allowances :
       /\ DOMAIN given \subseteq ColumnNames
       /\ LET row == InsertedRow(given)
          IN IF CheckConstraints(table, row, <<>>)
             THEN Finish("insert", StoreRow(Run(table, pages), row))
             ELSE Fail("insert")

(* The constructors of a SET list: a literal, or a value computed from a   *)
(* column of the same row                                                  *)
SetTo(column, value) ==
  [column |-> column, literal |-> TRUE, value |-> value, from |-> column, map |-> <<>>]
SetBy(column, from, map) ==
  [column |-> column, literal |-> FALSE, value |-> NULL, from |-> from, map |-> map]

(* Every assignment sees the row as it was *)
ApplyAssignments(cols, sets, row) ==
  LET New(set) == IF set.literal THEN set.value ELSE set.map[row[FindColumn(cols, set.from)]]
  IN [c \in DOMAIN row |->
        IF \E i \in DOMAIN sets : FindColumn(cols, sets[i].column) = c
        THEN New(sets[CHOOSE i \in DOMAIN sets : FindColumn(cols, sets[i].column) = c])
        ELSE row[c]]

\* (mutant) the rows of the statement are compared with the stored ones only
LiteralNeverCollides(cols, sets, nrows) == FALSE

(* Two rows given the same literal in a UNIQUE column *)
LiteralCollides(cols, sets, nrows) ==
  /\ nrows > 1
  /\ \E i \in DOMAIN sets : /\ cols[FindColumn(cols, sets[i].column)].unique
                            /\ sets[i].literal
                            /\ sets[i].value # NULL

\* (mutant) the old version is retired whether or not the new one is stored
RetireFirst(run, change) ==
  IF ~run.ok THEN run
  ELSE [StoreRow(run, change.row) EXCEPT !.table.heap = HeapMarkDeleted(@, change.position)]

Replace(run, change) ==
  LET Retired(stored) ==
        IF ~stored.ok THEN stored
        ELSE [stored EXCEPT !.table.heap = HeapMarkDeleted(@, change.position)]
  IN IF ~run.ok THEN run ELSE Retired(StoreRow(run, change.row))

(* Every row is checked against the stored rows before any is replaced;    *)
(* then they are replaced one at a time, the new version stored and        *)
(* indexed before the old one is tombstoned.                               *)
Update ==
  /\ Exists
  /\ \E where \in {w \in Wheres : Named(w)} :
       LET chosen == CollectRows(table, where)
       IN \E sets \in Updates, pages \in Allowances :
            LET New(position) == ApplyAssignments(table.cols, sets, HeapRead(table.heap, position))
                changes == [i \in DOMAIN chosen.rows |->
                              [position |-> chosen.rows[i], row |-> New(chosen.rows[i])]]
            IN /\ \A i \in DOMAIN sets : {sets[i].column, sets[i].from} \subseteq ColumnNames
               /\ table.heap.nslots + Len(chosen.rows) <= MaxSlots
               /\ IF /\ chosen.ok
                     /\ \A r \in ToSet(chosen.rows) : CheckConstraints(table, New(r), r)
                     /\ ~LiteralCollides(table.cols, sets, Len(chosen.rows))
                  THEN Finish("update", FoldLeft(Replace, Run(table, pages), changes))
                  ELSE Fail("update")

Delete ==
  /\ Exists
  /\ \E where \in {w \in Wheres : Named(w)} :
       LET chosen == CollectRows(table, where)
       IN IF chosen.ok
          THEN Finish("delete",
                 Run([table EXCEPT !.heap = FoldLeft(HeapMarkDeleted, @, chosen.rows)], 0))
          ELSE Fail("delete")

Vacuum ==
  /\ Exists
  /\ \E pages \in Allowances :
       LET compact == HeapCompact(table.heap, pages)
       IN IF compact.ok
          THEN Finish("vacuum", RebuildIndexes(Run([table EXCEPT !.heap = compact.heap], compact.pages)))
          ELSE Fail("vacuum")

-----------------------------------------------------------------------------
(* ALTER TABLE *)

Reshaped(row, dropped, added) == IF dropped # 0 THEN RemoveAt(row, dropped) ELSE Append(row, added)

(* One row again without the column dropped, or with a value added, and    *)
(* the old one tombstoned                                                  *)
RewriteRow(run, change) ==
  LET row == Reshaped(HeapRead(run.table.heap, change.position), change.dropped, change.added)
      Moved(stored) ==
        IF ~stored.ok THEN [run EXCEPT !.ok = FALSE]
        ELSE [run EXCEPT !.table.heap = HeapMarkDeleted(stored.heap, change.position),
                         !.pages = stored.pages, !.damaged = TRUE]
  IN IF ~run.ok THEN run ELSE Moved(HeapInsert(run.table.heap, row, run.pages))

(* Every live row, then the heap compacted and the indexes rebuilt.  What  *)
(* has moved when a page cannot be had stays moved, and is in no index.    *)
RewriteRows(t, dropped, added, pages) ==
  LET scan == HeapScan(t.heap)
      Compacted(moved, compact) ==
        IF ~moved.ok \/ ~compact.ok THEN [moved EXCEPT !.ok = FALSE]
        ELSE RebuildIndexes(Run([t EXCEPT !.heap = compact.heap], compact.pages))
      Moved(moved) == Compacted(moved, HeapCompact(moved.table.heap, moved.pages))
  IN Moved(FoldLeft(RewriteRow, Run(t, pages),
             [i \in DOMAIN scan |-> [position |-> scan[i], dropped |-> dropped, added |-> added]]))

(* UNIQUE is refused, and NOT NULL without a default when there are rows *)
AddColumn ==
  /\ Exists
  /\ \E column \in AddedColumns, pages \in Allowances :
       LET filled == IF column.default = NoDefault THEN NULL ELSE column.default
           Done(run) == IF run.ok THEN run ELSE [run EXCEPT !.table.cols = table.cols]
       IN IF \/ column.unique
             \/ column.notNull /\ column.default = NoDefault /\ table.heap.nlive > 0
             \/ FindColumn(table.cols, column.name) # 0
             \/ Len(table.cols) = MaxColumns
          THEN Fail("alter")
          ELSE Finish("alter", Done(RewriteRows([table EXCEPT !.cols = Append(@, column)],
                                                0, filled, pages)))

\* (mutant) the indexes on later columns keep their slot
IndexesStay(indexes, name, slot) == Filter(indexes, [i \in DOMAIN indexes |-> indexes[i].column # name])

(* The column's own indexes go, those on later columns move down a slot *)
IndexesColumnDropped(indexes, name, slot) ==
  LET kept == Filter(indexes, [i \in DOMAIN indexes |-> indexes[i].column # name])
  IN [i \in DOMAIN kept |->
        IF kept[i].slot > slot THEN [kept[i] EXCEPT !.slot = @ - 1] ELSE kept[i]]

\* (mutant) a CHECK does not keep its columns
OnlyColumn(t) == Len(t.cols) = 1

CannotDropColumn(t) == Len(t.cols) = 1 \/ t.check.cond # Always

(* Refused for the last column and for a table with a CHECK.  The catalog  *)
(* is not put back when the rewriting fails.                               *)
DropColumn ==
  \E slot \in DOMAIN table.cols, pages \in Allowances :
    LET shape == [table EXCEPT !.cols = RemoveAt(@, slot),
                               !.indexes = IndexesColumnDropped(@, table.cols[slot].name, slot)]
        Done(run) == IF run.ok THEN run ELSE [run EXCEPT !.damaged = TRUE]
    IN IF CannotDropColumn(table) THEN Fail("alter")
       ELSE Finish("alter", Done(RewriteRows(shape, slot, NULL, pages)))

(* Names only: the indexes' too, but not those the CHECK was written with *)
RenameColumn ==
  \E pair \in Renamed :
    LET slot == FindColumn(table.cols, pair[1])
    IN /\ slot # 0
       /\ IF FindColumn(table.cols, pair[2]) # 0 THEN Fail("alter")
          ELSE Finish("alter", Run([table EXCEPT
                 !.cols[slot].name = pair[2],
                 !.indexes = [i \in DOMAIN @ |->
                    IF @[i].column = pair[1] THEN [@[i] EXCEPT !.column = pair[2]] ELSE @[i]]], 0))

-----------------------------------------------------------------------------
CountPage(n, page) == n + Len(page.slots)

(* What a save wrote, read back: by a restart, or by ROLLBACK.  What a      *)
(* failed statement left is saved too, by the next one that succeeds.  The  *)
(* heap counts its slots from its pages, the indexes come back in the       *)
(* opposite order, and the CHECK is bound again, by name.                   *)
Reload ==
  /\ Exists
  /\ Finish("reload", Run([table EXCEPT
       !.heap.nslots = FoldLeft(CountPage, 0, table.heap.pages),
       !.indexes = LET r == Reverse(@)
                   IN [i \in DOMAIN r |-> [r[i] EXCEPT !.slot = FindColumn(table.cols, r[i].column)]],
       !.check.bound = ResolveCondition(table.cols, table.check.cond)], 0))

Init ==
  /\ table = NoTable
  /\ last = [statement |-> "start", ok |-> TRUE]
  /\ damaged = FALSE

Next ==
  \/ CreateTable \/ DropTable
  \/ CreateIndex \/ DropIndex
  \/ Insert \/ Update \/ Delete \/ Vacuum
  \/ AddColumn \/ DropColumn \/ RenameColumn
  \/ Reload

Spec == Init /\ [][Next]_vars

-----------------------------------------------------------------------------
(* Properties *)

(* A node holds more entries than its page has room for: a split that      *)
(* failed is not tried again, and the next entry goes past the page.       *)
Overrun == \E i \in DOMAIN table.indexes : \E p \in DOMAIN table.indexes[i].tree.nodes :
             Len(table.indexes[i].tree.nodes[p].keys) > Order

Sound == ~damaged /\ ~Overrun

Live == ToSet(HeapScan(table.heap))

(* The live rows with how often each occurs *)
Rows(t) ==
  LET rows == RowsOf(t.heap)
  IN [row \in ToSet(rows) |-> Cardinality({i \in DOMAIN rows : rows[i] = row})]

(* Types: rows have as many values as the table has columns, and every     *)
(* index names a column of the table and reads that column's slot.         *)
TypeOK ==
  /\ damaged \in BOOLEAN
  /\ last.ok \in BOOLEAN
  /\ table.heap.nlive \in Nat /\ table.heap.nslots \in Nat
  /\ ~damaged =>
       /\ \A r \in Live : DOMAIN HeapRead(table.heap, r) = DOMAIN table.cols
       /\ \A i \in DOMAIN table.indexes :
            /\ table.indexes[i].slot \in DOMAIN table.cols
            /\ table.cols[table.indexes[i].slot].name = table.indexes[i].column

(* 11_index.c's promise, "extra candidates cost time and never             *)
(* correctness, while a missed one would be a wrong answer": whatever the  *)
(* WHERE, the access path collectRows chooses finds every live row that    *)
(* satisfies it, each once, and never overflows the caller's buffer.       *)
IndexAgreesWithScan ==
  LET live == Live
  IN Sound => \A where \in {q \in Queries : Named(q)} :
       LET got == CollectRows(table, where)
           bound == ResolveCondition(table.cols, where)
       IN /\ got.ok
          /\ IsInjective(got.rows)
          /\ ToSet(got.rows) =
               {r \in live : EvaluateCondition(where, bound, HeapRead(table.heap, r)) = "true"}

(* The rows keep what the catalog promises of them, however they got       *)
(* there: NOT NULL and the length of a varchar (checkConstraints).  Over a *)
(* column that ALTER TABLE added, this needs a default that INSERT would   *)
(* take too, which the code does not ask for.                              *)
RowsKeepPromises ==
  ~damaged => \A c \in DOMAIN table.cols, r \in Live :
    LET value == HeapRead(table.heap, r)[c]
    IN IF value = NULL THEN ~table.cols[c].notNull
       ELSE table.cols[c].size = 0 \/ Len(value) <= table.cols[c].size

(* No two rows have one value in a UNIQUE column, which every row but NULL *)
(* is probed for, in an index when there is one (valueIsTaken).            *)
UniqueHolds ==
  Sound => \A c \in {c \in DOMAIN table.cols : table.cols[c].unique} : \A r, q \in Live :
    HeapRead(table.heap, r)[c] = HeapRead(table.heap, q)[c] =>
      r = q \/ HeapRead(table.heap, r)[c] = NULL

(* No row is one the CHECK the table was created with calls false: "A      *)
(* CHECK is compiled against slot positions ... Renaming does not [shift   *)
(* them]" (05_semantic.c).                                                 *)
CheckHolds ==
  ~damaged /\ table.check.cond # Always => \A r \in Live :
    EvaluateCondition(table.check.cond, table.check.declared, HeapRead(table.heap, r)) # "false"

(* What the slots of a page and the records they point to take of it       *)
TakeRoom(n, row) == n + SlotWidth + (IF row = Gone THEN 0 ELSE RecordSize(row))

RoomTaken(page) == FoldLeft(TakeRoom, 0, page.slots)

(* The counters are what the pages hold, on every path and after every     *)
(* failure: the buffers collectRows and the uniqueness probe reserve are   *)
(* sized by them.  And a page has room for its slots and records beside    *)
(* each other.  Only a record that heapInsert takes because it compares    *)
(* with PAGE_SIZE reaches over a slot, and then it is its own: no other    *)
(* row, and no page header, is ever written over.                          *)
HeapIsCounted ==
  /\ table.heap.nlive = Cardinality(Live)
  /\ table.heap.nslots = Len(Slots(table.heap))
  /\ \A p \in DOMAIN table.heap.pages :
       LET page == table.heap.pages[p]
       IN \/ RoomTaken(page) <= PageRoom
          \/ Len(page.slots) = 1 /\ RoomTaken(page) <= PageRoom + Trailer

(* An index has at most one entry for a slot of the heap and none for any  *)
(* other: no scan of it gives more rows than there are slots, and none     *)
(* gives a row twice (reserveCandidates, collectRows).                     *)
EntriesAreSlots ==
  ~damaged => \A i \in DOMAIN table.indexes :
    LET entries == EntriesFrom(table.indexes[i].tree, LeftmostLeaf(table.indexes[i].tree))
    IN /\ IsInjective([e \in DOMAIN entries |-> entries[e].row])
       /\ \A e \in DOMAIN entries : entries[e].row \in ToSet(Slots(table.heap))

(* The leaf chain holds the keys in order, a descent reaches every page,   *)
(* an internal node has a child more than it has keys, every key of a      *)
(* child lies between the separators around it.                            *)
TreesAreOrdered ==
  Sound => \A i \in DOMAIN table.indexes :
    LET tree == table.indexes[i].tree
        entries == EntriesFrom(tree, LeftmostLeaf(tree))
    IN /\ \A e \in 1 .. Len(entries) - 1 : ~Before(entries[e + 1].key, entries[e].key)
       /\ Subtree(tree) = DOMAIN tree.nodes
       /\ \A p \in DOMAIN tree.nodes : ~tree.nodes[p].leaf =>
            LET node == tree.nodes[p]
            IN /\ Len(node.kids) = Len(node.keys) + 1
               /\ \A k \in DOMAIN node.keys :
                    /\ \A key \in ToSet(tree.nodes[node.kids[k]].keys) : ~Before(node.keys[k], key)
                    /\ \A key \in ToSet(tree.nodes[node.kids[k + 1]].keys) : ~Before(key, node.keys[k])

(* LIKE means what SQL says: the text can be cut so that each _ stands for *)
(* one character, each % for any run and every other character for itself. *)
LikeIsSQL ==
  \A value \in UNION {ToSet(HeapRead(table.heap, r)) : r \in Live} \ {NULL}, pattern \in Patterns :
    LikeMatch(value, pattern) <=>
      \E cut \in [0 .. Len(pattern) -> 0 .. Len(value)] :
        /\ cut[0] = 0 /\ cut[Len(pattern)] = Len(value)
        /\ \A i \in DOMAIN pattern :
             IF pattern[i] = AnyRun THEN cut[i - 1] <= cut[i]
             ELSE cut[i] = cut[i - 1] + 1 /\ pattern[i] \in {AnyOne, value[cut[i]]}

(* What a statement may do to the rows.  One that fails leaves them as     *)
(* they were (UPDATE and ALTER TABLE aside), and so do VACUUM, the index   *)
(* statements and a reload (06_executor.c, heapCompact, 12_persist.c).     *)
(* UPDATE never loses or doubles a row, even when it stops half way:       *)
(* "Retiring the old one first would leave the row with no live version at *)
(* all" (executeUpdate).                                                   *)
StatementKeepsRows ==
  [][/\ last'.statement \in {"vacuum", "create index", "drop index", "reload"} => Rows(table') = Rows(table)
     /\ ~last'.ok /\ last'.statement \notin {"update", "alter", "create"} => Rows(table') = Rows(table)
     /\ last'.statement = "update" /\ ~damaged => table'.heap.nlive = table.heap.nlive]_vars
=============================================================================
