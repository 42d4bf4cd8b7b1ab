---------------------------- MODULE TableProofs -----------------------------
(***************************************************************************)
(* Proofs about a table (Table.tla), for every catalog entry, statement    *)
(* and allowance of pages.  TableInv says what every statement keeps: the  *)
(* counters are those of the pages, every row is one the catalog entry     *)
(* allows, every index reads the slot of its column and its leaves have    *)
(* each slot of the heap at most once.  One lemma for each statement shows *)
(* that it keeps TableInv, and what it does to the rows.                   *)
(***************************************************************************)
EXTENDS StorageProofs

-----------------------------------------------------------------------------
(* The inductive invariant *)

(* What checkConstraints wants of a value *)
Fits(column, value) ==
  IF value = NULL THEN ~column.notNull ELSE column.size = 0 \/ Len(value) <= column.size

(* The default of an added column is a value that INSERT would take *)
DefaultsFit == \A column \in AddedColumns : column.default # NoDefault => Fits(column, column.default)

(* No statement renames a column that a CHECK was written with *)
ChecksKeepNames == \A shape \in Tables, pair \in Renamed : pair[1] \notin NamesIn(shape.check)

Passes(check, row) ==
  check.cond # Always => EvaluateCondition(check.cond, check.declared, row) # "false"

(* The rows a table has: a statement that stopped half way may leave longer *)
(* ones                                                                    *)
Wide(cols) == {row \in Seq(Values) : Len(row) >= Len(cols)}

Kept(cols, check) ==
  {row \in Seq(Values) :
     /\ Len(row) = Len(cols)
     /\ DefaultsFit => \A c \in DOMAIN cols : Fits(cols[c], row[c])
     /\ ChecksKeepNames => Passes(check, row)}

Allowed(cols, check, d) == IF d THEN Wide(cols) ELSE Kept(cols, check)

NamesOf(cols) == {cols[c].name : c \in DOMAIN cols}

ColsOK(cols) ==
  /\ IsSeq(cols)
  /\ Len(cols) <= MaxColumns
  /\ \A c \in DOMAIN cols : IsColumn(cols[c])
  /\ \A c, d \in DOMAIN cols : cols[c].name = cols[d].name => c = d

CheckOK(check, cols) ==
  /\ check = [cond |-> check.cond, bound |-> check.bound, declared |-> check.declared]
  /\ Condition(check.cond)
  /\ ChecksKeepNames =>
       /\ NamesIn(check.cond) \subseteq NamesOf(cols)
       /\ \A pair \in Renamed : pair[1] \notin NamesIn(check.cond)
       /\ check.bound = ResolveCondition(cols, check.cond) /\ check.declared = check.bound

(* d: a statement stopped half way before *)
TableOK(t, d) ==
  /\ IsTable(t)
  /\ ColsOK(t.cols) /\ CheckOK(t.check, t.cols)
  /\ HeapOK(t.heap, Allowed(t.cols, t.check, d))
  /\ IndexesOK(t.indexes, t.cols, All(t.heap), ~d)

TableInv ==
  /\ damaged \in BOOLEAN
  /\ last.ok \in BOOLEAN
  /\ TableOK(table, damaged)

-----------------------------------------------------------------------------

LEMMA AllowedIs ==
    ASSUME NEW cols, ColsOK(cols), NEW check, NEW d
    PROVE  /\ Allowed(cols, check, d) \in SUBSET Seq(Values)
           /\ Allowed(cols, check, d) \subseteq Wide(cols)
           /\ Wide(cols) \in SUBSET Seq(Values)
           /\ Allowed(cols, check, TRUE) = Wide(cols)
<1>1. Len(cols) \in Nat
  BY SeqIs DEF ColsOK
<1> QED
  BY <1>1 DEF Allowed, Wide, Kept

\* Fewer rows promised more.
LEMMA HeapWeaker ==
    ASSUME NEW S, NEW heap, HeapOK(heap, S), NEW U \in SUBSET Seq(Values), S \subseteq U
    PROVE  HeapOK(heap, U)
<1>1. PageType(S) \subseteq PageType(U)
  <2>1. Seq(S \cup {Gone}) \subseteq Seq(U \cup {Gone})
    OBVIOUS
  <2> QED
    BY <2>1 DEF PageType
<1>2. heap.pages \in Seq(PageType(U))
  <2>1. heap.pages \in Seq(PageType(S))
    BY DEF HeapOK, HeapIn
  <2> QED
    BY <1>1, <2>1
<1>3. HeapIn(heap, U)
  BY <1>2 DEF HeapOK, HeapIn
<1> QED
  BY <1>3 DEF HeapOK

\* A heap whose live rows are known to be in a smaller set
LEMMA RowsAreIn ==
    ASSUME NEW S, NEW heap, HeapIn(heap, S), NEW T, \A x \in LiveIn(heap) : HeapRead(heap, x) \in T
    PROVE  RowsOf(heap) \in Seq(T)
<1>1. PICK rows : rows = RowsOf(heap)
  OBVIOUS
<1>2. rows \in Seq(S) /\ \A i \in 1 .. Len(rows) : rows[i] \in T
  BY <1>1, RowsOfIs
<1> QED
  BY <1>1, <1>2

\* Every row the heap may have has a value for each column.
LEMMA WideReaches ==
    ASSUME NEW cols, ColsOK(cols), NEW S \in SUBSET Wide(cols)
    PROVE  /\ \A c \in DOMAIN cols : Reaches(S, c)
           /\ \A row \in S : IndexableRow(row, cols)
           /\ \A row \in S : \A c \in DOMAIN cols : c \in DOMAIN row /\ row[c] \in Values
<1>1. Len(cols) \in Nat /\ DOMAIN cols = 1 .. Len(cols)
  BY SeqIs DEF ColsOK
<1>2. ASSUME NEW row \in S, NEW c \in DOMAIN cols
      PROVE  c \in DOMAIN row /\ row[c] \in Values
  <2>1. row \in Seq(Values) /\ Len(row) >= Len(cols)
    BY DEF Wide
  <2>2. Len(row) \in Nat /\ DOMAIN row = 1 .. Len(row) /\ \A i \in 1 .. Len(row) : row[i] \in Values
    BY <2>1
  <2> QED
    BY <1>1, <2>1, <2>2
<1>3. \A v \in Values : v # NULL => v \in Seq(Int)
  BY ValuesAssumption
<1> QED
  BY <1>2, <1>3 DEF Reaches, IndexableRow

LEMMA IndexesLoose ==
    ASSUME NEW indexes, NEW cols, NEW slots, NEW once \in BOOLEAN, IndexesOK(indexes, cols, slots, once), NEW more
    PROVE  IndexesOK(indexes, cols, more, FALSE)
BY DEF IndexesOK, IndexOK, TreeOK

\* What a statement leaves may be damaged without being told.
LEMMA TableWeaker ==
    ASSUME NEW t, NEW d \in BOOLEAN, TableOK(t, d)
    PROVE  TableOK(t, TRUE)
<1>1. PICK cols, check : cols = t.cols /\ check = t.check
  OBVIOUS
<1>2. ColsOK(cols) /\ HeapOK(t.heap, Allowed(cols, check, d))
  BY <1>1 DEF TableOK
<1>3. HeapOK(t.heap, Allowed(cols, check, TRUE))
  BY <1>2, AllowedIs, HeapWeaker
<1>4. IndexesOK(t.indexes, cols, All(t.heap), ~d) /\ (~d) \in BOOLEAN
  BY <1>1 DEF TableOK
<1>5. IndexesOK(t.indexes, cols, All(t.heap), FALSE)
  <2>1. PICK indexes, slots : indexes = t.indexes /\ slots = All(t.heap)
    OBVIOUS
  <2>2. PICK once \in BOOLEAN : once = ~d
    BY <1>4
  <2>3. IndexesOK(indexes, cols, slots, once)
    BY <1>4, <2>1, <2>2
  <2>4. IndexesOK(indexes, cols, slots, FALSE)
    BY <2>3, IndexesLoose
  <2> QED
    BY <2>1, <2>4
<1> QED
  BY <1>1, <1>3, <1>5 DEF TableOK

-----------------------------------------------------------------------------
(* One row more *)

(* What a statement has done when it has not moved the catalog entry *)
RunOK(run, t, d) ==
  /\ run.ok \in BOOLEAN /\ run.damaged \in BOOLEAN
  /\ TableOK(run.table, d)
  /\ run.table.cols = t.cols /\ run.table.check = t.check

RunType(run) == run = [table |-> run.table, pages |-> run.pages, ok |-> run.ok, damaged |-> run.damaged]

\* The last steps of a statement that leaves columns and CHECK as they are.
LEMMA TableWith ==
    ASSUME NEW t, NEW d \in BOOLEAN, TableOK(t, d), NEW heap, HeapOK(heap, Allowed(t.cols, t.check, d)),
           NEW indexes, IndexesOK(indexes, t.cols, All(heap), ~d),
           NEW new, new = [cols |-> t.cols, check |-> t.check, heap |-> heap, indexes |-> indexes]
    PROVE  TableOK(new, d) /\ new.cols = t.cols /\ new.check = t.check /\ new.heap = heap /\ new.indexes = indexes
<1>1. new.cols = t.cols /\ new.check = t.check /\ new.heap = heap /\ new.indexes = indexes
  OBVIOUS
<1> QED
  BY <1>1 DEF TableOK, IsTable

Entry(cols, check, heap, indexes) == [cols |-> cols, check |-> check, heap |-> heap, indexes |-> indexes]
Changed(t, heap, indexes) == [t EXCEPT !.heap = heap, !.indexes = indexes]

LEMMA TwoFields ==
    ASSUME NEW t, NEW cols, NEW check, NEW heap, NEW indexes,
           t = Entry(cols, check, heap, indexes), NEW h, NEW i
    PROVE  Changed(t, h, i) = Entry(cols, check, h, i)
<1>1. PICK u : u = [t EXCEPT !.heap = h]
  OBVIOUS
<1>2. u = [cols |-> cols, check |-> check, heap |-> h, indexes |-> indexes]
  BY <1>1 DEF Entry
<1>3. [t EXCEPT !.heap = h, !.indexes = i] = [[t EXCEPT !.heap = h] EXCEPT !.indexes = i]
  BY DEF Entry
<1>4. [u EXCEPT !.indexes = i] = [cols |-> cols, check |-> check, heap |-> h, indexes |-> i]
  BY <1>2
<1> QED
  BY <1>1, <1>3, <1>4 DEF Entry, Changed

(* What storing a row leaves of a table *)
StoredTo(run, t, row, d, position) ==
  /\ RunOK(run, t, d)
  /\ run.ok => /\ position \in Position /\ position \notin LiveIn(t.heap)
               /\ LiveIn(run.table.heap) = LiveIn(t.heap) \cup {position}
               /\ run.table.heap.nlive = t.heap.nlive + 1
  /\ ~run.ok => /\ LiveIn(run.table.heap) = LiveIn(t.heap)
                /\ RowsOf(run.table.heap) = RowsOf(t.heap)
                /\ run.table.heap.nlive = t.heap.nlive

\* A row stored and put in every index, or tombstoned again.
LEMMA StoreRowIs ==
    ASSUME NEW run, NEW t, run.table = t, run.damaged \in BOOLEAN, NEW d \in BOOLEAN, TableOK(t, d),
           NEW row \in Allowed(t.cols, t.check, d), RunType(run),
           NEW new, new = StoreRow(run, row)
    PROVE  RunType(new) /\ \E position : StoredTo(new, t, row, d, position)
<1>1. PICK cols, check, heap, indexes, S :
        /\ cols = t.cols /\ check = t.check /\ heap = t.heap /\ indexes = t.indexes
        /\ S = Allowed(cols, check, d)
  OBVIOUS
<1>2. t = [cols |-> cols, check |-> check, heap |-> heap, indexes |-> indexes]
  BY <1>1 DEF TableOK, IsTable
<1>3. HeapOK(heap, S) /\ row \in S /\ ColsOK(cols)
  BY <1>1 DEF TableOK
<1>4. PICK once \in BOOLEAN : once = ~d
  OBVIOUS
<1>5. IndexesOK(indexes, cols, All(heap), once)
  BY <1>1, <1>4 DEF TableOK
<1>6. PICK put : put = HeapInsert(heap, row, run.pages)
  OBVIOUS
<1>7. put.ok \in BOOLEAN
  BY <1>3, <1>6, InsertIs
<1>8. CASE ~put.ok
  <2>1. new = [run EXCEPT !.ok = FALSE]
    BY <1>1, <1>6, <1>8 DEF StoreRow
  <2>2. /\ new = [table |-> t, pages |-> run.pages, ok |-> FALSE, damaged |-> run.damaged]
    BY <2>1 DEF RunType
  <2>3. new.table = t /\ new.pages = run.pages /\ new.ok = FALSE /\ new.damaged = run.damaged
    BY <2>2
  <2> QED
    BY <2>2, <2>3 DEF StoredTo, RunOK, RunType
<1>9. CASE put.ok
  <2>1. PICK mid, at : mid = put.heap /\ at = put.position
    OBVIOUS
  <2>2. /\ HeapOK(mid, S) /\ Put(heap, row, put) /\ row # Gone
        /\ LiveIn(mid) = LiveIn(heap) \cup {at} /\ at \notin LiveIn(heap)
    BY <1>3, <1>6, <1>9, <2>1, StoreKeeps
  <2>3. Stored(heap, row, at, mid) /\ mid.nlive = heap.nlive + 1
    BY <2>1, <2>2 DEF Put
  <2>4. at \in Position /\ at \notin All(heap) /\ All(mid) = All(heap) \cup {at}
    BY <2>3 DEF Stored
  <2>5. PICK added : added = IndexInsertRow(indexes, row, at, put.pages)
    OBVIOUS
  <2>6. PICK slots : slots = All(heap)
    OBVIOUS
  <2>7. IndexableRow(row, cols)
    BY <1>3, <1>1, AllowedIs, WideReaches
  <2>8. /\ added.ok \in BOOLEAN /\ added.damaged \in BOOLEAN
        /\ IndexesOK(added.indexes, cols, slots \cup {at}, once)
    <3>1. IndexesOK(indexes, cols, slots, once) /\ at \notin slots
      BY <1>5, <2>4, <2>6
    <3> HIDE DEF IndexesOK
    <3> QED
      BY <2>4, <2>5, <2>7, <3>1, IndexedIs
  <2>9. PICK final : final = KeepIfIndexed(mid, at, added.ok)
    OBVIOUS
  <2>10. PICK t2 : t2 = [cols |-> cols, check |-> check, heap |-> final, indexes |-> added.indexes]
    OBVIOUS
  <2>11. new = [table |-> t2, pages |-> added.pages, ok |-> added.ok, damaged |-> added.damaged]
    <3>1. t2 = [t EXCEPT !.heap = final, !.indexes = added.indexes]
      <4>1. PICK more : more = added.indexes
        OBVIOUS
      <4>2. t = Entry(cols, check, heap, indexes)
        BY <1>2 DEF Entry
      <4>3. Changed(t, final, more) = Entry(cols, check, final, more)
        BY <4>2, TwoFields
      <4> QED
        BY <2>10, <4>1, <4>3 DEF Changed, Entry
    <3> QED
      BY <1>1, <1>6, <1>9, <2>1, <2>5, <2>9, <3>1 DEF StoreRow
  <2>12. new.table = t2 /\ new.pages = added.pages /\ new.ok = added.ok /\ new.damaged = added.damaged
    BY <2>11
  <2>13. RunType(new)
    BY <2>11, <2>12 DEF RunType
  <2>14. HeapOK(final, S) /\ All(final) = All(mid)
         /\ (added.ok => final = mid)
         /\ (~added.ok => Marked(mid, at, final))
    <3>1. CASE added.ok
      BY <2>2, <2>9, <3>1 DEF KeepIfIndexed
    <3>2. CASE ~added.ok
      <4>1. final = HeapMarkDeleted(mid, at)
        BY <2>9, <3>2 DEF KeepIfIndexed
      <4>2. HeapOK(final, S) /\ Marked(mid, at, final)
        BY <2>2, <2>4, <4>1, MarkKeeps
      <4> QED
        BY <3>2, <4>2 DEF Marked
    <3> QED
      BY <3>1, <3>2
  <2>15. PICK indexes2 : indexes2 = added.indexes
    OBVIOUS
  <2>16. TableOK(t2, d) /\ t2.cols = cols /\ t2.check = check /\ t2.heap = final
    <3>1. HeapOK(final, Allowed(t.cols, t.check, d))
      BY <1>1, <2>14
    <3>2. IndexesOK(indexes2, t.cols, All(final), ~d)
      BY <1>1, <1>4, <2>4, <2>6, <2>8, <2>14, <2>15
    <3>3. t2 = [cols |-> t.cols, check |-> t.check, heap |-> final, indexes |-> indexes2]
      BY <1>1, <2>10, <2>15
    <3> QED
      BY <1>1, <3>1, <3>2, <3>3, TableWith
  <2>17. RunOK(new, t, d)
    BY <1>1, <2>8, <2>12, <2>16 DEF RunOK
  <2>18. ASSUME added.ok
         PROVE  LiveIn(final) = LiveIn(heap) \cup {at} /\ final.nlive = heap.nlive + 1
    BY <2>2, <2>3, <2>14, <2>18
  <2>19. ASSUME ~added.ok
         PROVE  LiveIn(final) = LiveIn(heap) /\ RowsOf(final) = RowsOf(heap) /\ final.nlive = heap.nlive
    <3>1. Marked(mid, at, final)
      BY <2>14, <2>19
    <3>2. HeapIn(heap, S)
      BY <1>3 DEF HeapOK
    <3>3. LiveIn(final) = LiveIn(heap) /\ RowsOf(final) = RowsOf(heap)
      BY <2>2, <2>3, <3>1, <3>2, UnstoredRows
    <3>4. at \in LiveIn(mid)
      BY <2>2
    <3>5. heap.nlive \in Nat
      BY <1>3, <3>2, LiveIsFinite DEF HeapOK, Counted
    <3>6. final.nlive = mid.nlive - 1
      BY <3>1, <3>4 DEF Marked
    <3> QED
      BY <2>3, <3>3, <3>5, <3>6
  <2>20. StoredTo(new, t, row, d, at)
    BY <1>1, <2>2, <2>4, <2>12, <2>16, <2>17, <2>18, <2>19 DEF StoredTo
  <2> QED
    BY <2>13, <2>20
<1> QED
  BY <1>7, <1>8, <1>9

\* What checkConstraints lets through is a row the table may have.
LEMMA ConstrainedRow ==
    ASSUME NEW t, NEW d \in BOOLEAN, TableOK(t, d), NEW row \in Wide(t.cols), ~d => Len(row) = Len(t.cols),
           NEW exclude, CheckConstraints(t, row, exclude)
    PROVE  row \in Allowed(t.cols, t.check, d)
<1>1. CASE d
  BY <1>1 DEF Allowed
<1>2. CASE ~d
  <2>1. row \in Seq(Values) /\ Len(row) = Len(t.cols)
    BY <1>2 DEF Wide
  <2>2. \A c \in DOMAIN t.cols : Fits(t.cols[c], row[c])
    BY DEF CheckConstraints, Fits
  <2>3. ASSUME ChecksKeepNames
        PROVE  Passes(t.check, row)
    <3>1. t.check.declared = t.check.bound
      BY <2>3 DEF TableOK, CheckOK
    <3> QED
      BY <3>1 DEF CheckConstraints, Passes
  <2> QED
    BY <1>2, <2>1, <2>2, <2>3 DEF Allowed, Kept
<1> QED
  BY <1>1, <1>2

\* A finished statement leaves a table in the state its run came to.
LEMMA FinishKeeps ==
    ASSUME damaged \in BOOLEAN, NEW statement, NEW run, Finish(statement, run),
           run.ok \in BOOLEAN, run.damaged \in BOOLEAN, TableOK(run.table, damaged \/ run.damaged)
    PROVE  TableInv' /\ last'.statement = statement /\ last'.ok = run.ok /\ table' = run.table
<1>1. /\ table' = run.table /\ last' = [statement |-> statement, ok |-> run.ok]
      /\ damaged' = (damaged \/ run.damaged)
  BY DEF Finish
<1>2. last'.ok = run.ok /\ last'.statement = statement
  BY <1>1
<1>3. TableOK(table, damaged)'
  BY <1>1 
<1> QED
  BY <1>1, <1>2, <1>3 DEF TableInv

LEMMA FinishRun ==
    ASSUME damaged \in BOOLEAN, NEW statement, NEW run, Finish(statement, run), RunOK(run, table, damaged)
    PROVE  TableInv' /\ last'.statement = statement /\ last'.ok = run.ok /\ table' = run.table
<1>1. TableOK(run.table, damaged) /\ run.ok \in BOOLEAN /\ run.damaged \in BOOLEAN
  BY DEF RunOK
<1>2. TableOK(run.table, damaged \/ run.damaged)
  <2>1. CASE run.damaged
    <3>1. (damaged \/ run.damaged) = TRUE
      BY <2>1
    <3> QED
      BY <1>1, <3>1, TableWeaker
  <2>2. CASE ~run.damaged
    <3>1. (damaged \/ run.damaged) = damaged
      BY <2>2
    <3> QED
      BY <1>1, <3>1
  <2> QED
    BY <2>1, <2>2
<1> QED
  BY <1>1, <1>2, FinishKeeps

LEMMA FailKeeps ==
    ASSUME TableInv, NEW statement, Fail(statement)
    PROVE  TableInv' /\ last'.statement = statement /\ last'.ok = FALSE /\ table' = table
<1>1. table' = table /\ damaged' = damaged /\ last' = [statement |-> statement, ok |-> FALSE]
  BY DEF Fail
<1>2. last'.ok = FALSE /\ last'.statement = statement
  BY <1>1
<1> QED
  BY <1>1, <1>2 DEF TableInv

\* The run a statement starts with
LEMMA RunIs ==
    ASSUME NEW t, NEW pages
    PROVE  /\ Run(t, pages).table = t /\ Run(t, pages).pages = pages /\ Run(t, pages).ok = TRUE
           /\ Run(t, pages).damaged = FALSE /\ RunType(Run(t, pages))
BY DEF Run, RunType

\* INSERT
LEMMA InsertIsKept ==
    ASSUME TableInv, Insert
    PROVE  /\ TableInv' /\ last'.statement = "insert"
           /\ ~last'.ok => RowsOf(table'.heap) = RowsOf(table.heap)
<1>0. damaged \in BOOLEAN /\ TableOK(table, damaged)
  BY DEF TableInv
<1>1. PICK given \in Inserts, pages \in Allowances :
        IF CheckConstraints(table, InsertedRow(given), <<>>)
        THEN Finish("insert", StoreRow(Run(table, pages), InsertedRow(given)))
        ELSE Fail("insert")
  BY DEF Insert
<1>2. PICK row : row = InsertedRow(given)
  OBVIOUS
<1>3. CASE ~CheckConstraints(table, row, <<>>)
  BY <1>1, <1>2, <1>3, FailKeeps
<1>4. CASE CheckConstraints(table, row, <<>>)
  <2>1. PICK new : new = StoreRow(Run(table, pages), row)
    OBVIOUS
  <2>2. Finish("insert", new)
    BY <1>1, <1>2, <1>4, <2>1
  <2>3. ColsOK(table.cols)
    BY <1>0 DEF TableOK
  <2>4. Len(table.cols) \in Nat /\ DOMAIN table.cols = 1 .. Len(table.cols)
    BY <2>3, SeqIs DEF ColsOK
  <2>5. ASSUME NEW c \in DOMAIN table.cols PROVE row[c] \in Values
    <3>1. table.cols[c].default \in Values \cup {NoDefault}
      BY <2>3 DEF ColsOK, IsColumn
    <3>2. \A name \in DOMAIN given : given[name] \in Values
      BY StatementsAssumption
    <3> QED
      BY <1>2, <3>1, <3>2, ValuesAssumption DEF InsertedRow
  <2>6. row \in Seq(Values) /\ Len(row) = Len(table.cols)
    <3>1. PICK n \in Nat : n = Len(table.cols)
      BY <2>4
    <3>2. DOMAIN row = 1 .. n /\ row = [c \in 1 .. n |-> row[c]]
      BY <1>2, <2>4, <3>1 DEF InsertedRow
    <3>3. \A c \in 1 .. n : row[c] \in Values
      BY <2>4, <2>5, <3>1
    <3> QED
      BY <3>1, <3>2, <3>3
  <2>7. row \in Allowed(table.cols, table.check, damaged)
    <3>1. row \in Wide(table.cols)
      BY <2>4, <2>6 DEF Wide
    <3> QED
      BY <1>0, <1>4, <2>6, <3>1, ConstrainedRow
  <2>8. \E position : StoredTo(new, table, row, damaged, position)
    <3>1. PICK t, run : t = table /\ run = Run(t, pages)
      OBVIOUS
    <3>2. run.table = t /\ run.ok = TRUE /\ run.damaged = FALSE /\ RunType(run)
      BY <3>1, RunIs
    <3>3. new = StoreRow(run, row)
      BY <2>1, <3>1
    <3>4. damaged \in BOOLEAN /\ TableOK(t, damaged) /\ row \in Allowed(t.cols, t.check, damaged)
      BY <1>0, <2>7, <3>1
    <3>5. \E position : StoredTo(new, t, row, damaged, position)
      BY <3>2, <3>3, <3>4, StoreRowIs
    <3> QED
      BY <3>1, <3>5
  <2>9. /\ RunOK(new, table, damaged)
        /\ ~new.ok => RowsOf(new.table.heap) = RowsOf(table.heap)
    BY <2>8 DEF StoredTo
  <2> QED
    BY <1>0, <2>2, <2>9, FinishRun
<1> QED
  BY <1>3, <1>4

ReplaceFold == INSTANCE Folding WITH Op <- Replace, Step <- NoStep

-----------------------------------------------------------------------------
(* UPDATE *)

Changing(at, row) == [position |-> at, row |-> row]

Retiring(run, at) == [run EXCEPT !.table.heap = HeapMarkDeleted(@, at)]

\* The old version tombstoned
LEMMA RetiringIs ==
    ASSUME NEW run, RunType(run), NEW t, t = run.table, IsTable(t), NEW at,
           NEW heap, heap = HeapMarkDeleted(t.heap, at)
    PROVE  /\ RunType(Retiring(run, at)) /\ Retiring(run, at).table = Entry(t.cols, t.check, heap, t.indexes)
           /\ Retiring(run, at).ok = run.ok /\ Retiring(run, at).damaged = run.damaged
<1>1. PICK t2 : t2 = [t EXCEPT !.heap = heap]
  OBVIOUS
<1>2. t2 = Entry(t.cols, t.check, heap, t.indexes)
  BY <1>1 DEF IsTable, Entry
<1>3. Retiring(run, at) = [run EXCEPT !.table = t2]
  BY <1>1 DEF Retiring
<1>4. PICK new : new = Retiring(run, at)
  OBVIOUS
<1>5. new = [table |-> t2, pages |-> run.pages, ok |-> run.ok, damaged |-> run.damaged]
  BY <1>3, <1>4 DEF RunType
<1>6. new.table = t2 /\ new.pages = run.pages /\ new.ok = run.ok /\ new.damaged = run.damaged
  BY <1>5
<1> QED
  BY <1>2, <1>4, <1>5, <1>6 DEF RunType

(* What replacing the row at a position leaves of a run *)
ReplacedTo(new, run, t, d, at) ==
  /\ RunType(new) /\ RunOK(new, t, d)
  /\ ~run.ok => new = run
  /\ run.ok /\ at \in LiveIn(run.table.heap) =>
       /\ new.table.heap.nlive = run.table.heap.nlive
       /\ new.ok => LiveIn(run.table.heap) \ {at} \subseteq LiveIn(new.table.heap)

\* The new version stored and the old one tombstoned, or nothing.
LEMMA ReplaceIs ==
    ASSUME NEW t, NEW d \in BOOLEAN, NEW run, RunType(run), RunOK(run, t, d),
           NEW at \in Position, NEW row \in Allowed(t.cols, t.check, d),
           NEW new, new = Replace(run, Changing(at, row))
    PROVE  ReplacedTo(new, run, t, d, at)
<1>1. Changing(at, row).position = at /\ Changing(at, row).row = row
  BY DEF Changing
<1>2. CASE ~run.ok
  <2>1. new = run
    BY <1>2 DEF Replace
  <2> QED
    BY <1>2, <2>1 DEF ReplacedTo
<1>3. CASE run.ok
  <2>1. PICK old : old = run.table
    OBVIOUS
  <2>2. TableOK(old, d) /\ old.cols = t.cols /\ old.check = t.check /\ run.damaged \in BOOLEAN
    BY <2>1 DEF RunOK
  <2>3. PICK stored : stored = StoreRow(run, row)
    OBVIOUS
  <2>4. RunType(stored) /\ \E position : StoredTo(stored, old, row, d, position)
    BY <2>1, <2>2, <2>3, StoreRowIs
  <2>5. PICK position : StoredTo(stored, old, row, d, position)
    BY <2>4
  <2>6. new = IF ~stored.ok THEN stored ELSE Retiring(stored, at)
    BY <1>1, <1>3, <2>3 DEF Replace, Retiring
  <2>7. CASE ~stored.ok
    <3>1. new = stored
      BY <2>6, <2>7
    <3>2. RunOK(new, t, d)
      BY <2>2, <2>5, <3>1 DEF StoredTo, RunOK
    <3>3. new.table.heap.nlive = run.table.heap.nlive
      BY <2>1, <2>5, <2>7, <3>1 DEF StoredTo
    <3> QED
      BY <1>3, <2>4, <2>7, <3>1, <3>2, <3>3 DEF ReplacedTo
  <2>8. CASE stored.ok
    <3>1. PICK mid, S : mid = stored.table /\ S = Allowed(t.cols, t.check, d)
      OBVIOUS
    <3>2. TableOK(mid, d) /\ mid.cols = t.cols /\ mid.check = t.check
          /\ stored.ok \in BOOLEAN /\ stored.damaged \in BOOLEAN
      BY <2>2, <2>5, <3>1 DEF StoredTo, RunOK
    <3>3. PICK h, heap : h = mid.heap /\ heap = HeapMarkDeleted(h, at)
      OBVIOUS
    <3>4. HeapOK(h, S)
      BY <3>1, <3>2, <3>3 DEF TableOK
    <3>5. HeapOK(heap, S) /\ Marked(h, at, heap)
      BY <3>3, <3>4, MarkKeeps
    <3>6. PICK last2 : last2 = Retiring(stored, at)
      OBVIOUS
    <3>7. /\ RunType(last2) /\ last2.table = Entry(mid.cols, mid.check, heap, mid.indexes)
          /\ last2.ok = stored.ok /\ last2.damaged = stored.damaged
      <4>1. IsTable(mid)
        BY <3>2 DEF TableOK
      <4> QED
        BY <2>4, <3>1, <3>3, <3>6, <4>1, RetiringIs
    <3>8. new = last2
      BY <2>6, <2>8, <3>6
    <3>9. PICK indexes, t2 : indexes = mid.indexes /\ t2 = last2.table
      OBVIOUS
    <3>10. TableOK(t2, d) /\ t2.cols = mid.cols /\ t2.check = mid.check /\ t2.heap = heap
      <4>1. IndexesOK(indexes, mid.cols, All(heap), ~d)
        BY <3>2, <3>3, <3>5, <3>9 DEF TableOK, Marked
      <4>2. t2 = [cols |-> mid.cols, check |-> mid.check, heap |-> heap, indexes |-> indexes]
        BY <3>7, <3>9 DEF Entry
      <4>3. HeapOK(heap, Allowed(mid.cols, mid.check, d))
        BY <3>1, <3>2, <3>5
      <4> QED
        BY <3>2, <4>1, <4>2, <4>3, TableWith
    <3>11. RunOK(new, t, d)
      BY <3>2, <3>7, <3>8, <3>9, <3>10 DEF RunOK
    <3>12. ASSUME at \in LiveIn(run.table.heap)
           PROVE  /\ new.table.heap.nlive = run.table.heap.nlive
                  /\ LiveIn(run.table.heap) \ {at} \subseteq LiveIn(new.table.heap)
      <4>1. PICK before : before = run.table.heap
        OBVIOUS
      <4>2. LiveIn(h) = LiveIn(before) \cup {position} /\ h.nlive = before.nlive + 1
        BY <2>1, <2>5, <2>8, <3>1, <3>3, <4>1 DEF StoredTo
      <4>3. at \in LiveIn(h)
        BY <3>12, <4>1, <4>2
      <4>4. heap.nlive = h.nlive - 1 /\ LiveIn(heap) = LiveIn(h) \ {at}
        BY <3>5, <4>3 DEF Marked
      <4>5. before.nlive \in Nat
        <5>1. HeapOK(before, S)
          BY <2>1, <2>2, <3>1, <4>1 DEF TableOK
        <5>2. HeapIn(before, S) /\ before.nlive = Cardinality(LiveIn(before))
          BY <5>1 DEF HeapOK, Counted
        <5> QED
          BY <5>2, LiveIsFinite
      <4>6. new.table.heap = heap
        BY <3>8, <3>9, <3>10
      <4> QED
        BY <4>1, <4>2, <4>4, <4>5, <4>6
    <3> QED
      BY <1>3, <3>7, <3>8, <3>11, <3>12 DEF ReplacedTo
  <2> QED
    BY <2>7, <2>8
<1> QED
  BY <1>2, <1>3

(* The first k changes are made *)
Updating(run, t, rows, d, k) ==
  /\ RunType(run) /\ RunOK(run, t, d)
  /\ ~d => run.table.heap.nlive = t.heap.nlive
  /\ ~d /\ run.ok => \A i \in k + 1 .. Len(rows) : rows[i] \in LiveIn(run.table.heap)

LEMMA UpdateNext ==
    ASSUME NEW t, NEW d \in BOOLEAN, NEW rows, RowsAre(rows, All(t.heap), ~d),
           NEW k \in 1 .. Len(rows), NEW run, Updating(run, t, rows, d, k - 1),
           NEW row \in Allowed(t.cols, t.check, d)
    PROVE  Updating(Replace(run, Changing(rows[k], row)), t, rows, d, k)
<1>1. PICK new, at : at = rows[k] /\ new = Replace(run, Changing(at, row))
  OBVIOUS
<1>2. PICK n \in Nat : n = Len(rows) /\ DOMAIN rows = 1 .. n
  BY DEF RowsAre
<1>3. at \in Position /\ (~d => \A i \in 1 .. n : rows[i] = at => i = k)
  BY <1>1, <1>2 DEF RowsAre
<1>4. ReplacedTo(new, run, t, d, at)
  BY <1>1, <1>3, ReplaceIs DEF Updating
<1>5. RunType(new) /\ RunOK(new, t, d) /\ run.ok \in BOOLEAN
  BY <1>4 DEF ReplacedTo, Updating, RunOK
<1>6. ASSUME ~d
      PROVE  /\ new.table.heap.nlive = t.heap.nlive
             /\ new.ok => \A i \in k + 1 .. n : rows[i] \in LiveIn(new.table.heap)
  <2>1. CASE ~run.ok
    BY <1>4, <1>6, <2>1 DEF ReplacedTo, Updating
  <2>2. CASE run.ok
    <3>1. \A i \in (k - 1) + 1 .. n : rows[i] \in LiveIn(run.table.heap)
      BY <1>2, <1>6, <2>2 DEF Updating
    <3>2. k \in (k - 1) + 1 .. n /\ \A i \in k + 1 .. n : i \in (k - 1) + 1 .. n /\ i \in 1 .. n /\ i # k
      BY <1>2
    <3>3. at \in LiveIn(run.table.heap)
      BY <1>1, <3>1, <3>2
    <3>4. /\ new.table.heap.nlive = run.table.heap.nlive
          /\ new.ok => LiveIn(run.table.heap) \ {at} \subseteq LiveIn(new.table.heap)
      BY <1>4, <2>2, <3>3 DEF ReplacedTo
    <3>5. run.table.heap.nlive = t.heap.nlive
      BY <1>6 DEF Updating
    <3> QED
      BY <1>3, <1>6, <3>1, <3>2, <3>4, <3>5
  <2> QED
    BY <2>1, <2>2
<1> QED
  BY <1>1, <1>2, <1>5, <1>6 DEF Updating

LEMMA ReplaceIsFold ==
    ASSUME NEW base, NEW seq
    PROVE  FoldLeft(Replace, base, seq) = ReplaceFold!Folded(base, seq)
BY DEF FoldLeft, MapThenFoldSet, Max,
       ReplaceFold!Folded, ReplaceFold!MapThenFoldSet, ReplaceFold!Greatest

\* Rows replaced one after the other are as many as before.
LEMMA ReplacedAre ==
    ASSUME NEW t, NEW d \in BOOLEAN, TableOK(t, d), NEW rows, RowsAre(rows, All(t.heap), ~d),
           \A i \in DOMAIN rows : rows[i] \in LiveIn(t.heap),
           NEW changes, DOMAIN changes = DOMAIN rows,
           \A i \in DOMAIN rows : \E row \in Allowed(t.cols, t.check, d) : changes[i] = Changing(rows[i], row),
           NEW pages, NEW run, run = FoldLeft(Replace, Run(t, pages), changes)
    PROVE  RunOK(run, t, d) /\ (~d => run.table.heap.nlive = t.heap.nlive)
<1>1. PICK n \in Nat : n = Len(rows) /\ DOMAIN rows = 1 .. n
  BY DEF RowsAre
<1>2. PICK base : base = Run(t, pages)
  OBVIOUS
<1>3. PICK r : ReplaceFold!Stages(r, base, n, changes)
  BY <1>1, ReplaceFold!FoldSteps
<1> DEFINE Bad == {k \in 0 .. n : ~Updating(r[k], t, rows, d, k)}
<1>4. 0 \notin Bad
  <2>1. r[0] = base
    BY <1>3 DEF ReplaceFold!Stages
  <2>2. base.table = t /\ base.ok = TRUE /\ base.damaged = FALSE /\ RunType(base)
    BY <1>2, RunIs
  <2>3. RunOK(base, t, d)
    BY <2>2 DEF RunOK
  <2>4. Updating(base, t, rows, d, 0)
    BY <1>1, <2>2, <2>3 DEF Updating
  <2> QED
    BY <2>1, <2>4
<1>5. ASSUME NEW k \in 1 .. n, k \in Bad PROVE k - 1 \in Bad
  <2>1. SUFFICES ASSUME k - 1 \notin Bad PROVE FALSE
    OBVIOUS
  <2>2. PICK before : before = r[k - 1]
    OBVIOUS
  <2>3. Updating(before, t, rows, d, k - 1)
    BY <2>1, <2>2
  <2>4. PICK row \in Allowed(t.cols, t.check, d) : changes[k] = Changing(rows[k], row)
    BY <1>1
  <2>5. r[k] = Replace(before, Changing(rows[k], row))
    BY <1>3, <2>2, <2>4 DEF ReplaceFold!Stages
  <2>6. k \in 1 .. Len(rows)
    BY <1>1
  <2>7. Updating(r[k], t, rows, d, k)
    <3> HIDE DEF Bad
    <3>1. Updating(Replace(before, Changing(rows[k], row)), t, rows, d, k)
      BY <2>3, <2>4, <2>6, UpdateNext
    <3> QED
      BY <2>5, <3>1
  <2> QED
    BY <1>5, <2>7
<1>6. Bad = {}
  <2>1. Bad \in SUBSET (0 .. n)
    OBVIOUS
  <2> HIDE DEF Bad
  <2> QED
    BY <1>4, <1>5, <2>1, ReplaceFold!Climb
<1>7. Updating(r[n], t, rows, d, n)
  BY <1>6
<1>8. run = r[n]
  BY <1>2, <1>3, ReplaceIsFold DEF ReplaceFold!Stages
<1> QED
  BY <1>7, <1>8 DEF Updating

\* The slot a column of the table is found at
LEMMA FoundColumn ==
    ASSUME NEW cols, NEW name, name \in NamesOf(cols)
    PROVE  FindColumn(cols, name) \in DOMAIN cols /\ cols[FindColumn(cols, name)].name = name
BY DEF FindColumn, NamesOf

\* SET gives a row of the same width.
LEMMA AssignedIs ==
    ASSUME NEW cols, ColsOK(cols), NEW sets \in Updates,
           \A i \in DOMAIN sets : {sets[i].column, sets[i].from} \subseteq NamesOf(cols),
           NEW row \in Wide(cols), NEW new, new = ApplyAssignments(cols, sets, row)
    PROVE  new \in Wide(cols) /\ Len(new) = Len(row)
<1>1. PICK n \in Nat : n = Len(row) /\ DOMAIN row = 1 .. n /\ \A i \in 1 .. n : row[i] \in Values
  <2>1. row \in Seq(Values)
    BY DEF Wide
  <2> QED
    BY <2>1
<1>2. ASSUME NEW i \in DOMAIN sets
      PROVE  (IF sets[i].literal THEN sets[i].value ELSE sets[i].map[row[FindColumn(cols, sets[i].from)]]) \in Values
  <2>1. FindColumn(cols, sets[i].from) \in DOMAIN cols
    BY <1>2, FoundColumn
  <2>2. row[FindColumn(cols, sets[i].from)] \in Values
    <3>1. PICK S : S = Wide(cols)
      OBVIOUS
    <3>2. S \in SUBSET Wide(cols) /\ row \in S
      BY <3>1
    <3>3. \A r \in S : \A c \in DOMAIN cols : c \in DOMAIN r /\ r[c] \in Values
      BY <3>2, WideReaches
    <3> QED
      BY <2>1, <3>2, <3>3
  <2>3. IF sets[i].literal THEN sets[i].value \in Values ELSE sets[i].map \in [Values -> Values]
    BY <1>2, StatementsAssumption
  <2> QED
    BY <2>2, <2>3
<1>3. DOMAIN new = 1 .. n /\ new = [c \in 1 .. n |-> new[c]]
  BY <1>1 DEF ApplyAssignments
<1>4. \A c \in 1 .. n : new[c] \in Values
  BY <1>1, <1>2 DEF ApplyAssignments
<1>5. new \in Seq(Values) /\ Len(new) = n
  BY <1>3, <1>4
<1> QED
  BY <1>1, <1>5 DEF Wide

\* UPDATE
LEMMA UpdateIsKept ==
    ASSUME TableInv, Update
    PROVE  /\ TableInv' /\ last'.statement = "update"
           /\ ~damaged => table'.heap.nlive = table.heap.nlive
<1>0. damaged \in BOOLEAN /\ TableOK(table, damaged)
  BY DEF TableInv
<1>1. PICK where \in Wheres, sets \in Updates, pages \in Allowances :
        LET chosen == CollectRows(table, where)
            New(position) == ApplyAssignments(table.cols, sets, HeapRead(table.heap, position))
            changes == [i \in DOMAIN chosen.rows |->
                          [position |-> chosen.rows[i], row |-> New(chosen.rows[i])]]
        IN /\ \A i \in DOMAIN sets : {sets[i].column, sets[i].from} \subseteq ColumnNames
           /\ IF /\ chosen.ok
                 /\ \A r \in ToSet(chosen.rows) : CheckConstraints(table, New(r), r)
                 /\ ~LiteralCollides(table.cols, sets, Len(chosen.rows))
              THEN Finish("update", FoldLeft(Replace, Run(table, pages), changes))
              ELSE Fail("update")
  BY DEF Update
<1>2. PICK chosen : chosen = CollectRows(table, where)
  OBVIOUS
<1>3. PICK rows : rows = chosen.rows
  OBVIOUS
<1> DEFINE New(position) == ApplyAssignments(table.cols, sets, HeapRead(table.heap, position))
           changes == [i \in DOMAIN rows |-> Changing(rows[i], New(rows[i]))]
<1>4. \/ Fail("update")
      \/ /\ \A r \in ToSet(rows) : CheckConstraints(table, New(r), r)
         /\ Finish("update", FoldLeft(Replace, Run(table, pages), changes))
  BY <1>1, <1>2, <1>3 DEF Changing
<1>5. \A i \in DOMAIN sets : {sets[i].column, sets[i].from} \subseteq NamesOf(table.cols)
  BY <1>1 DEF ColumnNames, NamesOf
<1>6. CASE Fail("update")
  BY <1>6, FailKeeps
<1>7. ASSUME \A r \in ToSet(rows) : CheckConstraints(table, New(r), r),
             Finish("update", FoldLeft(Replace, Run(table, pages), changes))
      PROVE  /\ TableInv' /\ last'.statement = "update"
             /\ ~damaged => table'.heap.nlive = table.heap.nlive
  <2>1. PICK cols, check, heap, indexes, S :
          /\ cols = table.cols /\ check = table.check /\ heap = table.heap /\ indexes = table.indexes
          /\ S = Allowed(cols, check, damaged)
    OBVIOUS
  <2>2. HeapOK(heap, S) /\ HeapIn(heap, S) /\ ColsOK(cols) /\ S \subseteq Wide(cols)
    <3>1. HeapOK(heap, S) /\ ColsOK(cols)
      BY <1>0, <2>1 DEF TableOK
    <3> QED
      BY <2>1, <3>1, AllowedIs DEF HeapOK
  <2>3. PICK once \in BOOLEAN : once = ~damaged
    BY <1>0
  <2>4. RowsAre(rows, All(heap), once) /\ \A i \in DOMAIN rows : rows[i] \in LiveIn(heap)
    <3>1. IndexesOK(table.indexes, table.cols, All(table.heap), once)
      BY <1>0, <2>3 DEF TableOK
    <3>2. Condition(where)
      BY WheresAssumption
    <3>3. HeapIn(table.heap, S)
      BY <2>1, <2>2
    <3>4. /\ RowsAre(chosen.rows, All(table.heap), once)
          /\ \A i \in DOMAIN chosen.rows : chosen.rows[i] \in LiveIn(table.heap)
      <4> HIDE DEF New, changes
      <4> QED
        BY <1>2, <3>1, <3>2, <3>3, ChosenAre
    <3> QED
      BY <1>3, <2>1, <3>4
  <2>5. ASSUME NEW i \in DOMAIN rows
        PROVE  New(rows[i]) \in S
    <3>1. PICK at : at = rows[i]
      OBVIOUS
    <3>2. at \in LiveIn(heap) /\ at \in ToSet(rows)
      BY <2>4, <2>5, <3>1 DEF ToSet
    <3>3. PICK row : row = HeapRead(heap, at)
      OBVIOUS
    <3>4. row \in S
      BY <2>2, <3>2, <3>3, LiveRow
    <3>5. New(at) \in Wide(cols) /\ Len(New(at)) = Len(row)
      <4>1. row \in Wide(cols) /\ New(at) = ApplyAssignments(cols, sets, row)
        BY <2>1, <2>2, <3>3, <3>4
      <4> HIDE DEF New
      <4> QED
        BY <1>5, <2>1, <2>2, <4>1, AssignedIs
    <3>6. ~damaged => Len(New(at)) = Len(cols)
      BY <2>1, <3>4, <3>5 DEF Allowed, Kept
    <3>7. CheckConstraints(table, New(at), at)
      BY <1>7, <3>2
    <3>8. New(at) \in Allowed(table.cols, table.check, damaged)
      <4> HIDE DEF New
      <4> QED
        BY <1>0, <2>1, <3>5, <3>6, <3>7, ConstrainedRow
    <3> QED
      BY <2>1, <3>1, <3>8
  <2>6. PICK all : all = changes
    OBVIOUS
  <2>7. DOMAIN all = DOMAIN rows
        /\ \A i \in DOMAIN rows : \E row \in Allowed(table.cols, table.check, damaged) : all[i] = Changing(rows[i], row)
    BY <2>1, <2>5, <2>6
  <2>8. PICK run : run = FoldLeft(Replace, Run(table, pages), all)
    OBVIOUS
  <2>9. RunOK(run, table, damaged) /\ (~damaged => run.table.heap.nlive = table.heap.nlive)
    <3>1. RowsAre(rows, All(table.heap), ~damaged) /\ \A i \in DOMAIN rows : rows[i] \in LiveIn(table.heap)
      BY <2>1, <2>3, <2>4
    <3> HIDE DEF New, changes
    <3> QED
      BY <1>0, <2>7, <2>8, <3>1, ReplacedAre
  <2>10. Finish("update", run)
    BY <1>7, <2>6, <2>8
  <2> QED
    BY <1>0, <2>9, <2>10, FinishRun
<1> QED
  BY <1>4, <1>6, <1>7

DeleteFold == INSTANCE Folding WITH Op <- HeapMarkDeleted, Step <- NoStep

LEMMA DeleteIsFold ==
    ASSUME NEW base, NEW seq
    PROVE  FoldLeft(HeapMarkDeleted, base, seq) = DeleteFold!Folded(base, seq)
BY DEF FoldLeft, MapThenFoldSet, Max,
       DeleteFold!Folded, DeleteFold!MapThenFoldSet, DeleteFold!Greatest

\* Rows tombstoned one after the other leave the slots there were.
LEMMA DeletedAre ==
    ASSUME NEW S, NEW heap, HeapOK(heap, S), NEW rows, NEW n \in Nat, DOMAIN rows = 1 .. n,
           \A i \in 1 .. n : rows[i] \in Position,
           NEW new, new = FoldLeft(HeapMarkDeleted, heap, rows)
    PROVE  HeapOK(new, S) /\ All(new) = All(heap)
<1>1. PICK r : DeleteFold!Stages(r, heap, n, rows)
  BY DeleteFold!FoldSteps
<1> DEFINE Bad == {k \in 0 .. n : ~(HeapOK(r[k], S) /\ All(r[k]) = All(heap))}
<1>2. 0 \notin Bad
  BY <1>1 DEF DeleteFold!Stages
<1>3. ASSUME NEW k \in 1 .. n, k \in Bad PROVE k - 1 \in Bad
  <2>1. SUFFICES ASSUME k - 1 \notin Bad PROVE FALSE
    OBVIOUS
  <2>2. PICK before, after, at : before = r[k - 1] /\ after = r[k] /\ at = rows[k]
    OBVIOUS
  <2>3. HeapOK(before, S) /\ All(before) = All(heap)
    BY <2>1, <2>2
  <2>4. after = HeapMarkDeleted(before, at) /\ at \in Position
    BY <1>1, <2>2 DEF DeleteFold!Stages
  <2>5. HeapOK(after, S) /\ Marked(before, at, after)
    <3> HIDE DEF Bad
    <3> QED
      BY <2>3, <2>4, MarkKeeps
  <2>6. All(after) = All(heap)
    BY <2>3, <2>5 DEF Marked
  <2> QED
    BY <1>3, <2>2, <2>5, <2>6
<1>4. Bad = {}
  <2>1. Bad \in SUBSET (0 .. n)
    OBVIOUS
  <2> HIDE DEF Bad
  <2> QED
    BY <1>2, <1>3, <2>1, DeleteFold!Climb
<1>5. HeapOK(r[n], S) /\ All(r[n]) = All(heap)
  BY <1>4
<1> QED
  BY <1>1, <1>5, DeleteIsFold DEF DeleteFold!Stages

(* A heap and indexes for the columns and the CHECK of a table *)
Furnished(t, d, heap, indexes) ==
  /\ d \in BOOLEAN /\ TableOK(t, d)
  /\ HeapOK(heap, Allowed(t.cols, t.check, d))
  /\ IndexesOK(indexes, t.cols, All(heap), ~d)

LEMMA RunWith ==
    ASSUME NEW t, NEW d, NEW heap, NEW indexes, Furnished(t, d, heap, indexes),
           NEW new, new = Entry(t.cols, t.check, heap, indexes), NEW pages
    PROVE  /\ RunOK(Run(new, pages), t, d) /\ Run(new, pages).ok = TRUE
           /\ Run(new, pages).table = new /\ new.heap = heap
<1>1. TableOK(new, d) /\ new.cols = t.cols /\ new.check = t.check /\ new.heap = heap
  <2>1. /\ d \in BOOLEAN /\ TableOK(t, d)
        /\ HeapOK(heap, Allowed(t.cols, t.check, d))
        /\ IndexesOK(indexes, t.cols, All(heap), ~d)
    BY DEF Furnished
  <2>2. new = [cols |-> t.cols, check |-> t.check, heap |-> heap, indexes |-> indexes]
    BY DEF Entry
  <2> QED
    BY <2>1, <2>2, TableWith
<1> QED
  <2>1. PICK run : run = Run(new, pages)
    OBVIOUS
  <2>2. run = [table |-> new, pages |-> pages, ok |-> TRUE, damaged |-> FALSE]
    BY <2>1 DEF Run
  <2>3. run.table = new /\ run.ok = TRUE /\ run.damaged = FALSE
    BY <2>2
  <2> QED
    BY <1>1, <2>1, <2>3 DEF RunOK

\* DELETE
LEMMA DeleteIsKept ==
    ASSUME TableInv, Delete
    PROVE  /\ TableInv' /\ last'.statement = "delete"
           /\ ~last'.ok => RowsOf(table'.heap) = RowsOf(table.heap)
<1>0. damaged \in BOOLEAN /\ TableOK(table, damaged)
  BY DEF TableInv
<1>1. PICK where \in Wheres :
        LET chosen == CollectRows(table, where)
        IN IF chosen.ok
           THEN Finish("delete", Run([table EXCEPT !.heap = FoldLeft(HeapMarkDeleted, @, chosen.rows)], 0))
           ELSE Fail("delete")
  BY DEF Delete
<1>2. PICK chosen : chosen = CollectRows(table, where)
  OBVIOUS
<1>3. CASE ~chosen.ok
  BY <1>1, <1>2, <1>3, FailKeeps
<1>4. CASE chosen.ok
  <2>1. PICK rows : rows = chosen.rows
    OBVIOUS
  <2>2. PICK cols, check, heap, indexes, S :
          /\ cols = table.cols /\ check = table.check /\ heap = table.heap /\ indexes = table.indexes
          /\ S = Allowed(cols, check, damaged)
    OBVIOUS
  <2>3. HeapOK(heap, S) /\ HeapIn(heap, S)
    BY <1>0, <2>2 DEF TableOK, HeapOK
  <2>4. PICK once \in BOOLEAN : once = ~damaged
    BY <1>0
  <2>5. RowsAre(rows, All(heap), once)
    <3>1. IndexesOK(table.indexes, table.cols, All(table.heap), once)
      BY <1>0, <2>4 DEF TableOK
    <3>2. Condition(where)
      BY WheresAssumption
    <3>3. HeapIn(table.heap, S)
      BY <2>2, <2>3
    <3>4. RowsAre(chosen.rows, All(table.heap), once)
      BY <1>2, <3>1, <3>2, <3>3, ChosenAre
    <3> QED
      BY <2>1, <2>2, <3>4
  <2>6. PICK new : new = FoldLeft(HeapMarkDeleted, heap, rows)
    OBVIOUS
  <2>7. PICK n \in Nat : DOMAIN rows = 1 .. n /\ \A i \in 1 .. n : rows[i] \in Position
    BY <2>5 DEF RowsAre
  <2>8. HeapOK(new, S) /\ All(new) = All(heap)
    BY <2>3, <2>6, <2>7, DeletedAre
  <2>9. PICK t2 : t2 = [table EXCEPT !.heap = new]
    OBVIOUS
  <2>10. t2 = Entry(table.cols, table.check, new, indexes)
    <3>1. IsTable(table)
      BY <1>0 DEF TableOK
    <3> QED
      BY <2>2, <2>9, <3>1 DEF IsTable, Entry
  <2>11. Finish("delete", Run(t2, 0))
    BY <1>1, <1>2, <1>4, <2>1, <2>2, <2>6, <2>9
  <2>12. PICK run : run = Run(t2, 0)
    OBVIOUS
  <2>13. RunOK(run, table, damaged) /\ run.ok = TRUE
    <3>1. IndexesOK(indexes, table.cols, All(new), ~damaged)
      BY <1>0, <2>2, <2>8 DEF TableOK
    <3>2. HeapOK(new, Allowed(table.cols, table.check, damaged))
      BY <2>2, <2>8
    <3> QED
      <4>1. PICK pages : pages = 0
        OBVIOUS
      <4>2. RunOK(Run(t2, pages), table, damaged) /\ Run(t2, pages).ok = TRUE
        <5>1. Furnished(table, damaged, new, indexes)
          BY <1>0, <3>1, <3>2 DEF Furnished
        <5> QED
          BY <2>10, <5>1, RunWith
      <4> QED
        BY <2>12, <4>1, <4>2
  <2>14. Finish("delete", run)
    BY <2>11, <2>12
  <2> QED
    BY <1>0, <2>13, <2>14, FinishRun
<1> QED
  BY <1>3, <1>4

-----------------------------------------------------------------------------
(* VACUUM *)

(* A table whose indexes may have any entries *)
Rebuildable(t, d) ==
  /\ d \in BOOLEAN
  /\ IsTable(t) /\ ColsOK(t.cols) /\ CheckOK(t.check, t.cols)
  /\ HeapOK(t.heap, Allowed(t.cols, t.check, d))
  /\ IndexesOK(t.indexes, t.cols, {}, FALSE)

\* The indexes rebuilt over a heap that is as it should be
LEMMA RebuiltKept ==
    ASSUME NEW t, NEW d, Rebuildable(t, d), NEW pages, NEW run, run = RebuildIndexes(Run(t, pages))
    PROVE  /\ run.ok \in BOOLEAN /\ run.damaged = ~run.ok /\ run.table.heap = t.heap
           /\ TableOK(run.table, d \/ run.damaged)
<1>1. PICK cols, check, heap, S :
        cols = t.cols /\ check = t.check /\ heap = t.heap /\ S = Allowed(cols, check, d)
  OBVIOUS
<1>2. HeapOK(heap, S) /\ HeapIn(heap, S) /\ ColsOK(cols) /\ S \in SUBSET Wide(cols) /\ d \in BOOLEAN
      /\ IsTable(t) /\ CheckOK(check, cols) /\ IndexesOK(t.indexes, cols, {}, FALSE)
  BY <1>1, AllowedIs DEF HeapOK, Rebuildable
<1>3. \A c \in DOMAIN cols : Reaches(S, c)
  BY <1>2, WideReaches
<1>4. RebuiltTo(run, t, cols)
  <2>1. HeapIn(t.heap, S) /\ IsTable(t) /\ IndexesOK(t.indexes, cols, {}, FALSE)
    BY <1>1, <1>2
  <2> QED
    BY <1>3, <2>1, RebuiltIs
<1>5. PICK t2, indexes : t2 = run.table /\ indexes = t2.indexes
  OBVIOUS
<1>6. /\ run.ok \in BOOLEAN /\ run.damaged = ~run.ok /\ IsTable(t2)
      /\ t2.cols = cols /\ t2.check = check /\ t2.heap = heap
      /\ IndexesOK(indexes, cols, All(heap), run.ok)
  BY <1>1, <1>4, <1>5 DEF RebuiltTo
<1>7. PICK e \in BOOLEAN : e = (d \/ run.damaged)
  BY <1>2, <1>6
<1>8. IndexesOK(indexes, cols, All(heap), ~e)
  <2>1. PICK slots : slots = All(heap)
    OBVIOUS
  <2>2. PICK once \in BOOLEAN : once = run.ok
    BY <1>6
  <2>3. PICK still \in BOOLEAN : still = ~e
    BY <1>7
  <2>4. still => once
    BY <1>6, <1>7, <2>2, <2>3
  <2>5. IndexesOK(indexes, cols, slots, once)
    BY <1>6, <2>1, <2>2
  <2>6. IndexesOK(indexes, cols, slots, still)
    BY <2>4, <2>5, IndexesWeaker
  <2> QED
    BY <2>1, <2>3, <2>6
<1>9. HeapOK(heap, Allowed(cols, check, e))
  <2>1. CASE e = d
    BY <1>1, <1>2, <2>1
  <2>2. CASE e = TRUE
    <3>1. Allowed(cols, check, TRUE) = Wide(cols) /\ Wide(cols) \in SUBSET Seq(Values)
      BY <1>2, AllowedIs
    <3> QED
      BY <1>2, <2>2, <3>1, HeapWeaker
  <2> QED
    BY <1>2, <1>6, <1>7, <2>1, <2>2
<1>10. TableOK(t2, e)
  BY <1>2, <1>5, <1>6, <1>8, <1>9 DEF TableOK
<1> QED
  BY <1>1, <1>5, <1>6, <1>7, <1>10

\* VACUUM
LEMMA VacuumIsKept ==
    ASSUME TableInv, Vacuum
    PROVE  /\ TableInv' /\ last'.statement = "vacuum"
           /\ RowsOf(table'.heap) = RowsOf(table.heap)
<1>0. damaged \in BOOLEAN /\ TableOK(table, damaged)
  BY DEF TableInv
<1>1. PICK pages \in Allowances :
        LET compact == HeapCompact(table.heap, pages)
        IN IF compact.ok
           THEN Finish("vacuum", RebuildIndexes(Run([table EXCEPT !.heap = compact.heap], compact.pages)))
           ELSE Fail("vacuum")
  BY DEF Vacuum
<1>2. PICK compact : compact = HeapCompact(table.heap, pages)
  OBVIOUS
<1>3. CASE ~compact.ok
  BY <1>1, <1>2, <1>3, FailKeeps
<1>4. CASE compact.ok
  <2>1. PICK cols, check, heap, indexes, S :
          /\ cols = table.cols /\ check = table.check /\ heap = table.heap /\ indexes = table.indexes
          /\ S = Allowed(cols, check, damaged)
    OBVIOUS
  <2>2. HeapOK(heap, S) /\ HeapIn(heap, S) /\ S \in SUBSET Seq(Values) /\ IsTable(table)
        /\ ColsOK(cols) /\ CheckOK(check, cols)
    BY <1>0, <2>1 DEF TableOK, HeapOK
  <2>3. PICK new : new = compact.heap
    OBVIOUS
  <2>4. HeapOK(new, S) /\ RowsOf(new) = RowsOf(heap)
    <3>1. RowsOf(heap) \in Seq(S)
      BY <2>2, RowsOfIs
    <3>2. compact = HeapCompact(heap, pages)
      BY <1>2, <2>1
    <3> QED
      BY <1>4, <2>2, <2>3, <3>1, <3>2, CompactIs
  <2>5. PICK t2 : t2 = [table EXCEPT !.heap = new]
    OBVIOUS
  <2>6. t2 = [cols |-> cols, check |-> check, heap |-> new, indexes |-> indexes]
    BY <2>1, <2>2, <2>5 DEF IsTable
  <2>7. t2.cols = cols /\ t2.check = check /\ t2.heap = new /\ t2.indexes = indexes /\ IsTable(t2)
    BY <2>6 DEF IsTable
  <2>8. PICK run : run = RebuildIndexes(Run(t2, compact.pages))
    OBVIOUS
  <2>9. Finish("vacuum", run)
    BY <1>1, <1>2, <1>4, <2>3, <2>5, <2>8
  <2>10. IndexesOK(indexes, cols, {}, FALSE)
    BY <1>0, <2>1 DEF TableOK, IndexesOK, IndexOK, TreeOK
  <2>11. /\ run.ok \in BOOLEAN /\ run.damaged = ~run.ok /\ run.table.heap = new
         /\ TableOK(run.table, damaged \/ run.damaged)
    <3>1. HeapOK(t2.heap, Allowed(t2.cols, t2.check, damaged)) /\ ColsOK(t2.cols) /\ CheckOK(t2.check, t2.cols)
          /\ IndexesOK(t2.indexes, t2.cols, {}, FALSE)
      BY <2>1, <2>2, <2>4, <2>7, <2>10
    <3>2. PICK more : more = compact.pages
      OBVIOUS
    <3>3. run = RebuildIndexes(Run(t2, more))
      BY <2>8, <3>2
    <3>4. /\ run.ok \in BOOLEAN /\ run.damaged = ~run.ok /\ run.table.heap = t2.heap
          /\ TableOK(run.table, damaged \/ run.damaged)
      <4>1. PICK d \in BOOLEAN : d = damaged
        BY <1>0
      <4>2. HeapOK(t2.heap, Allowed(t2.cols, t2.check, d))
        BY <3>1, <4>1
      <4>3. /\ run.ok \in BOOLEAN /\ run.damaged = ~run.ok /\ run.table.heap = t2.heap
            /\ TableOK(run.table, d \/ run.damaged)
        <5>1. Rebuildable(t2, d)
          BY <2>7, <3>1, <4>2 DEF Rebuildable
        <5> QED
          BY <3>3, <5>1, RebuiltKept
      <4> QED
        BY <4>1, <4>3
    <3> QED
      BY <2>7, <3>4
  <2>12. TableInv' /\ last'.statement = "vacuum" /\ table' = run.table
    BY <1>0, <2>9, <2>11, FinishKeeps
  <2> QED
    BY <2>1, <2>4, <2>11, <2>12
<1> QED
  BY <1>3, <1>4

-----------------------------------------------------------------------------
(* Sequences with an element more or one less *)

First(x, seq) == <<x>> \o seq

LEMMA FirstIs ==
    ASSUME NEW seq, IsSeq(seq), NEW x
    PROVE  /\ IsSeq(First(x, seq)) /\ DOMAIN First(x, seq) = 1 .. Len(seq) + 1
           /\ First(x, seq)[1] = x /\ \A i \in DOMAIN seq : First(x, seq)[i + 1] = seq[i]
<1>1. PICK S : S = {seq[i] : i \in DOMAIN seq} \cup {x}
  OBVIOUS
<1>2. seq \in Seq(S) /\ <<x>> \in Seq(S)
  <2>1. seq \in Seq({seq[i] : i \in DOMAIN seq})
    BY DEF IsSeq
  <2> QED
    BY <1>1, <2>1
<1>3. PICK one : one = <<x>>
  OBVIOUS
<1>4. one \in Seq(S) /\ Len(one) = 1 /\ one[1] = x
  BY <1>2, <1>3
<1>5. First(x, seq) = one \o seq
  BY <1>3 DEF First
<1>6. /\ one \o seq \in Seq(S) /\ Len(one \o seq) = 1 + Len(seq)
      /\ (one \o seq)[1] = x /\ \A i \in 1 .. Len(seq) : (one \o seq)[1 + i] = seq[i]
  BY <1>2, <1>4, Joined
<1>7. Len(seq) \in Nat /\ DOMAIN seq = 1 .. Len(seq)
  BY SeqIs
<1>8. First(x, seq) \in Seq(S) /\ Len(First(x, seq)) = 1 + Len(seq)
  BY <1>5, <1>6
<1>9. DOMAIN First(x, seq) = 1 .. Len(seq) + 1 /\ IsSeq(First(x, seq))
  BY <1>7, <1>8, SeqIn
<1> QED
  BY <1>5, <1>6, <1>7, <1>9

(* left is seq without one of its elements *)
WithoutAt(left, seq, k) ==
  /\ DOMAIN left = 1 .. Len(seq) - 1 /\ Len(left) = Len(seq) - 1
  /\ \A i \in 1 .. Len(seq) - 1 : left[i] = IF i < k THEN seq[i] ELSE seq[i + 1]

LEMMA RemovedIn ==
    ASSUME NEW S, NEW seq \in Seq(S), NEW k \in 1 .. Len(seq)
    PROVE  RemoveAt(seq, k) \in Seq(S) /\ WithoutAt(RemoveAt(seq, k), seq, k)
<1>1. PICK n \in Nat : n = Len(seq)
  OBVIOUS
<1>2. PICK front, rest, all : front = SubSeq(seq, 1, k - 1) /\ rest = SubSeq(seq, k + 1, n) /\ all = RemoveAt(seq, k)
  OBVIOUS
<1>3. /\ front \in Seq(S) /\ Len(front) = k - 1
      /\ \A i \in 1 .. k - 1 : front[i] = seq[i]
  <2>1. k - 1 \in Nat /\ 1 \in Nat /\ 1 <= 1 /\ 1 <= (k - 1) + 1 /\ k - 1 <= Len(seq)
    BY <1>1
  <2>2. PICK b \in Nat : b = k - 1
    BY <2>1
  <2>3. /\ SubSeq(seq, 1, b) \in Seq(S) /\ Len(SubSeq(seq, 1, b)) = b - 1 + 1
        /\ \A i \in 1 .. b - 1 + 1 : SubSeq(seq, 1, b)[i] = seq[1 + i - 1]
    BY <2>1, <2>2, Slice
  <2>4. \A i \in 1 .. k - 1 : i \in 1 .. b - 1 + 1 /\ 1 + i - 1 = i
    BY <2>2
  <2> QED
    BY <1>2, <2>2, <2>3, <2>4
<1>4. /\ rest \in Seq(S) /\ Len(rest) = n - k
      /\ \A i \in 1 .. n - k : rest[i] = seq[k + i]
  <2>1. PICK a \in Nat : a = k + 1
    OBVIOUS
  <2>2. /\ SubSeq(seq, a, n) \in Seq(S) /\ Len(SubSeq(seq, a, n)) = n - a + 1
        /\ \A i \in 1 .. n - a + 1 : SubSeq(seq, a, n)[i] = seq[a + i - 1]
    BY <1>1, <2>1, Slice
  <2>3. \A i \in 1 .. n - k : i \in 1 .. n - a + 1 /\ a + i - 1 = k + i
    BY <2>1
  <2>4. rest = SubSeq(seq, a, n) /\ n - a + 1 = n - k
    BY <1>1, <1>2, <2>1
  <2>5. \A i \in 1 .. n - k : rest[i] = seq[k + i]
    BY <2>2, <2>3, <2>4
  <2> QED
    BY <2>2, <2>4, <2>5
<1>5. all = front \o rest
  BY <1>1, <1>2 DEF RemoveAt
<1>6. /\ front \o rest \in Seq(S) /\ Len(front \o rest) = Len(front) + Len(rest)
      /\ \A i \in 1 .. Len(front) : (front \o rest)[i] = front[i]
      /\ \A i \in 1 .. Len(rest) : (front \o rest)[Len(front) + i] = rest[i]
  <2>1. front \in Seq(S) /\ rest \in Seq(S)
    BY <1>3, <1>4
  <2> QED
    BY <2>1, Joined
<1>7. all \in Seq(S) /\ Len(all) = n - 1 /\ DOMAIN all = 1 .. n - 1
  <2>1. all \in Seq(S) /\ Len(all) = n - 1
    BY <1>1, <1>3, <1>4, <1>5, <1>6
  <2> QED
    BY <2>1
<1>8. ASSUME NEW i \in 1 .. n - 1
      PROVE  all[i] = IF i < k THEN seq[i] ELSE seq[i + 1]
  <2>1. CASE i < k
    <3>1. i \in 1 .. k - 1
      BY <2>1
    <3> QED
      BY <1>3, <1>5, <1>6, <2>1, <3>1
  <2>2. CASE ~(i < k)
    <3>1. PICK j : j = i - (k - 1)
      OBVIOUS
    <3>2. j \in 1 .. n - k /\ (k - 1) + j = i /\ k + j = i + 1
      BY <1>1, <2>2, <3>1
    <3>3. all[(k - 1) + j] = rest[j]
      BY <1>3, <1>4, <1>5, <1>6, <3>2
    <3> QED
      BY <1>4, <2>2, <3>2, <3>3
  <2> QED
    BY <2>1, <2>2
<1> QED
  BY <1>1, <1>2, <1>7, <1>8 DEF WithoutAt

LEMMA RemovedIs ==
    ASSUME NEW seq, IsSeq(seq), NEW k \in DOMAIN seq
    PROVE  IsSeq(RemoveAt(seq, k)) /\ WithoutAt(RemoveAt(seq, k), seq, k)
<1>1. PICK S : S = {seq[i] : i \in DOMAIN seq}
  OBVIOUS
<1>2. seq \in Seq(S) /\ k \in 1 .. Len(seq)
  BY <1>1, SeqIs DEF IsSeq
<1>3. RemoveAt(seq, k) \in Seq(S) /\ WithoutAt(RemoveAt(seq, k), seq, k)
  BY <1>2, RemovedIn
<1> QED
  BY <1>3, SeqIn

-----------------------------------------------------------------------------
(* CREATE INDEX and DROP INDEX *)

LEMMA IndexIs ==
    ASSUME NEW cols, NEW c \in DOMAIN cols, NEW tree, NEW slots, NEW once, TreeOK(tree, slots, once)
    PROVE  IndexOK(NewIndex(cols, c, tree), cols, slots, once)
<1>1. PICK index : index = NewIndex(cols, c, tree)
  OBVIOUS
<1>2. index = [column |-> cols[c].name, slot |-> c, tree |-> tree]
  BY <1>1 DEF NewIndex
<1>3. index.column = cols[c].name /\ index.slot = c /\ index.tree = tree
  BY <1>2
<1> QED
  BY <1>1, <1>2, <1>3 DEF IndexOK

LEMMA FirstIndex ==
    ASSUME NEW indexes, NEW cols, NEW slots, NEW once, IndexesOK(indexes, cols, slots, once),
           NEW index, IndexOK(index, cols, slots, once)
    PROVE  IndexesOK(First(index, indexes), cols, slots, once)
<1>1. PICK all : all = First(index, indexes)
  OBVIOUS
<1>2. IsSeq(indexes) /\ \A i \in DOMAIN indexes : IndexOK(indexes[i], cols, slots, once)
  BY DEF IndexesOK
<1>3. PICK n \in Nat : n = Len(indexes) /\ DOMAIN indexes = 1 .. n
  BY <1>2, SeqIs
<1>4. IsSeq(all) /\ DOMAIN all = 1 .. n + 1 /\ all[1] = index /\ \A i \in 1 .. n : all[i + 1] = indexes[i]
  BY <1>1, <1>2, <1>3, FirstIs
<1>5. ASSUME NEW i \in 1 .. n + 1 PROVE IndexOK(all[i], cols, slots, once)
  <2>1. CASE i = 1
    BY <1>4, <2>1
  <2>2. CASE i # 1
    <3>1. i - 1 \in 1 .. n /\ (i - 1) + 1 = i
      BY <2>2
    <3>2. all[i] = indexes[i - 1]
      BY <1>4, <3>1
    <3> QED
      BY <1>2, <1>3, <3>1, <3>2
  <2> QED
    BY <2>1, <2>2
<1> QED
  BY <1>1, <1>4, <1>5 DEF IndexesOK

LEMMA IndexesWithout ==
    ASSUME NEW indexes, NEW cols, NEW slots, NEW once, IndexesOK(indexes, cols, slots, once),
           NEW k \in DOMAIN indexes
    PROVE  IndexesOK(RemoveAt(indexes, k), cols, slots, once)
<1>1. PICK all : all = RemoveAt(indexes, k)
  OBVIOUS
<1>2. IsSeq(indexes) /\ \A i \in DOMAIN indexes : IndexOK(indexes[i], cols, slots, once)
  BY DEF IndexesOK
<1>3. PICK n \in Nat : n = Len(indexes) /\ DOMAIN indexes = 1 .. n
  BY <1>2, SeqIs
<1>4. IsSeq(all) /\ WithoutAt(all, indexes, k)
  BY <1>1, <1>2, RemovedIs
<1>5. DOMAIN all = 1 .. n - 1 /\ \A i \in 1 .. n - 1 : all[i] = IF i < k THEN indexes[i] ELSE indexes[i + 1]
  BY <1>3, <1>4 DEF WithoutAt
<1>6. ASSUME NEW i \in 1 .. n - 1 PROVE IndexOK(all[i], cols, slots, once)
  <2>1. i \in 1 .. n /\ i + 1 \in 1 .. n
    OBVIOUS
  <2> QED
    BY <1>2, <1>3, <1>5, <2>1
<1> QED
  BY <1>1, <1>4, <1>5, <1>6 DEF IndexesOK

UniqueFold == INSTANCE Folding WITH Op <- IndexUnique, Step <- NoStep

Reindexed(t, indexes) == [t EXCEPT !.indexes = indexes]

\* A statement that changes nothing but the indexes
LEMMA IndexesOnly ==
    ASSUME TableInv, NEW indexes, IndexesOK(indexes, table.cols, All(table.heap), ~damaged),
           NEW statement, NEW pages, Finish(statement, Run(Reindexed(table, indexes), pages))
    PROVE  TableInv' /\ last'.statement = statement /\ RowsOf(table'.heap) = RowsOf(table.heap)
<1>1. damaged \in BOOLEAN /\ TableOK(table, damaged)
  BY DEF TableInv
<1>2. PICK new : new = Reindexed(table, indexes)
  OBVIOUS
<1>3. PICK heap : heap = table.heap
  OBVIOUS
<1>4. new = Entry(table.cols, table.check, heap, indexes)
  <2>1. IsTable(table)
    BY <1>1 DEF TableOK
  <2> QED
    BY <1>2, <1>3, <2>1 DEF IsTable, Entry, Reindexed
<1>5. Furnished(table, damaged, heap, indexes)
  BY <1>1, <1>3 DEF Furnished, TableOK
<1>6. PICK run : run = Run(new, pages)
  OBVIOUS
<1>7. RunOK(run, table, damaged) /\ run.table = new /\ new.heap = heap
  <2>1. RunOK(Run(new, pages), table, damaged) /\ Run(new, pages).table = new /\ new.heap = heap
    <3>1. PICK d : d = damaged
      OBVIOUS
    <3>2. PICK t : t = table
      OBVIOUS
    <3>3. Furnished(t, d, heap, indexes) /\ new = Entry(t.cols, t.check, heap, indexes)
      BY <1>4, <1>5, <3>1, <3>2
    <3>4. RunOK(Run(new, pages), t, d) 
      BY <3>3, RunWith
    <3>5. Run(new, pages).table = new
      BY DEF Run
    <3>6. new.heap = heap
      BY <1>4 DEF Entry
    <3> QED
      BY <3>1, <3>2, <3>4, <3>5, <3>6
  <2> QED
    BY <1>6, <2>1
<1>8. Finish(statement, run)
  BY <1>2, <1>6
<1>9. TableInv' /\ last'.statement = statement /\ table' = run.table
  BY <1>1, <1>7, <1>8, FinishRun
<1> QED
  BY <1>3, <1>7, <1>9

\* CREATE INDEX
LEMMA CreateIndexIsKept ==
    ASSUME TableInv, CreateIndex
    PROVE  /\ TableInv' /\ last'.statement = "create index"
           /\ RowsOf(table'.heap) = RowsOf(table.heap)
<1>0. damaged \in BOOLEAN /\ TableOK(table, damaged)
  BY DEF TableInv
<1>1. PICK c \in DOMAIN table.cols, pages \in Allowances :
        LET filled == FillIndex(table.heap, c, pages)
            index == NewIndex(table.cols, c, filled.tree)
        IN IF ~filled.ok THEN Fail("create index")
           ELSE Finish("create index", Run([table EXCEPT !.indexes = <<index>> \o @], filled.pages))
  BY DEF CreateIndex
<1>2. PICK filled : filled = FillIndex(table.heap, c, pages)
  OBVIOUS
<1>3. CASE ~filled.ok
  BY <1>1, <1>2, <1>3, FailKeeps
<1>4. CASE filled.ok
  <2>1. PICK cols, heap, indexes, S :
          cols = table.cols /\ heap = table.heap /\ indexes = table.indexes
          /\ S = Allowed(cols, table.check, damaged)
    OBVIOUS
  <2>2. HeapIn(heap, S) /\ ColsOK(cols) /\ IndexesOK(indexes, cols, All(heap), ~damaged)
    BY <1>0, <2>1 DEF TableOK, HeapOK
  <2>3. Reaches(S, c)
    <3>1. S \in SUBSET Wide(cols)
      BY <2>1, <2>2, AllowedIs
    <3> QED
      BY <2>1, <2>2, <3>1, WideReaches
  <2>4. PICK tree : tree = filled.tree
    OBVIOUS
  <2>5. TreeOK(tree, All(heap), TRUE)
    <3>1. filled = FillIndex(heap, c, pages)
      BY <1>2, <2>1
    <3> QED
      BY <2>2, <2>3, <2>4, <3>1, FillIs
  <2>6. PICK index : index = NewIndex(cols, c, tree)
    OBVIOUS
  <2>7. IndexOK(index, cols, All(heap), ~damaged)
    <3>1. TreeOK(tree, All(heap), ~damaged)
      BY <2>5 DEF TreeOK
    <3> QED
      BY <2>1, <2>6, <3>1, IndexIs
  <2>8. PICK all : all = First(index, indexes)
    OBVIOUS
  <2>9. IndexesOK(all, cols, All(heap), ~damaged)
    BY <2>2, <2>7, <2>8, FirstIndex
  <2>10. PICK more : more = filled.pages
    OBVIOUS
  <2>11. Finish("create index", Run(Reindexed(table, all), more))
    BY <1>1, <1>2, <1>4, <2>1, <2>4, <2>6, <2>8, <2>10 DEF First, Reindexed
  <2> QED
    BY <2>1, <2>9, <2>11, IndexesOnly
<1> QED
  BY <1>3, <1>4

\* DROP INDEX
LEMMA DropIndexIsKept ==
    ASSUME TableInv, DropIndex
    PROVE  /\ TableInv' /\ last'.statement = "drop index"
           /\ RowsOf(table'.heap) = RowsOf(table.heap)
<1>1. PICK i \in DOMAIN table.indexes :
        Finish("drop index", Run([table EXCEPT !.indexes = RemoveAt(@, i)], 0))
  BY DEF DropIndex
<1>2. IndexesOK(table.indexes, table.cols, All(table.heap), ~damaged)
  BY DEF TableInv, TableOK
<1>3. PICK all : all = RemoveAt(table.indexes, i)
  OBVIOUS
<1>4. IndexesOK(all, table.cols, All(table.heap), ~damaged)
  BY <1>2, <1>3, IndexesWithout
<1>5. Finish("drop index", Run(Reindexed(table, all), 0))
  BY <1>1, <1>3 DEF Reindexed
<1> QED
  BY <1>4, <1>5, IndexesOnly

-----------------------------------------------------------------------------
(* CREATE TABLE and DROP TABLE *)

LEMMA EmptyIs ==
    ASSUME NEW cols, ColsOK(cols), NEW cond, Condition(cond), NamesIn(cond) \subseteq NamesOf(cols),
           ChecksKeepNames => \A pair \in Renamed : pair[1] \notin NamesIn(cond),
           NEW d \in BOOLEAN, NEW check, check = BindCheck(cols, cond)
    PROVE  TableOK(Entry(cols, check, EmptyHeap, <<>>), d)
<1>1. PICK bound : bound = ResolveCondition(cols, cond)
  OBVIOUS
<1>2. check = [cond |-> cond, bound |-> bound, declared |-> bound]
  BY <1>1 DEF BindCheck
<1>3. check.cond = cond /\ check.bound = bound /\ check.declared = bound
  BY <1>2
<1>4. CheckOK(check, cols)
  BY <1>1, <1>2, <1>3 DEF CheckOK
<1>5. PICK S : S = Allowed(cols, check, d)
  OBVIOUS
<1>6. S \in SUBSET Seq(Values)
  BY <1>5, AllowedIs
<1>7. HeapOK(EmptyHeap, S)
  BY <1>6, EmptyHeapIs
<1>8. IndexesOK(<<>>, cols, All(EmptyHeap), ~d)
  <2>1. PICK none : none = <<>>
    OBVIOUS
  <2>2. none \in Seq({none[i] : i \in DOMAIN none}) /\ \A i \in DOMAIN none : FALSE
    BY <2>1
  <2>3. IndexesOK(none, cols, All(EmptyHeap), ~d)
    BY <2>2 DEF IndexesOK, IsSeq
  <2> QED
    BY <2>1, <2>3
<1>9. PICK t, heap, indexes :
        heap = EmptyHeap /\ indexes = <<>> /\ t = Entry(cols, check, heap, indexes)
  OBVIOUS
<1>10. t = [cols |-> cols, check |-> check, heap |-> heap, indexes |-> indexes]
  BY <1>9 DEF Entry
<1>11. t.cols = cols /\ t.check = check /\ t.heap = heap /\ t.indexes = indexes
  BY <1>10
<1>12. TableOK(t, d)
  BY <1>4, <1>5, <1>7, <1>8, <1>9, <1>10, <1>11 DEF TableOK, IsTable
<1> QED
  BY <1>9, <1>12

LEMMA NoTableIs ==
    ASSUME NEW d \in BOOLEAN
    PROVE  TableOK(NoTable, d) /\ NoTable = Entry(<<>>, BindCheck(<<>>, Always), EmptyHeap, <<>>)
<1>1. PICK none : none = <<>>
  OBVIOUS
<1>2. Len(none) = 0 /\ DOMAIN none = {} /\ IsSeq(none)
  BY <1>1 DEF IsSeq
<1>3. ColsOK(none)
  BY <1>2, RoomAssumption DEF ColsOK
<1>4. Condition(none) /\ NamesIn(none) = {}
  BY <1>2 DEF Condition, NamesIn
<1>5. PICK check : check = BindCheck(none, none)
  OBVIOUS
<1>6. TableOK(Entry(none, check, EmptyHeap, <<>>), d)
  BY <1>3, <1>4, <1>5, EmptyIs
<1>7. NoTable = Entry(<<>>, BindCheck(<<>>, Always), EmptyHeap, <<>>)
  BY DEF NoTable, Entry
<1> QED
  BY <1>1, <1>5, <1>6, <1>7 DEF Always

\* DROP TABLE
LEMMA DropTableIsKept ==
    ASSUME TableInv, DropTable
    PROVE  TableInv' /\ last'.statement = "drop" /\ last'.ok = TRUE
<1>1. damaged \in BOOLEAN
  BY DEF TableInv
<1>2. PICK run : run = Run(NoTable, 0)
  OBVIOUS
<1>3. Finish("drop", run)
  BY <1>2 DEF DropTable
<1>4. run.table = NoTable /\ run.ok = TRUE /\ run.damaged = FALSE
  BY <1>2, RunIs
<1>5. TableOK(run.table, damaged)
  BY <1>1, <1>4, NoTableIs
<1>6. TableOK(run.table, damaged \/ run.damaged)
  <2>1. (damaged \/ run.damaged) = damaged
    BY <1>1, <1>4
  <2> QED
    BY <1>5, <2>1
<1> QED
  BY <1>1, <1>3, <1>4, <1>6, FinishKeeps

(* The first UNIQUE columns have their indexes *)
Founding(run, t) ==
  /\ RunType(run) /\ run.ok \in BOOLEAN /\ run.damaged = FALSE
  /\ IsTable(run.table) /\ run.table.cols = t.cols /\ run.table.check = t.check /\ run.table.heap = t.heap
  /\ IndexesOK(run.table.indexes, t.cols, {}, TRUE)

LEMMA FoundNext ==
    ASSUME NEW t, NEW run, Founding(run, t), NEW c \in DOMAIN t.cols, NEW new, new = IndexUnique(run, c)
    PROVE  Founding(new, t)
<1>1. PICK old, pages : old = run.table /\ pages = run.pages
  OBVIOUS
<1>2. PICK indexes : indexes = old.indexes
  OBVIOUS
<1>3. /\ run = [table |-> old, pages |-> pages, ok |-> run.ok, damaged |-> run.damaged]
      /\ run.damaged = FALSE
      /\ old = [cols |-> t.cols, check |-> t.check, heap |-> t.heap, indexes |-> indexes]
      /\ IndexesOK(indexes, t.cols, {}, TRUE)
  BY <1>1, <1>2 DEF Founding, RunType, IsTable
<1>4. CASE new = run
  BY <1>4
<1>5. CASE new = [run EXCEPT !.ok = FALSE]
  <2>1. new = [table |-> old, pages |-> pages, ok |-> FALSE, damaged |-> run.damaged]
    <3>1. new = [table |-> run.table, pages |-> run.pages, ok |-> FALSE, damaged |-> run.damaged]
      BY <1>5 DEF Founding, RunType
    <3> QED
      BY <1>1, <3>1
  <2>2. new.table = old /\ new.pages = pages /\ new.ok = FALSE /\ new.damaged = run.damaged
    BY <2>1
  <2> QED
    BY <1>1, <1>3, <2>1, <2>2 DEF Founding, RunType
<1>6. CASE new = [run EXCEPT !.table.indexes = <<NewIndex(run.table.cols, c, EmptyTree)>> \o @, !.pages = @ - 1]
  <2>1. PICK all : all = First(NewIndex(t.cols, c, EmptyTree), indexes)
    OBVIOUS
  <2>2. IndexesOK(all, t.cols, {}, TRUE)
    <3>1. TreeOK(EmptyTree, {}, TRUE)
      BY EmptyTreeIsOK
    <3>2. PICK index : index = NewIndex(t.cols, c, EmptyTree)
      OBVIOUS
    <3>3. IndexOK(index, t.cols, {}, TRUE)
      BY <3>1, <3>2, IndexIs
    <3> QED
      BY <1>3, <2>1, <3>2, <3>3, FirstIndex
  <2>3. PICK t2, left : t2 = [old EXCEPT !.indexes = all] /\ left = pages - 1
    OBVIOUS
  <2>4. t2 = [cols |-> t.cols, check |-> t.check, heap |-> t.heap, indexes |-> all]
    BY <1>3, <2>3
  <2>5. t2.cols = t.cols /\ t2.check = t.check /\ t2.heap = t.heap /\ t2.indexes = all
    BY <2>4
  <2>6. old.cols = t.cols
    BY <1>3
  <2>7. new = [[run EXCEPT !.table = t2] EXCEPT !.pages = left]
    BY <1>1, <1>2, <1>3, <1>6, <2>1, <2>3, <2>6 DEF First
  <2>8. PICK mid : mid = [run EXCEPT !.table = t2]
    OBVIOUS
  <2>9. mid = [table |-> t2, pages |-> pages, ok |-> run.ok, damaged |-> run.damaged]
    BY <1>3, <2>8
  <2>10. new = [table |-> t2, pages |-> left, ok |-> run.ok, damaged |-> run.damaged]
    BY <2>7, <2>8, <2>9
  <2>11. new.table = t2 /\ new.pages = left /\ new.ok = run.ok /\ new.damaged = FALSE
    BY <1>3, <2>10
  <2> QED
    BY <2>2, <2>4, <2>5, <2>10, <2>11 DEF Founding, RunType, IsTable
<1> QED
  BY <1>4, <1>5, <1>6 DEF IndexUnique

LEMMA FoundIsFold ==
    ASSUME NEW base, NEW seq
    PROVE  FoldLeft(IndexUnique, base, seq) = UniqueFold!Folded(base, seq)
BY DEF FoldLeft, MapThenFoldSet, Max,
       UniqueFold!Folded, UniqueFold!MapThenFoldSet, UniqueFold!Greatest

LEMMA FoundedIs ==
    ASSUME NEW t, NEW n \in Nat, DOMAIN t.cols = 1 .. n, NEW base, Founding(base, t),
           NEW seq, DOMAIN seq = 1 .. n, \A c \in 1 .. n : seq[c] = c,
           NEW run, run = FoldLeft(IndexUnique, base, seq)
    PROVE  Founding(run, t)
<1>1. PICK r : UniqueFold!Stages(r, base, n, seq)
  BY UniqueFold!FoldSteps
<1> DEFINE Bad == {k \in 0 .. n : ~Founding(r[k], t)}
<1>2. 0 \notin Bad
  BY <1>1 DEF UniqueFold!Stages
<1>3. ASSUME NEW k \in 1 .. n, k \in Bad PROVE k - 1 \in Bad
  <2>1. SUFFICES ASSUME k - 1 \notin Bad PROVE FALSE
    OBVIOUS
  <2>2. PICK before, after : before = r[k - 1] /\ after = r[k]
    OBVIOUS
  <2>3. Founding(before, t)
    BY <2>1, <2>2
  <2>4. after = IndexUnique(before, k)
    BY <1>1, <2>2 DEF UniqueFold!Stages
  <2>5. Founding(after, t)
    <3> HIDE DEF Bad
    <3> QED
      BY <2>3, <2>4, FoundNext
  <2> QED
    BY <1>3, <2>2, <2>5
<1>4. Bad = {}
  <2>1. Bad \in SUBSET (0 .. n)
    OBVIOUS
  <2> HIDE DEF Bad
  <2> QED
    BY <1>2, <1>3, <2>1, UniqueFold!Climb
<1>5. Founding(r[n], t)
  BY <1>4
<1> QED
  BY <1>1, <1>5, FoundIsFold DEF UniqueFold!Stages

Created(cols, check) == [NoTable EXCEPT !.cols = cols, !.check = check]

LEMMA CreatedIs ==
    ASSUME NEW cols, NEW check
    PROVE  Created(cols, check) = Entry(cols, check, EmptyHeap, <<>>)
<1>1. PICK c, heap, none : c = BindCheck(<<>>, Always) /\ heap = EmptyHeap /\ none = <<>>
  OBVIOUS
<1>2. PICK t : t = NoTable
  OBVIOUS
<1>3. t = [cols |-> none, check |-> c, heap |-> heap, indexes |-> none]
  BY <1>1, <1>2 DEF NoTable
<1>4. PICK u : u = [t EXCEPT !.cols = cols]
  OBVIOUS
<1>5. u = [cols |-> cols, check |-> c, heap |-> heap, indexes |-> none]
  BY <1>3, <1>4
<1>6. [u EXCEPT !.check = check] = [cols |-> cols, check |-> check, heap |-> heap, indexes |-> none]
  BY <1>5
<1>7. Created(cols, check) = [[t EXCEPT !.cols = cols] EXCEPT !.check = check]
  BY <1>2, <1>3 DEF Created
<1> QED
  BY <1>1, <1>4, <1>6, <1>7 DEF Entry

\* CREATE TABLE
LEMMA CreateTableIsKept ==
    ASSUME TableInv, CreateTable
    PROVE  TableInv' /\ last'.statement = "create"
<1>0. damaged \in BOOLEAN
  BY DEF TableInv
<1>1. PICK shape \in Tables, pages \in Allowances :
        LET entry == [NoTable EXCEPT !.cols = shape.cols, !.check = BindCheck(shape.cols, shape.check)]
        IN \/ Fail("create")
           \/ Finish("create", FoldLeft(IndexUnique, Run(entry, pages), [c \in DOMAIN shape.cols |-> c]))
  BY DEF CreateTable
<1>2. PICK cols, cond, check :
        cols = shape.cols /\ cond = shape.check /\ check = BindCheck(cols, cond)
  OBVIOUS
<1>3. PICK entry, seq : entry = Created(cols, check) /\ seq = [c \in DOMAIN cols |-> c]
  OBVIOUS
<1>4. \/ Fail("create")
      \/ Finish("create", FoldLeft(IndexUnique, Run(entry, pages), seq))
  BY <1>1, <1>2, <1>3 DEF Created
<1>5. CASE Fail("create")
  BY <1>5, FailKeeps
<1>6. CASE Finish("create", FoldLeft(IndexUnique, Run(entry, pages), seq))
  <2>1. /\ ColsOK(cols) /\ Condition(cond) /\ NamesIn(cond) \subseteq NamesOf(cols)
    <3>1. /\ Condition(shape.check)
          /\ NamesIn(shape.check) \subseteq {shape.cols[c].name : c \in DOMAIN shape.cols}
          /\ shape.cols \in Seq({shape.cols[c] : c \in DOMAIN shape.cols})
          /\ Len(shape.cols) \in 1 .. MaxColumns
          /\ \A c \in DOMAIN shape.cols : IsColumn(shape.cols[c])
          /\ \A c, d \in DOMAIN shape.cols : shape.cols[c].name = shape.cols[d].name => c = d
      BY TablesAssumption
    <3>2. Condition(cond) /\ NamesIn(cond) \subseteq NamesOf(cols) /\ IsSeq(cols)
      BY <1>2, <3>1 DEF NamesOf, IsSeq
    <3>3. Len(cols) <= MaxColumns
      BY <1>2, <3>1, RoomAssumption
    <3>4. /\ \A c \in DOMAIN cols : IsColumn(cols[c])
          /\ \A c, d \in DOMAIN cols : cols[c].name = cols[d].name => c = d
      BY <1>2, <3>1
    <3> QED
      BY <3>2, <3>3, <3>4 DEF ColsOK
  <2>2. ChecksKeepNames => \A pair \in Renamed : pair[1] \notin NamesIn(cond)
    BY <1>2 DEF ChecksKeepNames
  <2>3. entry = Entry(cols, check, EmptyHeap, <<>>)
    BY <1>3, CreatedIs
  <2>4. PICK d \in BOOLEAN : d = damaged
    BY <1>0
  <2>5. TableOK(entry, d)
    BY <1>2, <2>1, <2>2, <2>3, EmptyIs
  <2>6. entry.cols = cols /\ entry.check = check /\ entry.heap = EmptyHeap /\ entry.indexes = <<>>
    BY <2>3 DEF Entry
  <2>7. PICK n \in Nat : n = Len(cols) /\ DOMAIN cols = 1 .. n
    BY <2>1, SeqIs DEF ColsOK
  <2>8. PICK base, run : base = Run(entry, pages) /\ run = FoldLeft(IndexUnique, base, seq)
    OBVIOUS
  <2>9. Founding(base, entry)
    <3>1. base.table = entry /\ base.ok = TRUE /\ base.damaged = FALSE /\ RunType(base)
      BY <2>8, RunIs
    <3>2. IndexesOK(entry.indexes, cols, {}, TRUE)
      <4>1. PICK none : none = <<>>
        OBVIOUS
      <4>2. none \in Seq({none[i] : i \in DOMAIN none}) /\ \A i \in DOMAIN none : FALSE
        BY <4>1
      <4> QED
        BY <2>6, <4>1, <4>2 DEF IndexesOK, IsSeq
    <3> QED
      BY <2>5, <2>6, <3>1, <3>2 DEF Founding, TableOK
  <2>10. Founding(run, entry)
    <3>1. DOMAIN entry.cols = 1 .. n /\ DOMAIN seq = 1 .. n /\ \A c \in 1 .. n : seq[c] = c
      BY <1>3, <2>6, <2>7
    <3> QED
      BY <2>8, <2>9, <3>1, FoundedIs
  <2>11. PICK t2, indexes : t2 = run.table /\ indexes = t2.indexes
    OBVIOUS
  <2>12. /\ run.ok \in BOOLEAN /\ run.damaged = FALSE
         /\ t2 = [cols |-> cols, check |-> check, heap |-> EmptyHeap, indexes |-> indexes]
         /\ IndexesOK(indexes, cols, {}, TRUE)
    BY <2>6, <2>10, <2>11 DEF Founding, IsTable
  <2>13. t2.cols = cols /\ t2.check = check /\ t2.heap = EmptyHeap
    BY <2>12
  <2>14. IndexesOK(indexes, cols, All(EmptyHeap), ~d)
    <3>1. All(EmptyHeap) = {}
      <4>1. PICK T : T = Allowed(cols, check, d)
        OBVIOUS
      <4>2. T \in SUBSET Seq(Values)
        BY <2>1, <4>1, AllowedIs
      <4> QED
        BY <4>2, EmptyHeapIs
    <3>2. IndexesOK(indexes, cols, {}, ~d)
      BY <2>12 DEF IndexesOK, IndexOK, TreeOK
    <3> QED
      BY <3>1, <3>2
  <2>15. TableOK(t2, d)
    BY <2>5, <2>6, <2>11, <2>12, <2>13, <2>14 DEF TableOK, IsTable
  <2>16. RunOK(run, entry, damaged)
    BY <2>4, <2>6, <2>11, <2>12, <2>13, <2>15 DEF RunOK
  <2>17. Finish("create", run)
    BY <1>6, <2>8
  <2>18. TableOK(run.table, damaged \/ run.damaged)
    <3>1. (damaged \/ run.damaged) = d
      BY <1>0, <2>4, <2>12
    <3> QED
      BY <2>11, <2>15, <3>1
  <2> QED
    BY <1>0, <2>12, <2>17, <2>18, FinishKeeps
<1> QED
  BY <1>4, <1>5, <1>6

-----------------------------------------------------------------------------
(* A reload *)

LEMMA CountIsFold ==
    ASSUME NEW base, NEW seq
    PROVE  FoldLeft(CountPage, base, seq) = CountFold!Folded(base, seq)
BY DEF FoldLeft, MapThenFoldSet, Max,
       CountFold!Folded, CountFold!MapThenFoldSet, CountFold!Greatest

\* Counting the slots page by page gives the number of all.
LEMMA CountIs ==
    ASSUME NEW S, NEW heap, HeapIn(heap, S)
    PROVE  FoldLeft(CountPage, 0, heap.pages) = Len(Slots(heap))
<1>1. PICK n, pages : n = Len(heap.pages) /\ pages = heap.pages
  OBVIOUS
<1>2. n \in Nat /\ DOMAIN pages = 1 .. n
  BY <1>1, PageFacts
<1>3. PICK lists : lists = ByPage(heap)
  OBVIOUS
<1>4. DOMAIN lists = 1 .. n
  BY <1>1, <1>3, ByPageIs
<1>5. \A p \in 1 .. n : lists[p] \in Seq(Position) /\ Len(lists[p]) = Len(pages[p].slots)
  BY <1>1, <1>3, ByPageIs
<1>6. PICK c : CountFold!Stages(c, 0, n, pages)
  BY <1>2, CountFold!FoldSteps
<1>7. PICK none : none = <<>>
  OBVIOUS
<1>8. none \in Seq(Position) /\ Len(none) = 0
  BY <1>7
<1>9. PICK s : PageFold!Stages(s, none, n, lists)
  BY <1>2, <1>4, PageFold!FoldSteps
<1> DEFINE Bad == {k \in 0 .. n : ~(s[k] \in Seq(Position) /\ c[k] = Len(s[k]))}
<1>10. 0 \notin Bad
  BY <1>6, <1>8, <1>9 DEF CountFold!Stages, PageFold!Stages
<1>11. ASSUME NEW k \in 1 .. n, k \in Bad PROVE k - 1 \in Bad
  <2>1. SUFFICES ASSUME k - 1 \notin Bad PROVE FALSE
    OBVIOUS
  <2>2. PICK before, after, list : before = s[k - 1] /\ after = s[k] /\ list = lists[k]
    OBVIOUS
  <2>3. before \in Seq(Position) /\ c[k - 1] = Len(before)
    BY <1>2, <2>1, <2>2
  <2>4. after = before \o list
    BY <1>9, <2>2 DEF PageFold!Stages, TakePage
  <2>5. list \in Seq(Position) /\ c[k] = c[k - 1] + Len(list)
    BY <1>5, <1>6, <2>2 DEF CountFold!Stages, CountPage
  <2>6. after \in Seq(Position) /\ Len(after) = Len(before) + Len(list)
    <3> HIDE DEF Bad
    <3>1. before \o list \in Seq(Position) /\ Len(before \o list) = Len(before) + Len(list)
      BY <2>3, <2>5, Joined
    <3> QED
      BY <2>4, <3>1
  <2> QED
    BY <1>11, <2>2, <2>3, <2>5, <2>6
<1>12. Bad = {}
  <2>1. Bad \in SUBSET (0 .. n)
    OBVIOUS
  <2> HIDE DEF Bad
  <2> QED
    BY <1>2, <1>10, <1>11, <2>1, CountFold!Climb
<1>13. c[n] = Len(s[n])
  BY <1>2, <1>12
<1>14. Slots(heap) = s[n]
  BY <1>3, <1>7, <1>9, SlotsAreFold DEF PageFold!Stages
<1>15. FoldLeft(CountPage, 0, pages) = c[n]
  BY <1>6, CountIsFold DEF CountFold!Stages
<1> QED
  BY <1>1, <1>13, <1>14, <1>15

(* The indexes as they are read back *)
Rebound(cols, indexes) ==
  LET r == Reverse(indexes)
  IN [i \in DOMAIN r |-> [r[i] EXCEPT !.slot = FindColumn(cols, r[i].column)]]

\* No two columns of a name: an index finds the column it was on.
LEMMA FoundAgain ==
    ASSUME NEW cols, ColsOK(cols), NEW c \in DOMAIN cols
    PROVE  FindColumn(cols, cols[c].name) = c
BY DEF FindColumn, ColsOK

LEMMA ReboundIs ==
    ASSUME NEW cols, ColsOK(cols), NEW indexes, NEW slots, NEW once, IndexesOK(indexes, cols, slots, once)
    PROVE  IndexesOK(Rebound(cols, indexes), cols, slots, once)
<1>1. IsSeq(indexes) /\ \A i \in DOMAIN indexes : IndexOK(indexes[i], cols, slots, once)
  BY DEF IndexesOK
<1>2. PICK n \in Nat : n = Len(indexes) /\ DOMAIN indexes = 1 .. n
  BY <1>1, SeqIs
<1>3. PICK r, all : r = Reverse(indexes) /\ all = Rebound(cols, indexes)
  OBVIOUS
<1>4. DOMAIN r = 1 .. n /\ \A i \in 1 .. n : r[i] = indexes[(n - i) + 1] /\ (n - i) + 1 \in 1 .. n
  BY <1>2, <1>3 DEF Reverse
<1>5. all = [i \in 1 .. n |-> [r[i] EXCEPT !.slot = FindColumn(cols, r[i].column)]]
  BY <1>3, <1>4 DEF Rebound
<1>6. ASSUME NEW i \in 1 .. n PROVE IndexOK(all[i], cols, slots, once)
  <2>1. PICK index : index = r[i]
    OBVIOUS
  <2>2. IndexOK(index, cols, slots, once)
    BY <1>1, <1>2, <1>4, <2>1
  <2>3. FindColumn(cols, index.column) = index.slot
    <3>1. index.slot \in DOMAIN cols /\ cols[index.slot].name = index.column
      BY <2>2 DEF IndexOK
    <3>2. FindColumn(cols, cols[index.slot].name) = index.slot
      BY <3>1, FoundAgain
    <3> QED
      BY <3>1, <3>2
  <2>4. all[i] = [index EXCEPT !.slot = index.slot]
    BY <1>5, <2>1, <2>3
  <2>5. all[i] = index
    <3>1. index = [column |-> index.column, slot |-> index.slot, tree |-> index.tree]
      BY <2>2 DEF IndexOK
    <3> QED
      BY <2>4, <3>1
  <2> QED
    BY <2>2, <2>5
<1>7. IsSeq(all) /\ DOMAIN all = 1 .. n
  <2>1. all = [i \in 1 .. n |-> all[i]]
    BY <1>5
  <2>2. \A i \in 1 .. n : all[i] \in {all[j] : j \in 1 .. n}
    OBVIOUS
  <2>3. DOMAIN all = 1 .. n
    BY <2>1
  <2>4. all \in Seq({all[j] : j \in 1 .. n})
    BY <2>1, <2>2
  <2> QED
    BY <2>3, <2>4 DEF IsSeq
<1> QED
  BY <1>3, <1>6, <1>7 DEF IndexesOK

Reloaded(t, n, indexes, bound) ==
  [t EXCEPT !.heap.nslots = n, !.indexes = indexes, !.check.bound = bound]

LEMMA ReloadedIs ==
    ASSUME NEW t, IsTable(t), NEW n, NEW indexes, NEW bound,
           NEW heap, heap = [t.heap EXCEPT !.nslots = n], NEW check, check = [t.check EXCEPT !.bound = bound]
    PROVE  Reloaded(t, n, indexes, bound) = Entry(t.cols, check, heap, indexes)
<1>1. PICK u : u = [t EXCEPT !.heap = heap]
  OBVIOUS
<1>2. u = Entry(t.cols, t.check, heap, t.indexes)
  BY <1>1 DEF IsTable, Entry
<1>3. PICK v : v = [u EXCEPT !.indexes = indexes]
  OBVIOUS
<1>4. v = Entry(t.cols, t.check, heap, indexes)
  BY <1>2, <1>3 DEF Entry
<1>5. PICK w : w = [v EXCEPT !.check = check]
  OBVIOUS
<1>6. w = Entry(t.cols, check, heap, indexes)
  BY <1>4, <1>5 DEF Entry
<1>7. u = [t EXCEPT !.heap.nslots = n]
  BY <1>1
<1>8. w = [v EXCEPT !.check.bound = bound]
  <2>1. v.check = t.check
    BY <1>4 DEF Entry
  <2> QED
    BY <1>5, <2>1
<1>9. Reloaded(t, n, indexes, bound) = [[[t EXCEPT !.heap.nslots = n] EXCEPT !.indexes = indexes] EXCEPT !.check.bound = bound]
  BY DEF Reloaded, IsTable
<1> QED
  BY <1>3, <1>6, <1>7, <1>8, <1>9

\* Restart or ROLLBACK
LEMMA ReloadIsKept ==
    ASSUME TableInv, Reload
    PROVE  /\ TableInv' /\ last'.statement = "reload" /\ last'.ok = TRUE
           /\ RowsOf(table'.heap) = RowsOf(table.heap)
<1>0. damaged \in BOOLEAN /\ TableOK(table, damaged)
  BY DEF TableInv
<1>1. PICK cols, check, heap, indexes, S :
        /\ cols = table.cols /\ check = table.check /\ heap = table.heap /\ indexes = table.indexes
        /\ S = Allowed(cols, check, damaged)
  OBVIOUS
<1>2. /\ IsTable(table) /\ ColsOK(cols) /\ CheckOK(check, cols) /\ HeapOK(heap, S) /\ HeapIn(heap, S)
      /\ IndexesOK(indexes, cols, All(heap), ~damaged)
  BY <1>0, <1>1 DEF TableOK, HeapOK
<1>3. PICK n, more, bound :
        /\ n = FoldLeft(CountPage, 0, heap.pages) /\ more = Rebound(cols, indexes)
        /\ bound = ResolveCondition(cols, check.cond)
  OBVIOUS
<1>4. PICK new : new = Reloaded(table, n, more, bound)
  OBVIOUS
<1>5. Finish("reload", Run(new, 0))
  BY <1>1, <1>3, <1>4 DEF Reload, Reloaded, Rebound
<1>6. [heap EXCEPT !.nslots = n] = heap
  <2>1. n = heap.nslots
    BY <1>2, <1>3, CountIs DEF HeapOK, Counted
  <2>2. heap = [pages |-> heap.pages, nlive |-> heap.nlive, nslots |-> heap.nslots]
    BY <1>2 DEF HeapIn
  <2> QED
    BY <2>1, <2>2
<1>7. PICK k : k = [check EXCEPT !.bound = bound]
  OBVIOUS
<1>8. k = [cond |-> check.cond, bound |-> bound, declared |-> check.declared]
  BY <1>2, <1>7 DEF CheckOK
<1>9. k.cond = check.cond /\ k.bound = bound /\ k.declared = check.declared
  BY <1>8
<1>10. CheckOK(k, cols)
  BY <1>2, <1>3, <1>8, <1>9 DEF CheckOK
<1>11. new = Entry(cols, k, heap, more)
  BY <1>1, <1>2, <1>4, <1>6, <1>7, ReloadedIs
<1>12. new.cols = cols /\ new.check = k /\ new.heap = heap /\ new.indexes = more /\ IsTable(new)
  BY <1>11 DEF Entry, IsTable
<1>13. Allowed(cols, k, damaged) = S
  BY <1>1, <1>9 DEF Allowed, Kept, Passes
<1>14. IndexesOK(more, cols, All(heap), ~damaged)
  BY <1>2, <1>3, ReboundIs
<1>15. TableOK(new, damaged)
  BY <1>2, <1>10, <1>12, <1>13, <1>14 DEF TableOK
<1>16. PICK run : run = Run(new, 0)
  OBVIOUS
<1>17. run.table = new /\ run.ok = TRUE /\ run.damaged = FALSE
  BY <1>16 DEF Run
<1>18. TableOK(run.table, damaged \/ run.damaged)
  <2>1. (damaged \/ run.damaged) = damaged
    BY <1>0, <1>17
  <2> QED
    BY <1>15, <1>17, <2>1
<1>19. TableInv' /\ last'.statement = "reload" /\ last'.ok = run.ok /\ table' = run.table
  <2>1. Finish("reload", run)
    BY <1>5, <1>16
  <2> QED
    BY <1>0, <1>17, <1>18, <2>1, FinishKeeps
<1> QED
  BY <1>1, <1>12, <1>17, <1>19

-----------------------------------------------------------------------------
(* ALTER TABLE RENAME *)

RenamedAt(cols, slot, name) == [cols EXCEPT ![slot].name = name]

RenamedIndexes(indexes, old, new) ==
  [i \in DOMAIN indexes |->
     IF indexes[i].column = old THEN [indexes[i] EXCEPT !.column = new] ELSE indexes[i]]

Renaming(t, slot, old, new) ==
  [t EXCEPT !.cols[slot].name = new,
            !.indexes = [i \in DOMAIN @ |-> IF @[i].column = old THEN [@[i] EXCEPT !.column = new] ELSE @[i]]]

LEMMA RenamingIs ==
    ASSUME NEW t, IsTable(t), NEW slot, NEW old, NEW new
    PROVE  Renaming(t, slot, old, new) =
             Entry(RenamedAt(t.cols, slot, new), t.check, t.heap, RenamedIndexes(t.indexes, old, new))
<1>1. PICK cols, indexes, more :
        cols = RenamedAt(t.cols, slot, new) /\ indexes = t.indexes /\ more = RenamedIndexes(t.indexes, old, new)
  OBVIOUS
<1>2. PICK u : u = [t EXCEPT !.cols = cols]
  OBVIOUS
<1>3. u = Entry(cols, t.check, t.heap, indexes)
  BY <1>1, <1>2 DEF IsTable, Entry
<1>4. u.indexes = indexes
  BY <1>3 DEF Entry
<1>5. PICK v : v = [u EXCEPT !.indexes = more]
  OBVIOUS
<1>6. v = Entry(cols, t.check, t.heap, more)
  BY <1>3, <1>5 DEF Entry
<1>7. u = [t EXCEPT !.cols[slot].name = new]
  BY <1>1, <1>2 DEF RenamedAt
<1>8. Renaming(t, slot, old, new) = [u EXCEPT !.indexes = more]
  <2>1. Renaming(t, slot, old, new) = [[t EXCEPT !.cols[slot].name = new] EXCEPT !.indexes = more]
    BY <1>1 DEF Renaming, RenamedIndexes, IsTable
  <2> QED
    BY <1>7, <2>1
<1> QED
  BY <1>1, <1>5, <1>6, <1>8

LEMMA RenamedCols ==
    ASSUME NEW cols, ColsOK(cols), NEW slot \in DOMAIN cols, NEW name, name \notin NamesOf(cols),
           NEW new, new = RenamedAt(cols, slot, name)
    PROVE  /\ ColsOK(new) /\ DOMAIN new = DOMAIN cols /\ Len(new) = Len(cols)
           /\ new[slot].name = name
           /\ \A c \in DOMAIN cols : c # slot => new[c] = cols[c]
           /\ \A c \in DOMAIN cols : new[c].notNull = cols[c].notNull /\ new[c].size = cols[c].size
<1>1. PICK column, other : column = cols[slot] /\ other = [column EXCEPT !.name = name]
  OBVIOUS
<1>2. IsSeq(cols) /\ Len(cols) <= MaxColumns /\ \A c \in DOMAIN cols : IsColumn(cols[c])
  BY DEF ColsOK
<1>3. other.name = name /\ other.notNull = column.notNull /\ other.size = column.size /\ IsColumn(other)
  <2>1. IsColumn(column)
    BY <1>1, <1>2
  <2>2. column = [name |-> column.name, unique |-> column.unique, notNull |-> column.notNull,
                  size |-> column.size, default |-> column.default]
    BY <2>1 DEF IsColumn, Column
  <2>3. other = [name |-> name, unique |-> column.unique, notNull |-> column.notNull,
                 size |-> column.size, default |-> column.default]
    BY <1>1, <2>2
  <2>4. /\ other.name = name /\ other.unique = column.unique /\ other.notNull = column.notNull
        /\ other.size = column.size /\ other.default = column.default
    BY <2>3
  <2> QED
    BY <2>1, <2>3, <2>4 DEF IsColumn, Column
<1>4. new = SetAt(cols, slot, other)
  BY <1>1 DEF RenamedAt, SetAt
<1>5. /\ IsSeq(new) /\ Len(new) = Len(cols) /\ DOMAIN new = DOMAIN cols
      /\ new[slot] = other /\ \A c \in DOMAIN cols : c # slot => new[c] = cols[c]
  BY <1>2, <1>4, SeqExcept
<1>6. \A c \in DOMAIN new : IsColumn(new[c])
  BY <1>2, <1>3, <1>5
<1>7. \A c, d \in DOMAIN new : new[c].name = new[d].name => c = d
  <2>1. \A c \in DOMAIN cols : cols[c].name # name
    BY DEF NamesOf
  <2>2. \A c, d \in DOMAIN cols : cols[c].name = cols[d].name => c = d
    BY DEF ColsOK
  <2> QED
    BY <1>3, <1>5, <2>1, <2>2
<1>8. \A c \in DOMAIN cols : new[c].notNull = cols[c].notNull /\ new[c].size = cols[c].size
  BY <1>1, <1>3, <1>5
<1> QED
  BY <1>2, <1>3, <1>5, <1>6, <1>7, <1>8 DEF ColsOK

LEMMA RenamedIndexesAre ==
    ASSUME NEW cols, ColsOK(cols), NEW slot \in DOMAIN cols, NEW name,
           NEW new, DOMAIN new = DOMAIN cols, new[slot].name = name,
           \A c \in DOMAIN cols : c # slot => new[c] = cols[c],
           NEW indexes, NEW slots, NEW once, IndexesOK(indexes, cols, slots, once)
    PROVE  IndexesOK(RenamedIndexes(indexes, cols[slot].name, name), new, slots, once)
<1>1. IsSeq(indexes) /\ \A i \in DOMAIN indexes : IndexOK(indexes[i], cols, slots, once)
  BY DEF IndexesOK
<1>2. PICK n \in Nat : n = Len(indexes) /\ DOMAIN indexes = 1 .. n
  BY <1>1, SeqIs
<1>3. PICK old, all : old = cols[slot].name /\ all = RenamedIndexes(indexes, old, name)
  OBVIOUS
<1>4. all = [i \in 1 .. n |->
               IF indexes[i].column = old THEN [indexes[i] EXCEPT !.column = name] ELSE indexes[i]]
  BY <1>2, <1>3 DEF RenamedIndexes
<1>5. ASSUME NEW i \in 1 .. n PROVE IndexOK(all[i], new, slots, once)
  <2>1. PICK index : index = indexes[i]
    OBVIOUS
  <2>2. IndexOK(index, cols, slots, once)
    BY <1>1, <1>2, <2>1
  <2>3. /\ index = [column |-> index.column, slot |-> index.slot, tree |-> index.tree]
        /\ index.slot \in DOMAIN cols /\ cols[index.slot].name = index.column /\ TreeOK(index.tree, slots, once)
    BY <2>2 DEF IndexOK
  <2>4. CASE index.column = old
    <3>1. index.slot = slot
      BY <1>3, <2>3, <2>4 DEF ColsOK
    <3>2. PICK other : other = [index EXCEPT !.column = name]
      OBVIOUS
    <3>3. other = [column |-> name, slot |-> index.slot, tree |-> index.tree]
      BY <2>3, <3>2
    <3>4. other.column = name /\ other.slot = slot /\ other.tree = index.tree
      BY <3>1, <3>3
    <3>5. all[i] = other
      BY <1>4, <2>1, <2>4, <3>2
    <3> QED
      BY <2>3, <3>1, <3>3, <3>4, <3>5 DEF IndexOK
  <2>5. CASE index.column # old
    <3>1. index.slot # slot
      BY <1>3, <2>3, <2>5
    <3>2. all[i] = index
      BY <1>4, <2>1, <2>5
    <3> QED
      BY <2>3, <3>1, <3>2 DEF IndexOK
  <2> QED
    BY <2>4, <2>5
<1>6. IsSeq(all) /\ DOMAIN all = 1 .. n
  <2>1. all = [i \in 1 .. n |-> all[i]]
    BY <1>4
  <2>2. \A i \in 1 .. n : all[i] \in {all[j] : j \in 1 .. n}
    OBVIOUS
  <2>3. DOMAIN all = 1 .. n
    BY <2>1
  <2>4. all \in Seq({all[j] : j \in 1 .. n})
    BY <2>1, <2>2
  <2> QED
    BY <2>3, <2>4 DEF IsSeq
<1> QED
  BY <1>3, <1>5, <1>6 DEF IndexesOK

\* A CHECK whose columns are where they were
LEMMA SameNames ==
    ASSUME NEW cols, NEW new, NEW check, CheckOK(check, cols),
           ChecksKeepNames => /\ NamesIn(check.cond) \subseteq NamesOf(new)
                              /\ \A name \in NamesIn(check.cond) : FindColumn(new, name) = FindColumn(cols, name)
    PROVE  CheckOK(check, new)
<1>1. ASSUME ChecksKeepNames
      PROVE  ResolveCondition(new, check.cond) = ResolveCondition(cols, check.cond)
  BY <1>1 DEF ResolveCondition
<1> QED
  BY <1>1 DEF CheckOK

AnyOf(at) == IF at = {} THEN 0 ELSE CHOOSE c \in at : TRUE

LEMMA RenamedCheckIs ==
    ASSUME NEW cols, ColsOK(cols), NEW slot \in DOMAIN cols, NEW pair \in Renamed,
           cols[slot].name = pair[1], pair[2] \notin NamesOf(cols),
           NEW new, DOMAIN new = DOMAIN cols, new[slot].name = pair[2],
           \A c \in DOMAIN cols : c # slot => new[c] = cols[c],
           NEW check, CheckOK(check, cols)
    PROVE  CheckOK(check, new)
<1>1. ASSUME ChecksKeepNames, NEW name \in NamesIn(check.cond)
      PROVE  name \in NamesOf(new) /\ FindColumn(new, name) = FindColumn(cols, name)
  <2>1. name \in NamesOf(cols) /\ name # pair[1]
    BY <1>1 DEF CheckOK
  <2>2. name # pair[2]
    BY <2>1
  <2>3. \A c \in DOMAIN cols : (new[c].name = name) <=> (cols[c].name = name)
    BY <2>1, <2>2
  <2>4. {c \in DOMAIN new : new[c].name = name} = {c \in DOMAIN cols : cols[c].name = name}
    BY <2>3
  <2>5. FindColumn(new, name) = FindColumn(cols, name)
    <3>1. FindColumn(new, name) = AnyOf({c \in DOMAIN new : new[c].name = name})
      BY DEF FindColumn, AnyOf
    <3>2. FindColumn(cols, name) = AnyOf({c \in DOMAIN cols : cols[c].name = name})
      BY DEF FindColumn, AnyOf
    <3> QED
      BY <2>4, <3>1, <3>2
  <2>6. PICK c \in DOMAIN cols : cols[c].name = name
    BY <2>1 DEF NamesOf
  <2>7. name \in NamesOf(new)
    BY <2>3, <2>6 DEF NamesOf
  <2> QED
    BY <2>5, <2>7
<1> QED
  BY <1>1, SameNames

\* ALTER TABLE RENAME
LEMMA RenameIsKept ==
    ASSUME TableInv, RenameColumn
    PROVE  TableInv' /\ last'.statement = "alter"
<1>0. damaged \in BOOLEAN /\ TableOK(table, damaged)
  BY DEF TableInv
<1>1. PICK cols, check, heap, indexes, S :
        /\ cols = table.cols /\ check = table.check /\ heap = table.heap /\ indexes = table.indexes
        /\ S = Allowed(cols, check, damaged)
  OBVIOUS
<1>2. /\ IsTable(table) /\ ColsOK(cols) /\ CheckOK(check, cols) /\ HeapOK(heap, S)
      /\ IndexesOK(indexes, cols, All(heap), ~damaged)
  BY <1>0, <1>1 DEF TableOK
<1>3. PICK pair, slot :
        /\ pair \in Renamed /\ slot = FindColumn(cols, pair[1]) /\ slot # 0
        /\ IF FindColumn(cols, pair[2]) # 0 THEN Fail("alter")
           ELSE Finish("alter", Run(Renaming(table, slot, pair[1], pair[2]), 0))
  <2>1. PICK pair \in Renamed :
          /\ FindColumn(table.cols, pair[1]) # 0
          /\ IF FindColumn(table.cols, pair[2]) # 0 THEN Fail("alter")
             ELSE Finish("alter", Run(Renaming(table, FindColumn(table.cols, pair[1]), pair[1], pair[2]), 0))
    BY DEF RenameColumn, Renaming
  <2>2. PICK slot : slot = FindColumn(table.cols, pair[1])
    OBVIOUS
  <2> QED
    BY <1>1, <2>1, <2>2
<1>4. CASE Fail("alter")
  BY <1>4, FailKeeps
<1>5. CASE FindColumn(cols, pair[2]) = 0 /\ Finish("alter", Run(Renaming(table, slot, pair[1], pair[2]), 0))
  <2>1. DOMAIN cols = 1 .. Len(cols) /\ Len(cols) \in Nat
    BY <1>2, SeqIs DEF ColsOK
  <2>2. pair[2] \notin NamesOf(cols)
    <3>1. 0 \notin DOMAIN cols
      BY <2>1
    <3> QED
      BY <1>5, <3>1, FoundColumn
  <2>3. slot \in DOMAIN cols /\ cols[slot].name = pair[1]
    <3>1. pair[1] \in NamesOf(cols)
      BY <1>3 DEF FindColumn, NamesOf
    <3> QED
      BY <1>3, <3>1, FoundColumn
  <2>4. PICK name : name = pair[2]
    OBVIOUS
  <2>5. PICK new : new = RenamedAt(cols, slot, name)
    OBVIOUS
  <2>6. /\ ColsOK(new) /\ DOMAIN new = DOMAIN cols /\ Len(new) = Len(cols)
        /\ new[slot].name = name
        /\ \A c \in DOMAIN cols : c # slot => new[c] = cols[c]
        /\ \A c \in DOMAIN cols : new[c].notNull = cols[c].notNull /\ new[c].size = cols[c].size
    BY <1>2, <2>2, <2>3, <2>4, <2>5, RenamedCols
  <2>7. CheckOK(check, new)
    BY <1>2, <1>3, <2>2, <2>3, <2>4, <2>6, RenamedCheckIs
  <2>8. PICK all : all = RenamedIndexes(indexes, pair[1], name)
    OBVIOUS
  <2>9. IndexesOK(all, new, All(heap), ~damaged)
    BY <1>2, <2>3, <2>6, <2>8, RenamedIndexesAre
  <2>10. Allowed(new, check, damaged) = S
    <3>1. Wide(new) = Wide(cols)
      BY <2>6 DEF Wide
    <3>2. \A c \in DOMAIN cols : \A v : Fits(new[c], v) <=> Fits(cols[c], v)
      BY <2>6 DEF Fits
    <3>3. Kept(new, check) = Kept(cols, check)
      BY <2>6, <3>2 DEF Kept
    <3> QED
      BY <1>1, <3>1, <3>3 DEF Allowed
  <2>11. PICK t2 : t2 = Renaming(table, slot, pair[1], name)
    OBVIOUS
  <2>12. t2 = Entry(new, check, heap, all)
    BY <1>1, <1>2, <2>5, <2>8, <2>11, RenamingIs
  <2>13. t2.cols = new /\ t2.check = check /\ t2.heap = heap /\ t2.indexes = all /\ IsTable(t2)
    BY <2>12 DEF Entry, IsTable
  <2>14. TableOK(t2, damaged)
    BY <1>2, <2>6, <2>7, <2>9, <2>10, <2>13 DEF TableOK
  <2>15. PICK run : run = Run(t2, 0)
    OBVIOUS
  <2>16. run.table = t2 /\ run.ok = TRUE /\ run.damaged = FALSE
    BY <2>15 DEF Run
  <2>17. TableOK(run.table, damaged \/ run.damaged)
    <3>1. (damaged \/ run.damaged) = damaged
      BY <1>0, <2>16
    <3> QED
      BY <2>14, <2>16, <3>1
  <2>18. Finish("alter", run)
    BY <1>5, <2>4, <2>11, <2>15
  <2> QED
    BY <1>0, <2>16, <2>17, <2>18, FinishKeeps
<1> QED
  BY <1>3, <1>4, <1>5

RewriteFold == INSTANCE Folding WITH Op <- RewriteRow, Step <- NoStep

-----------------------------------------------------------------------------
(* ALTER TABLE ADD and DROP: the rows rewritten *)

Rewriting(at, dropped, added) == [position |-> at, dropped |-> dropped, added |-> added]

(* A table whose rows in Old are to become rows in New; meanwhile its heap *)
(* may have any of U                                                       *)
Rewritable(t, Old, New, U, dropped, added) ==
  /\ IsTable(t) /\ HeapOK(t.heap, U) /\ New \in SUBSET U
  /\ \A x \in LiveIn(t.heap) : HeapRead(t.heap, x) \in Old
  /\ \A row \in Old : Reshaped(row, dropped, added) \in New

(* The first k rows of the scan are rewritten *)
RewriteType(run, t, U) ==
  /\ RunType(run) /\ run.ok \in BOOLEAN /\ run.damaged \in BOOLEAN
  /\ IsTable(run.table) /\ run.table.cols = t.cols /\ run.table.check = t.check
  /\ run.table.indexes = t.indexes
  /\ HeapOK(run.table.heap, U)
  /\ ~run.damaged => run.table.heap = t.heap

RewriteHeap(heap, scan, Old, New, k) ==
  /\ \A x \in LiveIn(heap) : HeapRead(heap, x) \in New \/ \E j \in k + 1 .. Len(scan) : x = scan[j]
  /\ \A j \in k + 1 .. Len(scan) : scan[j] \in LiveIn(heap) /\ HeapRead(heap, scan[j]) \in Old

Rewritten(run, scan, t, Old, New, U, k) ==
  /\ RewriteType(run, t, U)
  /\ run.ok /\ k > 0 => run.damaged
  /\ run.ok => RewriteHeap(run.table.heap, scan, Old, New, k)

MovedTo(run, heap, pages) == [run EXCEPT !.table.heap = heap, !.pages = pages, !.damaged = TRUE]

LEMMA MovedToIs ==
    ASSUME NEW run, RunType(run), NEW t, t = run.table, IsTable(t), NEW heap, NEW pages
    PROVE  MovedTo(run, heap, pages) =
             [table |-> Entry(t.cols, t.check, heap, t.indexes), pages |-> pages, ok |-> run.ok, damaged |-> TRUE]
<1>1. PICK cols, check, old, indexes :
        cols = t.cols /\ check = t.check /\ old = t.heap /\ indexes = t.indexes
  OBVIOUS
<1>2. t = [cols |-> cols, check |-> check, heap |-> old, indexes |-> indexes]
  BY <1>1 DEF IsTable
<1>3. PICK new : new = [t EXCEPT !.heap = heap]
  OBVIOUS
<1>4. new = Entry(cols, check, heap, indexes)
  BY <1>2, <1>3 DEF Entry
<1>5. PICK ok, damage, left : ok = run.ok /\ damage = run.damaged /\ left = run.pages
  OBVIOUS
<1>6. run = [table |-> t, pages |-> left, ok |-> ok, damaged |-> damage]
  BY <1>5 DEF RunType
<1>7. PICK a : a = [run EXCEPT !.table = new]
  OBVIOUS
<1>8. a = [table |-> new, pages |-> left, ok |-> ok, damaged |-> damage]
  BY <1>6, <1>7
<1>9. PICK b : b = [a EXCEPT !.pages = pages]
  OBVIOUS
<1>10. b = [table |-> new, pages |-> pages, ok |-> ok, damaged |-> damage]
  BY <1>8, <1>9
<1>11. PICK c : c = [b EXCEPT !.damaged = TRUE]
  OBVIOUS
<1>12. c = [table |-> new, pages |-> pages, ok |-> ok, damaged |-> TRUE]
  BY <1>10, <1>11
<1>13. MovedTo(run, heap, pages) = c
  <2>1. MovedTo(run, heap, pages) = [[[run EXCEPT !.table.heap = heap] EXCEPT !.pages = pages] EXCEPT !.damaged = TRUE]
    BY <1>6 DEF MovedTo
  <2>2. a = [run EXCEPT !.table.heap = heap]
    BY <1>3, <1>7
  <2> QED
    BY <1>9, <1>11, <2>1, <2>2
<1> QED
  BY <1>1, <1>4, <1>5, <1>12, <1>13

\* One row more
LEMMA RewriteNext ==
    ASSUME NEW t, NEW Old, NEW New, NEW U, NEW dropped, NEW added, Rewritable(t, Old, New, U, dropped, added),
           NEW scan, Enumerates(scan, LiveIn(t.heap)), NEW k \in 1 .. Len(scan),
           NEW run, Rewritten(run, scan, t, Old, New, U, k - 1)
    PROVE  Rewritten(RewriteRow(run, Rewriting(scan[k], dropped, added)), scan, t, Old, New, U, k)
<1>1. PICK at, change : at = scan[k] /\ change = Rewriting(at, dropped, added)
  OBVIOUS
<1>2. at \in Position /\ Len(scan) \in Nat /\ k \in Nat
      /\ \A i, j \in 1 .. Len(scan) : scan[i] = scan[j] => i = j
  BY <1>1 DEF Enumerates
<1>3. PICK new : new = RewriteRow(run, change)
  OBVIOUS
<1>4. RewriteType(run, t, U) /\ run.ok \in BOOLEAN
  BY DEF Rewritten, RewriteType
<1>5. change.position = at /\ change.dropped = dropped /\ change.added = added
  BY <1>1 DEF Rewriting
<1>6. CASE ~run.ok
  <2>1. new = run
    BY <1>3, <1>6 DEF RewriteRow
  <2> QED
    BY <1>1, <1>3, <1>4, <1>6, <2>1 DEF Rewritten
<1>7. CASE run.ok
  <2>1. PICK heap, row : heap = run.table.heap /\ row = Reshaped(HeapRead(heap, at), dropped, added)
    OBVIOUS
  <2>2. RewriteHeap(heap, scan, Old, New, k - 1)
    BY <1>7, <2>1 DEF Rewritten
  <2>3. at \in LiveIn(heap) /\ HeapRead(heap, at) \in Old
    <3>1. k \in (k - 1) + 1 .. Len(scan)
      BY <1>2
    <3> QED
      BY <1>1, <2>2, <3>1 DEF RewriteHeap
  <2>4. row \in New /\ row \in U /\ HeapOK(heap, U)
    BY <1>4, <2>1, <2>3 DEF Rewritable, RewriteType
  <2>5. PICK put : put = HeapInsert(heap, row, run.pages)
    OBVIOUS
  <2>6. put.ok \in BOOLEAN
    BY <2>4, <2>5, InsertIs
  <2>7. CASE ~put.ok
    <3>1. new = [run EXCEPT !.ok = FALSE]
      BY <1>3, <1>5, <1>7, <2>1, <2>5, <2>7 DEF RewriteRow
    <3>2. new = [table |-> run.table, pages |-> run.pages, ok |-> FALSE, damaged |-> run.damaged]
      BY <1>4, <3>1 DEF RewriteType, RunType
    <3>3. new.table = run.table /\ new.pages = run.pages /\ new.ok = FALSE /\ new.damaged = run.damaged
      BY <3>2
    <3>4. RunType(new)
      BY <3>2, <3>3 DEF RunType
    <3>5. RewriteType(new, t, U)
      BY <1>4, <3>3, <3>4 DEF RewriteType
    <3> QED
      BY <1>1, <1>3, <3>3, <3>5 DEF Rewritten
  <2>8. CASE put.ok
    <3>1. PICK mid, to, left : mid = put.heap /\ to = put.position /\ left = put.pages
      OBVIOUS
    <3>2. /\ HeapOK(mid, U) /\ Stored(heap, row, to, mid)
          /\ LiveIn(mid) = LiveIn(heap) \cup {to} /\ to \notin LiveIn(heap)
      BY <2>4, <2>5, <2>8, <3>1, StoreKeeps DEF Put
    <3>3. PICK final : final = HeapMarkDeleted(mid, at)
      OBVIOUS
    <3>4. HeapOK(final, U) /\ Marked(mid, at, final)
      BY <1>2, <3>2, <3>3, MarkKeeps
    <3>5. PICK t2, u : u = run.table /\ t2 = Entry(u.cols, u.check, final, u.indexes)
      OBVIOUS
    <3>6. new = [table |-> t2, pages |-> left, ok |-> run.ok, damaged |-> TRUE]
      <4>1. new = MovedTo(run, final, left)
        BY <1>3, <1>5, <1>7, <2>1, <2>5, <2>8, <3>1, <3>3 DEF RewriteRow, MovedTo
      <4>2. RunType(run) /\ IsTable(u)
        BY <1>4, <3>5 DEF RewriteType
      <4> QED
        BY <3>5, <4>1, <4>2, MovedToIs
    <3>7. new.table = t2 /\ new.pages = left /\ new.ok = run.ok /\ new.damaged = TRUE
      BY <3>6
    <3>8. t2.cols = u.cols /\ t2.check = u.check /\ t2.heap = final /\ t2.indexes = u.indexes /\ IsTable(t2)
      BY <3>5 DEF Entry, IsTable
    <3>9. RunType(new)
      BY <3>6, <3>7 DEF RunType
    <3>10. RewriteType(new, t, U)
      BY <1>4, <3>4, <3>5, <3>7, <3>8, <3>9 DEF RewriteType
    <3>11. LiveIn(final) = (LiveIn(heap) \cup {to}) \ {at} /\ to # at
      BY <2>3, <3>2, <3>4 DEF Marked
    <3>12. ASSUME NEW x \in LiveIn(heap), x # at
           PROVE  HeapRead(final, x) = HeapRead(heap, x)
      <4>1. x \in All(heap) /\ x \in All(mid)
        BY <3>2 DEF LiveIn, Stored
      <4> QED
        BY <3>2, <3>4, <3>12, <4>1 DEF Stored, Marked
    <3>13. HeapRead(final, to) = row
      <4>1. to \in All(mid)
        BY <3>2 DEF Stored
      <4> QED
        BY <3>2, <3>4, <3>11, <4>1 DEF Stored, Marked
    <3>14. ASSUME NEW x \in LiveIn(final)
           PROVE  HeapRead(final, x) \in New \/ \E j \in k + 1 .. Len(scan) : x = scan[j]
      <4>1. CASE x = to
        BY <2>4, <3>13, <4>1
      <4>2. CASE x # to
        <5>1. x \in LiveIn(heap) /\ x # at
          BY <3>11, <4>2
        <5>2. CASE HeapRead(heap, x) \in New
          BY <3>12, <5>1, <5>2
        <5>3. CASE \E j \in (k - 1) + 1 .. Len(scan) : x = scan[j]
          <6>1. PICK j \in (k - 1) + 1 .. Len(scan) : x = scan[j]
            BY <5>3
          <6>2. j # k
            BY <1>1, <5>1, <6>1
          <6>3. j \in k + 1 .. Len(scan)
            BY <1>2, <6>1, <6>2
          <6> QED
            BY <6>1, <6>3
        <5> QED
          BY <2>2, <5>1, <5>2, <5>3 DEF RewriteHeap
      <4> QED
        BY <4>1, <4>2
    <3>15. ASSUME NEW j \in k + 1 .. Len(scan)
           PROVE  scan[j] \in LiveIn(final) /\ HeapRead(final, scan[j]) \in Old
      <4>1. j \in (k - 1) + 1 .. Len(scan) /\ j \in 1 .. Len(scan) /\ j # k /\ k \in 1 .. Len(scan)
        BY <1>2
      <4>2. PICK x : x = scan[j]
        OBVIOUS
      <4>3. x \in LiveIn(heap) /\ HeapRead(heap, x) \in Old
        BY <2>2, <4>1, <4>2 DEF RewriteHeap
      <4>4. x # at
        BY <1>1, <1>2, <4>1, <4>2
      <4> QED
        BY <3>11, <3>12, <4>2, <4>3, <4>4
    <3>16. RewriteHeap(final, scan, Old, New, k)
      BY <3>14, <3>15 DEF RewriteHeap
    <3>17. Rewritten(new, scan, t, Old, New, U, k)
      BY <3>7, <3>8, <3>10, <3>16 DEF Rewritten
    <3> QED
      BY <1>1, <1>3, <3>17
  <2> QED
    BY <2>6, <2>7, <2>8
<1> QED
  BY <1>4, <1>6, <1>7

LEMMA RewriteIsFold ==
    ASSUME NEW base, NEW seq
    PROVE  FoldLeft(RewriteRow, base, seq) = RewriteFold!Folded(base, seq)
BY DEF FoldLeft, MapThenFoldSet, Max,
       RewriteFold!Folded, RewriteFold!MapThenFoldSet, RewriteFold!Greatest

\* All of the rows, or those before the one that failed
LEMMA RewrittenAre ==
    ASSUME NEW t, NEW Old, NEW New, NEW U, NEW dropped, NEW added, Rewritable(t, Old, New, U, dropped, added),
           NEW pages, NEW scan, scan = HeapScan(t.heap),
           NEW changes, DOMAIN changes = DOMAIN scan,
           \A i \in DOMAIN scan : changes[i] = Rewriting(scan[i], dropped, added),
           NEW run, run = FoldLeft(RewriteRow, Run(t, pages), changes)
    PROVE  /\ Len(scan) \in Nat /\ Enumerates(scan, LiveIn(t.heap))
           /\ Rewritten(run, scan, t, Old, New, U, Len(scan))
<1>0. HeapOK(t.heap, U) /\ HeapIn(t.heap, U) /\ IsTable(t)
  BY DEF Rewritable, HeapOK
<1>1. Enumerates(scan, LiveIn(t.heap))
  BY <1>0, ScanIs
<1>2. PICK n \in Nat : n = Len(scan) /\ DOMAIN scan = 1 .. n
  BY <1>1 DEF Enumerates
<1>3. PICK base : base = Run(t, pages)
  OBVIOUS
<1>4. PICK r : RewriteFold!Stages(r, base, n, changes)
  BY <1>2, RewriteFold!FoldSteps
<1> DEFINE Bad == {k \in 0 .. n : ~Rewritten(r[k], scan, t, Old, New, U, k)}
<1>5. 0 \notin Bad
  <2>1. r[0] = base
    BY <1>4 DEF RewriteFold!Stages
  <2>2. base.table = t /\ base.ok = TRUE /\ base.damaged = FALSE /\ RunType(base)
    <3>1. base = [table |-> t, pages |-> pages, ok |-> TRUE, damaged |-> FALSE]
      BY <1>3 DEF Run
    <3> QED
      BY <3>1 DEF RunType
  <2>3. RewriteType(base, t, U)
    BY <1>0, <2>2 DEF RewriteType
  <2>4. PICK heap : heap = t.heap
    OBVIOUS
  <2>5. \A x \in LiveIn(heap) : HeapRead(heap, x) \in Old
    BY <2>4 DEF Rewritable
  <2>6. Enumerates(scan, LiveIn(heap)) /\ 0 + 1 .. Len(scan) = 1 .. Len(scan)
    BY <1>1, <2>4
  <2>7. RewriteHeap(heap, scan, Old, New, 0)
    BY <2>5, <2>6 DEF RewriteHeap, Enumerates
  <2>8. Rewritten(base, scan, t, Old, New, U, 0)
    BY <2>2, <2>3, <2>4, <2>7 DEF Rewritten
  <2> QED
    BY <2>1, <2>8
<1>6. ASSUME NEW k \in 1 .. n, k \in Bad PROVE k - 1 \in Bad
  <2>1. SUFFICES ASSUME k - 1 \notin Bad PROVE FALSE
    OBVIOUS
  <2>2. PICK before : before = r[k - 1]
    OBVIOUS
  <2>3. Rewritten(before, scan, t, Old, New, U, k - 1)
    BY <2>1, <2>2
  <2>4. r[k] = RewriteRow(before, Rewriting(scan[k], dropped, added))
    BY <1>2, <1>4, <2>2 DEF RewriteFold!Stages
  <2>5. k \in 1 .. Len(scan)
    BY <1>2
  <2>6. Rewritten(r[k], scan, t, Old, New, U, k)
    <3> HIDE DEF Bad
    <3>1. Rewritten(RewriteRow(before, Rewriting(scan[k], dropped, added)), scan, t, Old, New, U, k)
      BY <1>1, <2>3, <2>5, RewriteNext
    <3> QED
      BY <2>4, <3>1
  <2> QED
    BY <1>6, <2>6
<1>7. Bad = {}
  <2>1. Bad \in SUBSET (0 .. n)
    OBVIOUS
  <2> HIDE DEF Bad
  <2> QED
    BY <1>5, <1>6, <2>1, RewriteFold!Climb
<1>8. Rewritten(r[n], scan, t, Old, New, U, n)
  BY <1>7
<1>9. run = r[n]
  BY <1>3, <1>4, RewriteIsFold DEF RewriteFold!Stages
<1> QED
  BY <1>1, <1>2, <1>8, <1>9

(* What rewriting the rows ends in *)
RewrittenTo(out, t, cols, New, U) ==
  /\ RunType(out) /\ out.ok \in BOOLEAN /\ out.damaged \in BOOLEAN
  /\ IsTable(out.table) /\ out.table.cols = t.cols /\ out.table.check = t.check
  /\ HeapOK(out.table.heap, U)
  /\ out.ok => /\ ~out.damaged
               /\ HeapOK(out.table.heap, New)
               /\ IndexesOK(out.table.indexes, cols, All(out.table.heap), TRUE)
  /\ ~out.ok /\ ~out.damaged => out.table.heap = t.heap /\ out.table.indexes = t.indexes
  /\ ~out.ok /\ out.damaged => IndexesOK(out.table.indexes, cols, All(out.table.heap), FALSE)

LEMMA RewriteFails ==
    ASSUME NEW t, NEW cols, NEW New, NEW U, NEW run, RewriteType(run, t, U),
           IndexesOK(t.indexes, cols, {}, FALSE),
           NEW out, out = [run EXCEPT !.ok = FALSE]
    PROVE  RewrittenTo(out, t, cols, New, U)
<1>1. out = [table |-> run.table, pages |-> run.pages, ok |-> FALSE, damaged |-> run.damaged]
  BY DEF RewriteType, RunType
<1>2. out.table = run.table /\ out.pages = run.pages /\ out.ok = FALSE /\ out.damaged = run.damaged
  BY <1>1
<1>3. RunType(out)
  BY <1>1, <1>2 DEF RunType
<1>4. IndexesOK(out.table.indexes, cols, All(out.table.heap), FALSE)
  <2>1. PICK indexes, slots : indexes = t.indexes /\ slots = All(out.table.heap)
    OBVIOUS
  <2>2. IndexesOK(indexes, cols, slots, FALSE)
    BY <2>1, IndexesLoose
  <2> QED
    BY <1>2, <2>1, <2>2 DEF RewriteType
<1> QED
  BY <1>2, <1>3, <1>4 DEF RewrittenTo, RewriteType

LEMMA WithHeap ==
    ASSUME NEW t, IsTable(t), NEW heap
    PROVE  [t EXCEPT !.heap = heap] = Entry(t.cols, t.check, heap, t.indexes)
<1>1. PICK cols, check, old, indexes :
        cols = t.cols /\ check = t.check /\ old = t.heap /\ indexes = t.indexes
  OBVIOUS
<1>2. t = [cols |-> cols, check |-> check, heap |-> old, indexes |-> indexes]
  BY <1>1 DEF IsTable
<1>3. [t EXCEPT !.heap = heap] = Entry(cols, check, heap, indexes)
  BY <1>2 DEF Entry
<1> QED
  BY <1>1, <1>3

RewriteChanges(scan, dropped, added) ==
  [i \in DOMAIN scan |-> [position |-> scan[i], dropped |-> dropped, added |-> added]]

RewriteMoved(t, dropped, added, pages) ==
  FoldLeft(RewriteRow, Run(t, pages), RewriteChanges(HeapScan(t.heap), dropped, added))

CompactedTo(t, moved, compact) ==
  IF ~moved.ok \/ ~compact.ok THEN [moved EXCEPT !.ok = FALSE]
  ELSE RebuildIndexes(Run([t EXCEPT !.heap = compact.heap], compact.pages))

LEMMA RebuildRunType ==
    ASSUME NEW t, NEW pages, NEW n \in Nat, DOMAIN t.indexes = 1 .. n,
           NEW run, run = RebuildIndexes(Run(t, pages))
    PROVE  RunType(run)
<1>1. PICK base, seq : base = Run(t, pages) /\ seq = [i \in DOMAIN base.table.indexes |-> i]
  OBVIOUS
<1>2. RunType(base) /\ base.table = t
  BY <1>1, RunIs
<1>3. DOMAIN seq = 1 .. n
  BY <1>1, <1>2
<1>4. PICK r : RebuildFold!Stages(r, base, n, seq)
  BY <1>3, RebuildFold!FoldSteps
<1> DEFINE Bad == {k \in 0 .. n : ~RunType(r[k])}
<1>5. 0 \notin Bad
  BY <1>2, <1>4 DEF RebuildFold!Stages
<1>6. ASSUME NEW k \in 1 .. n, k \in Bad PROVE k - 1 \in Bad
  <2>1. SUFFICES ASSUME k - 1 \notin Bad PROVE FALSE
    OBVIOUS
  <2>2. PICK before : before = r[k - 1]
    OBVIOUS
  <2>3. RunType(before)
    BY <2>1, <2>2
  <2>4. r[k] = RebuildIndex(before, seq[k])
    BY <1>4, <2>2 DEF RebuildFold!Stages
  <2>5. RunType(r[k])
    <3>1. CASE ~before.ok
      BY <2>3, <2>4, <3>1 DEF RebuildIndex
    <3>2. CASE before.ok
      <4>0. PICK i, filled :
              /\ i = seq[k]
              /\ filled = FillIndex(before.table.heap, before.table.indexes[i].slot,
                            before.pages + Cardinality(Subtree(before.table.indexes[i].tree)))
        OBVIOUS
      <4>1. PICK table2, pages2, ok2, damage2 :
              r[k] = [table |-> table2, pages |-> pages2, ok |-> ok2, damaged |-> damage2]
        <5>1. PICK table2, pages2, ok2, damage2 :
                /\ table2 = [before.table EXCEPT !.indexes[i].tree = filled.tree]
                /\ pages2 = filled.pages /\ ok2 = filled.ok /\ damage2 = (~filled.ok)
          OBVIOUS
        <5>2. r[k] = [table |-> table2, pages |-> pages2, ok |-> ok2, damaged |-> damage2]
          BY <2>4, <3>2, <4>0, <5>1 DEF RebuildIndex
        <5> QED
          BY <5>2
      <4>2. r[k].table = table2 /\ r[k].pages = pages2 /\ r[k].ok = ok2 /\ r[k].damaged = damage2
        BY <4>1
      <4> QED
        BY <4>1, <4>2 DEF RunType
    <3> QED
      BY <3>1, <3>2
  <2> QED
    BY <1>6, <2>5
<1>7. Bad = {}
  <2>1. Bad \in SUBSET (0 .. n)
    OBVIOUS
  <2> HIDE DEF Bad
  <2> QED
    BY <1>5, <1>6, <2>1, RebuildFold!Climb
<1>8. run = r[n]
  BY <1>1, <1>4, RebuildIsFold DEF RebuildFold!Stages, RebuildIndexes
<1> QED
  BY <1>7, <1>8

LEMMA CompactedIs ==
    ASSUME NEW t, NEW Old, NEW New, NEW U, NEW dropped, NEW added, Rewritable(t, Old, New, U, dropped, added),
           NEW cols, \A c \in DOMAIN cols : Reaches(U, c), IndexesOK(t.indexes, cols, {}, FALSE),
           NEW scan, scan = HeapScan(t.heap), Len(scan) \in Nat, Enumerates(scan, LiveIn(t.heap)),
           NEW moved, Rewritten(moved, scan, t, Old, New, U, Len(scan)),
           NEW compact, compact = HeapCompact(moved.table.heap, moved.pages),
           NEW out, out = CompactedTo(t, moved, compact)
    PROVE  RewrittenTo(out, t, cols, New, U)
<1>1. RewriteType(moved, t, U)
  BY DEF Rewritten
<1>2. CASE ~moved.ok
  <2>1. out = [moved EXCEPT !.ok = FALSE]
    BY <1>2 DEF CompactedTo
  <2> QED
    BY <1>1, <2>1, RewriteFails
<1>3. CASE moved.ok
  <2>1. PICK n \in Nat : n = Len(scan)
    OBVIOUS
  <2>2. PICK heap : heap = moved.table.heap
    OBVIOUS
  <2>3. HeapOK(heap, U) /\ HeapIn(heap, U)
    BY <1>1, <2>2 DEF RewriteType, HeapOK
  <2>4. \A x \in LiveIn(heap) : HeapRead(heap, x) \in New
    <3>1. RewriteHeap(heap, scan, Old, New, n)
      BY <1>3, <2>1, <2>2 DEF Rewritten
    <3>2. n + 1 .. Len(scan) = {}
      BY <2>1
    <3> QED
      BY <3>1, <3>2 DEF RewriteHeap
  <2>5. RowsOf(heap) \in Seq(New)
    BY <2>3, <2>4, RowsAreIn
  <2>6. New \in SUBSET U /\ U \in SUBSET Seq(Values) /\ New \in SUBSET Seq(Values)
    BY <2>3 DEF Rewritable, HeapOK
  <2>7. /\ compact.ok \in BOOLEAN
        /\ compact.ok => HeapOK(compact.heap, New)
        /\ ~compact.ok => HeapScan(heap) # <<>>
    BY <2>2, <2>3, <2>5, <2>6, CompactIs
  <2>8. CASE ~compact.ok
    <3>1. out = [moved EXCEPT !.ok = FALSE]
      BY <2>8 DEF CompactedTo
    <3> QED
      BY <1>1, <3>1, RewriteFails
  <2>9. CASE compact.ok
    <3>1. PICK new : new = compact.heap
      OBVIOUS
    <3>2. HeapOK(new, New) /\ HeapOK(new, U) /\ HeapIn(new, U)
      <4>1. HeapOK(new, New)
        BY <2>7, <2>9, <3>1
      <4>2. HeapOK(new, U)
        BY <2>6, <4>1, HeapWeaker
      <4> QED
        BY <4>1, <4>2 DEF HeapOK
    <3>3. PICK t2 : t2 = Entry(t.cols, t.check, new, t.indexes)
      OBVIOUS
    <3>4. t2.cols = t.cols /\ t2.check = t.check /\ t2.heap = new /\ t2.indexes = t.indexes /\ IsTable(t2)
      BY <3>3 DEF Entry, IsTable
    <3>5. IsTable(t)
      BY DEF Rewritable
    <3>6. t2 = [t EXCEPT !.heap = new]
      BY <3>3, <3>5, WithHeap
    <3>7. PICK pages : pages = compact.pages
      OBVIOUS
    <3>8. out = RebuildIndexes(Run(t2, pages))
      BY <1>3, <2>9, <3>1, <3>6, <3>7 DEF CompactedTo
    <3>9. RebuiltTo(out, t2, cols)
      <4>1. HeapIn(t2.heap, U) /\ IndexesOK(t2.indexes, cols, {}, FALSE)
        BY <3>2, <3>4
      <4> QED
        BY <3>4, <3>8, <4>1, RebuiltIs
    <3>10. RunType(out)
      <4>1. PICK m \in Nat : DOMAIN t2.indexes = 1 .. m
        <5>1. PICK indexes : indexes = t.indexes
          OBVIOUS
        <5>2. IsSeq(indexes)
          BY <5>1 DEF IndexesOK
        <5> QED
          BY <3>4, <5>1, <5>2, SeqIs
      <4> QED
        BY <3>8, <4>1, RebuildRunType
    <3>11. /\ out.ok \in BOOLEAN /\ out.damaged = ~out.ok /\ IsTable(out.table)
           /\ out.table.cols = t.cols /\ out.table.check = t.check /\ out.table.heap = new
           /\ IndexesOK(out.table.indexes, cols, All(new), out.ok)
      BY <3>4, <3>9 DEF RebuiltTo
    <3>12. CASE out.ok
      <4>1. out.damaged = FALSE /\ out.ok = TRUE
        BY <3>11, <3>12
      <4> QED
        BY <3>2, <3>10, <3>11, <4>1 DEF RewrittenTo
    <3>13. CASE ~out.ok
      <4>1. out.damaged = TRUE /\ out.ok = FALSE
        BY <3>11, <3>13
      <4> QED
        BY <3>2, <3>10, <3>11, <4>1 DEF RewrittenTo
    <3> QED
      BY <3>11, <3>12, <3>13
  <2> QED
    BY <2>7, <2>8, <2>9
<1> QED
  BY <1>1, <1>2, <1>3 DEF RewriteType

\* The rows rewritten, or the table as it was or damaged
LEMMA RewriteRowsIs ==
    ASSUME NEW t, NEW Old, NEW New, NEW U, NEW dropped, NEW added, Rewritable(t, Old, New, U, dropped, added),
           NEW cols, \A c \in DOMAIN cols : Reaches(U, c), IndexesOK(t.indexes, cols, {}, FALSE),
           NEW pages, NEW out, out = RewriteRows(t, dropped, added, pages)
    PROVE  RewrittenTo(out, t, cols, New, U)
<1>1. PICK scan : scan = HeapScan(t.heap)
  OBVIOUS
<1>2. PICK changes : changes = RewriteChanges(scan, dropped, added)
  OBVIOUS
<1>3. DOMAIN changes = DOMAIN scan /\ \A i \in DOMAIN scan : changes[i] = Rewriting(scan[i], dropped, added)
  BY <1>2 DEF RewriteChanges, Rewriting
<1>4. PICK moved : moved = FoldLeft(RewriteRow, Run(t, pages), changes)
  OBVIOUS
<1>5. /\ Len(scan) \in Nat /\ Enumerates(scan, LiveIn(t.heap))
      /\ Rewritten(moved, scan, t, Old, New, U, Len(scan))
  BY <1>1, <1>3, <1>4, RewrittenAre
<1>6. PICK compact : compact = HeapCompact(moved.table.heap, moved.pages)
  OBVIOUS
<1>7. out = CompactedTo(t, moved, compact)
  BY <1>1, <1>2, <1>4, <1>6 DEF RewriteRows, RewriteChanges, CompactedTo
<1> QED
  BY <1>1, <1>5, <1>6, <1>7, CompactedIs

TruthStep == INSTANCE Folding WITH Op <- NoOp, Step <- TruthOf

-----------------------------------------------------------------------------
(* A condition over a longer row *)

Tested(cond, bound, row) == [cond |-> cond, bound |-> bound, row |-> row]

(* eval gives the truth of every node *)
Evaluates(eval, cond, bound, row) ==
  \A n \in DOMAIN cond : eval[n] = TruthOf(Tested(cond, bound, row), eval, n)

\* The nodes that a node is built from come before it.
LEMMA Below ==
    ASSUME NEW cond, Condition(cond), NEW n \in DOMAIN cond
    PROVE  /\ cond[n].kind \in {"compare", "not", "and", "or"}
           /\ cond[n].kind # "compare" => cond[n].left \in DOMAIN cond /\ cond[n].left < n
           /\ cond[n].kind \in {"and", "or"} => cond[n].right \in DOMAIN cond /\ cond[n].right < n
<1>1. DOMAIN cond = 1 .. Len(cond) /\ Len(cond) \in Nat
  BY DEF Condition
<1>2. \A x \in 1 .. n - 1 : x \in DOMAIN cond /\ x < n
  BY <1>1
<1> QED
  BY <1>2 DEF Condition

\* A node has the truth that those below it give it.
LEMMA TruthBelow ==
    ASSUME NEW cond, Condition(cond), NEW bound, NEW row, NEW n \in DOMAIN cond, NEW f, NEW g,
           \A m \in DOMAIN cond : m < n => f[m] = g[m]
    PROVE  TruthOf(Tested(cond, bound, row), f, n) = TruthOf(Tested(cond, bound, row), g, n)
<1>1. PICK test : test = Tested(cond, bound, row)
  OBVIOUS
<1>2. test.cond = cond
  BY <1>1 DEF Tested
<1>3. PICK node : node = cond[n]
  OBVIOUS
<1>4. node.kind \in {"compare", "not", "and", "or"}
  BY <1>3, Below
<1>5. CASE node.kind = "compare"
  BY <1>1, <1>2, <1>3, <1>5 DEF TruthOf
<1>6. CASE node.kind = "not"
  <2>1. f[node.left] = g[node.left]
    BY <1>3, <1>6, Below
  <2> QED
    BY <1>1, <1>2, <1>3, <1>6, <2>1 DEF TruthOf
<1>7. CASE node.kind = "and"
  <2>1. f[node.left] = g[node.left] /\ f[node.right] = g[node.right]
    BY <1>3, <1>7, Below
  <2> QED
    BY <1>1, <1>2, <1>3, <1>7, <2>1 DEF TruthOf
<1>8. CASE node.kind = "or"
  <2>1. f[node.left] = g[node.left] /\ f[node.right] = g[node.right]
    BY <1>3, <1>8, Below
  <2> QED
    BY <1>1, <1>2, <1>3, <1>8, <2>1 DEF TruthOf
<1> QED
  BY <1>4, <1>5, <1>6, <1>7, <1>8

\* The recursion that gives a condition its truth has an answer.
LEMMA EvaluatedIs ==
    ASSUME NEW cond, Condition(cond), NEW bound, NEW row
    PROVE  \E eval : /\ Evaluates(eval, cond, bound, row)
                     /\ EvaluateCondition(cond, bound, row) = eval[Len(cond)]
<1>1. PICK n \in Nat : n = Len(cond) /\ DOMAIN cond = 1 .. n
  BY DEF Condition
<1>2. PICK test : test = Tested(cond, bound, row)
  OBVIOUS
<1>3. PICK depth : depth = [m \in DOMAIN cond |-> m]
  OBVIOUS
<1>4. depth \in [DOMAIN cond -> 0 .. n] /\ \A m \in DOMAIN cond : depth[m] = m
  BY <1>1, <1>3
<1>5. TruthStep!Descends(test, DOMAIN cond, depth)
  <2>1. ASSUME NEW m \in DOMAIN cond, NEW f, NEW g, \A q \in DOMAIN cond : depth[q] < depth[m] => f[q] = g[q]
        PROVE  TruthOf(test, f, m) = TruthOf(test, g, m)
    <3>1. \A q \in DOMAIN cond : q < m => f[q] = g[q]
      BY <1>4, <2>1
    <3> QED
      BY <1>2, <3>1, TruthBelow
  <2> QED
    BY <2>1 DEF TruthStep!Descends
<1>6. \E f : TruthStep!Solves(f, test, DOMAIN cond)
  BY <1>1, <1>4, <1>5, TruthStep!Recursion
<1> DEFINE Eval == CHOOSE f : f = [m \in DOMAIN cond |-> TruthOf(test, f, m)]
<1>7. Eval = [m \in DOMAIN cond |-> TruthOf(test, Eval, m)]
  BY <1>6 DEF TruthStep!Solves
<1>8. EvaluateCondition(cond, bound, row) = Eval[Len(cond)]
  BY <1>2 DEF EvaluateCondition, Tested
<1> HIDE DEF Eval
<1>9. Evaluates(Eval, cond, bound, row)
  BY <1>2, <1>7 DEF Evaluates
<1> QED
  BY <1>8, <1>9

(* The rows are alike in what the condition asks for *)
AlikeFor(cond, bound, row, more) == \A name \in NamesIn(cond) : more[bound[name]] = row[bound[name]]

LEMMA SameTruth ==
    ASSUME NEW cond, Condition(cond), NEW bound, NEW row, NEW more, AlikeFor(cond, bound, row, more),
           NEW n \in DOMAIN cond, NEW f
    PROVE  TruthOf(Tested(cond, bound, row), f, n) = TruthOf(Tested(cond, bound, more), f, n)
<1>1. PICK a, b : a = Tested(cond, bound, row) /\ b = Tested(cond, bound, more)
  OBVIOUS
<1>2. a.cond = cond /\ a.bound = bound /\ a.row = row /\ b.cond = cond /\ b.bound = bound /\ b.row = more
  BY <1>1 DEF Tested
<1>3. PICK node : node = cond[n]
  OBVIOUS
<1>4. node.kind \in {"compare", "not", "and", "or"}
  BY <1>3, Below
<1>5. CASE node.kind = "compare"
  <2>1. node.column \in NamesIn(cond) /\ (node.right # NULL => node.right \in NamesIn(cond))
    BY <1>3, <1>5 DEF NamesIn, Condition
  <2>2. PICK slot, other : slot = bound[node.column] /\ other = bound[node.right]
    OBVIOUS
  <2>3. more[slot] = row[slot] /\ (node.right # NULL => more[other] = row[other])
    BY <2>1, <2>2 DEF AlikeFor
  <2>4. TruthOf(a, f, n) =
          IF slot = 0 THEN "unknown"
          ELSE IF node.op = "in" THEN ValueInResult(row[slot], node.members)
          ELSE IF node.right = NULL THEN ComparePredicate(row[slot], node.literal, node.op)
          ELSE ComparePredicate(row[slot], row[other], node.op)
    BY <1>2, <1>3, <1>5, <2>2 DEF TruthOf
  <2>5. TruthOf(b, f, n) =
          IF slot = 0 THEN "unknown"
          ELSE IF node.op = "in" THEN ValueInResult(more[slot], node.members)
          ELSE IF node.right = NULL THEN ComparePredicate(more[slot], node.literal, node.op)
          ELSE ComparePredicate(more[slot], more[other], node.op)
    BY <1>2, <1>3, <1>5, <2>2 DEF TruthOf
  <2>6. TruthOf(a, f, n) = TruthOf(b, f, n)
    BY <2>3, <2>4, <2>5
  <2> QED
    BY <1>1, <2>6
<1>6. CASE node.kind # "compare"
  BY <1>1, <1>2, <1>3, <1>4, <1>6 DEF TruthOf
<1> QED
  BY <1>5, <1>6

\* A condition says the same of rows that are alike in what it asks for.
LEMMA SameAnswer ==
    ASSUME NEW cond, Condition(cond), cond # <<>>, NEW bound, NEW row, NEW more, AlikeFor(cond, bound, row, more)
    PROVE  EvaluateCondition(cond, bound, row) = EvaluateCondition(cond, bound, more)
<1>1. PICK n \in Nat : n = Len(cond) /\ DOMAIN cond = 1 .. n
  BY DEF Condition
<1>2. PICK f : Evaluates(f, cond, bound, row) /\ EvaluateCondition(cond, bound, row) = f[n]
  BY <1>1, EvaluatedIs
<1>3. PICK g : Evaluates(g, cond, bound, more) /\ EvaluateCondition(cond, bound, more) = g[n]
  BY <1>1, EvaluatedIs
<1>4. ASSUME NEW m \in DOMAIN cond, \A q \in DOMAIN cond : q < m => f[q] = g[q]
      PROVE  f[m] = g[m]
  <2>1. f[m] = TruthOf(Tested(cond, bound, row), f, m)
    BY <1>2 DEF Evaluates
  <2>2. g[m] = TruthOf(Tested(cond, bound, more), g, m)
    BY <1>3 DEF Evaluates
  <2>3. TruthOf(Tested(cond, bound, row), f, m) = TruthOf(Tested(cond, bound, row), g, m)
    BY <1>4, TruthBelow
  <2>4. TruthOf(Tested(cond, bound, row), g, m) = TruthOf(Tested(cond, bound, more), g, m)
    BY SameTruth
  <2> QED
    BY <2>1, <2>2, <2>3, <2>4
<1>5. PICK Bad : Bad = {m \in DOMAIN cond : f[m] # g[m]}
  OBVIOUS
<1>6. Bad = {}
  <2>1. SUFFICES ASSUME Bad # {} PROVE FALSE
    OBVIOUS
  <2>2. Bad \in SUBSET Nat
    BY <1>1, <1>5
  <2>3. PICK m \in Bad : \A q \in Bad : m <= q
    BY <2>1, <2>2, TruthStep!LeastIs
  <2>4. \A q \in DOMAIN cond : q < m => f[q] = g[q]
    <3>1. ASSUME NEW q \in DOMAIN cond, q < m PROVE f[q] = g[q]
      <4>1. q \notin Bad
        BY <1>1, <2>2, <2>3, <3>1
      <4> QED
        BY <1>5, <4>1
    <3> QED
      BY <3>1
  <2> QED
    BY <1>4, <1>5, <2>3, <2>4
<1>7. n \in DOMAIN cond
  <2>1. n # 0
    BY <1>1 DEF Condition
  <2> QED
    BY <1>1, <2>1
<1> QED
  BY <1>2, <1>3, <1>5, <1>6, <1>7

-----------------------------------------------------------------------------
(* ALTER TABLE ADD *)

Added(cols, column) == Append(cols, column)

LEMMA AppendIs ==
    ASSUME NEW seq, IsSeq(seq), NEW x
    PROVE  /\ IsSeq(Added(seq, x)) /\ Len(Added(seq, x)) = Len(seq) + 1
           /\ DOMAIN Added(seq, x) = 1 .. Len(seq) + 1
           /\ \A i \in DOMAIN seq : Added(seq, x)[i] = seq[i]
           /\ Added(seq, x)[Len(seq) + 1] = x
<1>1. PICK S : S = {seq[i] : i \in DOMAIN seq}
  OBVIOUS
<1>2. PICK T : T = S \cup {x}
  OBVIOUS
<1>3. seq \in Seq(S)
  BY <1>1 DEF IsSeq
<1>4. seq \in Seq(T) /\ x \in T
  BY <1>2, <1>3
<1>5. PICK new : new = Append(seq, x)
  OBVIOUS
<1>6. /\ new \in Seq(T) /\ Len(new) = Len(seq) + 1
      /\ \A i \in 1 .. Len(seq) : new[i] = seq[i]
      /\ new[Len(seq) + 1] = x
  BY <1>4, <1>5
<1>7. Len(seq) \in Nat /\ DOMAIN seq = 1 .. Len(seq)
  BY SeqIs
<1>8. IsSeq(new) /\ DOMAIN new = 1 .. Len(seq) + 1
  BY <1>6, <1>7, SeqIn
<1> QED
  BY <1>5, <1>6, <1>7, <1>8 DEF Added

LEMMA AddedCols ==
    ASSUME NEW cols, ColsOK(cols), Len(cols) # MaxColumns,
           NEW column, IsColumn(column), column.name \notin NamesOf(cols),
           NEW new, new = Added(cols, column)
    PROVE  ColsOK(new) /\ Len(new) = Len(cols) + 1
<1>1. PICK n \in Nat : n = Len(cols) /\ DOMAIN cols = 1 .. n
  BY SeqIs DEF ColsOK
<1>2. /\ IsSeq(new) /\ Len(new) = n + 1 /\ DOMAIN new = 1 .. n + 1
      /\ \A c \in 1 .. n : new[c] = cols[c]
      /\ new[n + 1] = column
  BY <1>1, AppendIs DEF ColsOK
<1>3. Len(new) <= MaxColumns
  BY <1>1, <1>2, RoomAssumption DEF ColsOK
<1>4. \A c \in 1 .. n + 1 : c \in 1 .. n \/ c = n + 1
  BY <1>1
<1>5. \A c \in DOMAIN new : IsColumn(new[c])
  BY <1>1, <1>2, <1>4 DEF ColsOK
<1>6. \A c \in 1 .. n : cols[c].name # column.name
  BY <1>1 DEF NamesOf
<1>7. \A c, d \in 1 .. n : cols[c].name = cols[d].name => c = d
  BY <1>1 DEF ColsOK
<1>8. \A c, d \in DOMAIN new : new[c].name = new[d].name => c = d
  BY <1>2, <1>4, <1>6, <1>7
<1> QED
  BY <1>1, <1>2, <1>3, <1>5, <1>8 DEF ColsOK

LEMMA AddedIndexes ==
    ASSUME NEW cols, ColsOK(cols), NEW column, NEW indexes, NEW slots, NEW once,
           IndexesOK(indexes, cols, slots, once), NEW new, new = Added(cols, column)
    PROVE  IndexesOK(indexes, new, slots, once)
<1>1. PICK n \in Nat : n = Len(cols) /\ DOMAIN cols = 1 .. n
  BY SeqIs DEF ColsOK
<1>2. DOMAIN new = 1 .. n + 1 /\ \A c \in DOMAIN cols : new[c] = cols[c]
  BY <1>1, AppendIs DEF ColsOK
<1>3. \A c \in DOMAIN cols : c \in DOMAIN new
  BY <1>1, <1>2
<1> QED
  BY <1>2, <1>3 DEF IndexesOK, IndexOK

\* A column of a table that gets one more is where it was.
LEMMA AddedFound ==
    ASSUME NEW cols, ColsOK(cols), NEW column, column.name \notin NamesOf(cols),
           NEW new, new = Added(cols, column), NEW name \in NamesOf(cols)
    PROVE  name \in NamesOf(new) /\ FindColumn(new, name) = FindColumn(cols, name)
<1>1. PICK n \in Nat : n = Len(cols) /\ DOMAIN cols = 1 .. n
  BY SeqIs DEF ColsOK
<1>2. DOMAIN new = 1 .. n + 1 /\ new[n + 1] = column /\ \A c \in 1 .. n : new[c] = cols[c]
  BY <1>1, AppendIs DEF ColsOK
<1>3. column.name # name
  OBVIOUS
<1>4. \A c \in 1 .. n + 1 : c \in 1 .. n \/ c = n + 1
  BY <1>1
<1>5. \A c \in 1 .. n : c \in 1 .. n + 1
  BY <1>1
<1>6. {c \in DOMAIN new : new[c].name = name} = {c \in DOMAIN cols : cols[c].name = name}
  BY <1>1, <1>2, <1>3, <1>4, <1>5
<1>7. FindColumn(new, name) = FindColumn(cols, name)
  <2>1. FindColumn(new, name) = AnyOf({c \in DOMAIN new : new[c].name = name})
    BY DEF FindColumn, AnyOf
  <2>2. FindColumn(cols, name) = AnyOf({c \in DOMAIN cols : cols[c].name = name})
    BY DEF FindColumn, AnyOf
  <2> QED
    BY <1>6, <2>1, <2>2
<1>8. PICK c \in DOMAIN cols : cols[c].name = name
  BY DEF NamesOf
<1>9. c \in DOMAIN new /\ new[c].name = name
  BY <1>1, <1>2, <1>5, <1>8
<1>10. name \in NamesOf(new)
  BY <1>9 DEF NamesOf
<1> QED
  BY <1>7, <1>10

LEMMA AddedCheck ==
    ASSUME NEW cols, ColsOK(cols), NEW column, column.name \notin NamesOf(cols),
           NEW new, new = Added(cols, column), NEW check, CheckOK(check, cols)
    PROVE  CheckOK(check, new)
<1>1. ASSUME ChecksKeepNames, NEW name \in NamesIn(check.cond)
      PROVE  name \in NamesOf(new) /\ FindColumn(new, name) = FindColumn(cols, name)
  <2>1. name \in NamesOf(cols)
    BY <1>1 DEF CheckOK
  <2> QED
    BY <2>1, AddedFound
<1> QED
  BY <1>1, SameNames

\* A CHECK does not see what is added to a row.
LEMMA AddedPasses ==
    ASSUME NEW cols, ColsOK(cols), NEW check, CheckOK(check, cols), ChecksKeepNames,
           NEW row \in Seq(Values), Len(row) = Len(cols), NEW value \in Values, Passes(check, row)
    PROVE  Passes(check, Append(row, value))
<1>1. PICK more : more = Append(row, value)
  OBVIOUS
<1>2. PICK n \in Nat : n = Len(cols) /\ DOMAIN cols = 1 .. n
  BY SeqIs DEF ColsOK
<1>3. \A i \in 1 .. n : more[i] = row[i]
  BY <1>1, <1>2
<1>4. PICK cond, bound : cond = check.cond /\ bound = check.declared
  OBVIOUS
<1>5. Condition(cond) /\ NamesIn(cond) \subseteq NamesOf(cols) /\ bound = ResolveCondition(cols, cond)
  BY <1>4 DEF CheckOK
<1>6. ASSUME NEW name \in NamesIn(cond) PROVE more[bound[name]] = row[bound[name]]
  <2>1. bound[name] = FindColumn(cols, name)
    BY <1>5, <1>6 DEF ResolveCondition
  <2>2. FindColumn(cols, name) \in DOMAIN cols
    BY <1>5, <1>6, FoundColumn
  <2> QED
    BY <1>2, <1>3, <2>1, <2>2
<1>7. AlikeFor(cond, bound, row, more)
  BY <1>6 DEF AlikeFor
<1>8. CASE cond = Always
  BY <1>1, <1>4, <1>8 DEF Passes
<1>9. CASE cond # Always
  <2>1. EvaluateCondition(cond, bound, row) = EvaluateCondition(cond, bound, more)
    BY <1>5, <1>7, <1>9, SameAnswer DEF Always
  <2> QED
    BY <1>1, <1>4, <1>9, <2>1 DEF Passes
<1> QED
  BY <1>8, <1>9

\* A row with the new column's value is one the new table may have.
LEMMA AddedRow ==
    ASSUME NEW cols, ColsOK(cols), NEW column, NEW new, new = Added(cols, column),
           NEW check, CheckOK(check, cols), NEW d \in BOOLEAN, NEW row \in Allowed(cols, check, d),
           NEW value \in Values, DefaultsFit => Fits(column, value)
    PROVE  Append(row, value) \in Allowed(new, check, d)
<1>1. PICK more : more = Append(row, value)
  OBVIOUS
<1>2. PICK n \in Nat : n = Len(cols) /\ DOMAIN cols = 1 .. n
  BY SeqIs DEF ColsOK
<1>3. /\ Len(new) = n + 1 /\ DOMAIN new = 1 .. n + 1 /\ new[n + 1] = column
      /\ \A c \in 1 .. n : new[c] = cols[c]
  BY <1>2, AppendIs DEF ColsOK
<1>4. row \in Wide(cols)
  BY AllowedIs
<1>5. row \in Seq(Values) /\ Len(row) \in Nat /\ Len(row) >= n
  BY <1>2, <1>4 DEF Wide
<1>6. more \in Seq(Values) /\ Len(more) = Len(row) + 1
  BY <1>1, <1>5
<1>7. CASE d
  BY <1>1, <1>2, <1>3, <1>5, <1>6, <1>7 DEF Allowed, Wide
<1>8. CASE ~d
  <2>1. row \in Kept(cols, check)
    BY <1>8 DEF Allowed
  <2>2. /\ Len(row) = n
        /\ DefaultsFit => \A c \in 1 .. n : Fits(cols[c], row[c])
        /\ ChecksKeepNames => Passes(check, row)
    BY <1>2, <2>1 DEF Kept
  <2>3. \A c \in 1 .. n : more[c] = row[c]
    BY <1>1, <1>5, <2>2
  <2>4. more[n + 1] = value
    BY <1>1, <1>5, <2>2
  <2>5. ASSUME DefaultsFit, NEW c \in DOMAIN new PROVE Fits(new[c], more[c])
    <3>1. c \in 1 .. n \/ c = n + 1
      BY <1>2, <1>3, <2>5
    <3>2. CASE c \in 1 .. n
      BY <1>3, <2>2, <2>3, <2>5, <3>2
    <3>3. CASE c = n + 1
      BY <1>3, <2>4, <2>5, <3>3
    <3> QED
      BY <3>1, <3>2, <3>3
  <2>6. ASSUME ChecksKeepNames PROVE Passes(check, more)
    BY <1>1, <1>2, <1>5, <2>2, <2>6, AddedPasses
  <2>7. Len(more) = Len(new)
    BY <1>3, <1>6, <2>2
  <2> QED
    BY <1>1, <1>6, <1>8, <2>5, <2>6, <2>7 DEF Allowed, Kept
<1> QED
  BY <1>7, <1>8

PutBack(run, cols) == [run EXCEPT !.table.cols = cols]

LEMMA PutBackIs ==
    ASSUME NEW run, RunType(run), NEW t, t = run.table, IsTable(t), NEW cols,
           NEW new, new = PutBack(run, cols)
    PROVE  /\ new.table = Entry(cols, t.check, t.heap, t.indexes)
           /\ new.ok = run.ok /\ new.damaged = run.damaged
<1>1. PICK old, check, heap, indexes :
        old = t.cols /\ check = t.check /\ heap = t.heap /\ indexes = t.indexes
  OBVIOUS
<1>2. t = [cols |-> old, check |-> check, heap |-> heap, indexes |-> indexes]
  BY <1>1 DEF IsTable
<1>3. PICK t2 : t2 = [t EXCEPT !.cols = cols]
  OBVIOUS
<1>4. t2 = Entry(cols, check, heap, indexes)
  BY <1>2, <1>3 DEF Entry
<1>5. PICK ok, damage, left : ok = run.ok /\ damage = run.damaged /\ left = run.pages
  OBVIOUS
<1>6. run = [table |-> t, pages |-> left, ok |-> ok, damaged |-> damage]
  BY <1>5 DEF RunType
<1>7. new = [run EXCEPT !.table = t2]
  BY <1>3 DEF PutBack
<1>8. new = [table |-> t2, pages |-> left, ok |-> ok, damaged |-> damage]
  BY <1>6, <1>7
<1>9. new.table = t2 /\ new.ok = ok /\ new.damaged = damage
  BY <1>8
<1> QED
  BY <1>1, <1>4, <1>5, <1>9

LEMMA WithCols ==
    ASSUME NEW t, IsTable(t), NEW cols, NEW new, new = [t EXCEPT !.cols = cols]
    PROVE  /\ new = Entry(cols, t.check, t.heap, t.indexes) /\ IsTable(new)
           /\ new.cols = cols /\ new.check = t.check /\ new.heap = t.heap /\ new.indexes = t.indexes
<1>1. PICK old, check, heap, indexes :
        old = t.cols /\ check = t.check /\ heap = t.heap /\ indexes = t.indexes
  OBVIOUS
<1>2. t = [cols |-> old, check |-> check, heap |-> heap, indexes |-> indexes]
  BY <1>1 DEF IsTable
<1>3. new = Entry(cols, check, heap, indexes)
  BY <1>2 DEF Entry
<1>4. new.cols = cols /\ new.check = check /\ new.heap = heap /\ new.indexes = indexes /\ IsTable(new)
  BY <1>3 DEF Entry, IsTable
<1> QED
  BY <1>1, <1>3, <1>4

(* The rows a heap has *)
RowsThere(heap) == {HeapRead(heap, x) : x \in LiveIn(heap)}

LEMMA RowsThereAre ==
    ASSUME NEW S, NEW heap, HeapOK(heap, S), NEW row \in RowsThere(heap)
    PROVE  row \in S /\ heap.nlive > 0
<1>1. HeapIn(heap, S) /\ heap.nlive = Cardinality(LiveIn(heap))
  BY DEF HeapOK, Counted
<1>2. PICK x \in LiveIn(heap) : row = HeapRead(heap, x)
  BY DEF RowsThere
<1>3. row \in S
  BY <1>1, <1>2, LiveRow
<1>4. PICK live : live = LiveIn(heap)
  OBVIOUS
<1>5. IsFiniteSet(live) /\ Cardinality(live) \in Nat
  BY <1>1, <1>4, LiveIsFinite
<1>6. Cardinality(live) # 0
  BY <1>2, <1>4, <1>5, FS_EmptySet
<1> QED
  BY <1>1, <1>3, <1>4, <1>5, <1>6

(* What ALTER TABLE ADD puts in the rows there are *)
FilledWith(column) == IF column.default = NoDefault THEN NULL ELSE column.default

(* ALTER TABLE ADD goes ahead *)
Addable(t, column) ==
  /\ column \in AddedColumns
  /\ ~(column.notNull /\ column.default = NoDefault /\ t.heap.nlive > 0)
  /\ FindColumn(t.cols, column.name) = 0
  /\ Len(t.cols) # MaxColumns

LEMMA FilledFits ==
    ASSUME NEW column \in AddedColumns, NEW value, value = FilledWith(column),
           ~(column.notNull /\ column.default = NoDefault)
    PROVE  DefaultsFit => Fits(column, value)
<1>1. CASE column.default = NoDefault
  <2>1. value = NULL /\ ~column.notNull
    BY <1>1 DEF FilledWith
  <2> QED
    BY <2>1 DEF Fits
<1>2. CASE column.default # NoDefault
  <2>1. value = column.default
    BY <1>2 DEF FilledWith
  <2> QED
    BY <1>2, <2>1 DEF DefaultsFit
<1> QED
  BY <1>1, <1>2

LEMMA FilledIs ==
    ASSUME NEW column \in AddedColumns
    PROVE  IsColumn(column) /\ FilledWith(column) \in Values
<1>1. IsColumn(column)
  BY StatementsAssumption
<1>2. column.default \in Values \cup {NoDefault}
  BY <1>1 DEF IsColumn
<1> QED
  BY <1>1, <1>2, ValuesAssumption DEF FilledWith

\* The rows of a table may all be given the new column's value.
LEMMA AddRewrites ==
    ASSUME NEW t, NEW d \in BOOLEAN, TableOK(t, d), NEW column, Addable(t, column),
           NEW cols, cols = Added(t.cols, column), NEW shape, shape = Entry(cols, t.check, t.heap, t.indexes)
    PROVE  /\ ColsOK(cols) /\ CheckOK(t.check, cols)
           /\ Rewritable(shape, RowsThere(t.heap), Allowed(cols, t.check, d), Wide(t.cols),
                         0, FilledWith(column))
<1>1. PICK old, check, heap, indexes, value :
        /\ old = t.cols /\ check = t.check /\ heap = t.heap /\ indexes = t.indexes
        /\ value = FilledWith(column)
  OBVIOUS
<1>2. ColsOK(old) /\ CheckOK(check, old) /\ HeapOK(heap, Allowed(old, check, d))
  BY <1>1 DEF TableOK
<1>3. PICK n \in Nat : n = Len(old) /\ DOMAIN old = 1 .. n
  BY <1>2, SeqIs DEF ColsOK
<1>4. column.name \notin NamesOf(old)
  <2>1. 0 \notin DOMAIN old
    BY <1>3
  <2> QED
    BY <1>1, <2>1, FoundColumn DEF Addable
<1>5. IsColumn(column) /\ value \in Values /\ column \in AddedColumns
  BY <1>1, FilledIs DEF Addable
<1>6. ColsOK(cols) /\ Len(cols) = n + 1
  BY <1>1, <1>2, <1>3, <1>4, <1>5, AddedCols DEF Addable
<1>7. CheckOK(check, cols)
  BY <1>1, <1>2, <1>4, AddedCheck
<1>8. HeapOK(heap, Wide(old))
  BY <1>2, AllowedIs, HeapWeaker
<1>9. Allowed(cols, check, d) \in SUBSET Wide(old)
  <2>1. Wide(cols) \subseteq Wide(old)
    BY <1>3, <1>6 DEF Wide
  <2> QED
    BY <1>6, <2>1, AllowedIs
<1>10. ASSUME NEW row \in RowsThere(heap)
       PROVE  Reshaped(row, 0, value) \in Allowed(cols, check, d)
  <2>1. row \in Allowed(old, check, d) /\ heap.nlive > 0
    BY <1>2, <1>10, RowsThereAre
  <2>2. DefaultsFit => Fits(column, value)
    <3>1. ~(column.notNull /\ column.default = NoDefault)
      BY <1>1, <2>1 DEF Addable
    <3> QED
      BY <1>1, <1>5, <3>1, FilledFits
  <2>3. Append(row, value) \in Allowed(cols, check, d)
    BY <1>1, <1>2, <1>5, <2>1, <2>2, AddedRow
  <2> QED
    BY <2>3 DEF Reshaped
<1>11. IsTable(shape) /\ shape.heap = heap
  BY <1>1 DEF Entry, IsTable
<1>12. \A x \in LiveIn(heap) : HeapRead(heap, x) \in RowsThere(heap)
  BY DEF RowsThere
<1> QED
  BY <1>1, <1>6, <1>7, <1>8, <1>9, <1>10, <1>11, <1>12 DEF Rewritable

\* What ALTER TABLE ADD comes to
LEMMA AddComesTo ==
    ASSUME NEW t, NEW d \in BOOLEAN, TableOK(t, d), NEW column, Addable(t, column),
           NEW cols, cols = Added(t.cols, column), NEW shape, shape = Entry(cols, t.check, t.heap, t.indexes),
           NEW pages, NEW out, out = RewriteRows(shape, 0, FilledWith(column), pages),
           NEW run, run = IF out.ok THEN out ELSE PutBack(out, t.cols)
    PROVE  /\ run.ok \in BOOLEAN /\ run.damaged \in BOOLEAN
           /\ TableOK(run.table, d \/ run.damaged)
<1>1. PICK old, check, heap, indexes :
        /\ old = t.cols /\ check = t.check /\ heap = t.heap /\ indexes = t.indexes
  OBVIOUS
<1>2. PICK New, U : New = Allowed(cols, check, d) /\ U = Wide(old)
  OBVIOUS
<1>3. ColsOK(cols) /\ CheckOK(check, cols)
  BY <1>1, AddRewrites
<1>4. Rewritable(shape, RowsThere(heap), New, U, 0, FilledWith(column))
  BY <1>1, <1>2, AddRewrites
<1>5. /\ IsTable(t) /\ ColsOK(old) /\ CheckOK(check, old)
      /\ IndexesOK(indexes, old, All(heap), ~d)
  BY <1>1 DEF TableOK
<1>6. shape.cols = cols /\ shape.check = check /\ shape.heap = heap /\ shape.indexes = indexes
  BY <1>1 DEF Entry
<1>7. IndexesOK(indexes, old, {}, FALSE)
  <2>1. PICK slots, once : once \in BOOLEAN /\ slots = All(heap) /\ once = ~d
    OBVIOUS
  <2>2. IndexesOK(indexes, old, slots, once)
    BY <1>5, <2>1
  <2> QED
    BY <2>1, <2>2, IndexesLoose
<1>8. \A c \in DOMAIN old : Reaches(U, c)
  BY <1>2, <1>5, WideReaches
<1>9. RewrittenTo(out, shape, old, New, U)
  BY <1>4, <1>6, <1>7, <1>8, RewriteRowsIs
<1>10. /\ RunType(out) /\ out.ok \in BOOLEAN /\ out.damaged \in BOOLEAN
       /\ IsTable(out.table) /\ out.table.cols = cols /\ out.table.check = check
       /\ HeapOK(out.table.heap, U)
  BY <1>6, <1>9 DEF RewrittenTo
<1>11. CASE out.ok
  <2>1. run = out
    BY <1>11
  <2>2. PICK h, ix : h = out.table.heap /\ ix = out.table.indexes
    OBVIOUS
  <2>3. ~out.damaged /\ HeapOK(h, New) /\ IndexesOK(ix, old, All(h), TRUE)
    BY <1>9, <1>11, <2>2 DEF RewrittenTo
  <2>4. PICK slots, once : once \in BOOLEAN /\ slots = All(h) /\ once = ~d
    OBVIOUS
  <2>5. IndexesOK(ix, old, slots, once)
    <3>1. IndexesOK(ix, old, slots, TRUE)
      BY <2>3, <2>4
    <3> QED
      BY <2>4, <3>1, IndexesWeaker
  <2>6. IndexesOK(ix, cols, slots, once)
    BY <1>1, <1>5, <2>5, AddedIndexes
  <2>7. TableOK(out.table, d)
    BY <1>2, <1>3, <1>10, <2>2, <2>3, <2>4, <2>6 DEF TableOK
  <2>8. (d \/ run.damaged) = d
    BY <1>10, <2>1, <2>3
  <2> QED
    BY <1>10, <2>1, <2>7, <2>8
<1>12. CASE ~out.ok
  <2>1. PICK h, ix : h = out.table.heap /\ ix = out.table.indexes
    OBVIOUS
  <2>2. run = PutBack(out, old)
    BY <1>1, <1>12
  <2>3. run.table = Entry(old, check, h, ix) /\ run.ok = out.ok /\ run.damaged = out.damaged
    BY <1>10, <2>1, <2>2, PutBackIs
  <2>4. PICK t2 : t2 = run.table
    OBVIOUS
  <2>5. t2.cols = old /\ t2.check = check /\ t2.heap = h /\ t2.indexes = ix /\ IsTable(t2)
    BY <2>3, <2>4 DEF Entry, IsTable
  <2>6. CASE ~out.damaged
    <3>1. h = heap /\ ix = indexes
      BY <1>6, <1>9, <1>12, <2>1, <2>6 DEF RewrittenTo
    <3>2. t2 = t
      BY <1>1, <1>5, <2>3, <2>4, <3>1 DEF Entry, IsTable
    <3>3. (d \/ run.damaged) = d
      BY <1>10, <2>3, <2>6
    <3> QED
      BY <1>10, <2>3, <2>4, <3>2, <3>3
  <2>7. CASE out.damaged
    <3>1. HeapOK(h, U) /\ IndexesOK(ix, old, All(h), FALSE)
      BY <1>9, <1>12, <2>1, <2>7 DEF RewrittenTo
    <3>2. Allowed(old, check, TRUE) = U
      BY <1>2, <1>5, AllowedIs
    <3>3. TableOK(t2, TRUE)
      <4>1. (~TRUE) = FALSE
        OBVIOUS
      <4> QED
        BY <1>5, <2>5, <3>1, <3>2, <4>1 DEF TableOK
    <3>4. (d \/ run.damaged) = TRUE
      BY <1>10, <2>3, <2>7
    <3> QED
      BY <1>10, <2>3, <2>4, <3>3, <3>4
  <2> QED
    BY <1>10, <2>6, <2>7
<1> QED
  BY <1>10, <1>11, <1>12

\* ALTER TABLE ADD
LEMMA AddColumnIsKept ==
    ASSUME TableInv, AddColumn
    PROVE  TableInv' /\ last'.statement = "alter"
<1>0. damaged \in BOOLEAN /\ TableOK(table, damaged) /\ IsTable(table)
  BY DEF TableInv, TableOK
<1>1. PICK column \in AddedColumns, pages \in Allowances :
        LET Done(run) == IF run.ok THEN run ELSE [run EXCEPT !.table.cols = table.cols]
        IN IF \/ column.unique
              \/ column.notNull /\ column.default = NoDefault /\ table.heap.nlive > 0
              \/ FindColumn(table.cols, column.name) # 0
              \/ Len(table.cols) = MaxColumns
           THEN Fail("alter")
           ELSE Finish("alter", Done(RewriteRows([table EXCEPT !.cols = Append(@, column)],
                                                 0, FilledWith(column), pages)))
  BY DEF AddColumn, FilledWith
<1>2. CASE Fail("alter")
  BY <1>2, FailKeeps
<1>3. CASE ~Fail("alter")
  <2>1. Addable(table, column)
    BY <1>1, <1>3 DEF Addable
  <2>2. PICK cols, shape :
          cols = Added(table.cols, column) /\ shape = [table EXCEPT !.cols = cols]
    OBVIOUS
  <2>3. shape = [table EXCEPT !.cols = Append(@, column)]
    BY <2>2 DEF Added
  <2>4. shape = Entry(cols, table.check, table.heap, table.indexes)
    BY <1>0, <2>2, WithCols
  <2>5. PICK out : out = RewriteRows(shape, 0, FilledWith(column), pages)
    OBVIOUS
  <2>6. PICK run : run = IF out.ok THEN out ELSE PutBack(out, table.cols)
    OBVIOUS
  <2>7. Finish("alter", run)
    BY <1>1, <1>3, <2>3, <2>5, <2>6 DEF PutBack
  <2>8. run.ok \in BOOLEAN /\ run.damaged \in BOOLEAN /\ TableOK(run.table, damaged \/ run.damaged)
    BY <1>0, <2>1, <2>2, <2>4, <2>5, <2>6, AddComesTo
  <2> QED
    BY <1>0, <2>7, <2>8, FinishKeeps
<1> QED
  BY <1>2, <1>3

-----------------------------------------------------------------------------
(* ALTER TABLE DROP *)

KeepBut(indexes, name) == Filter(indexes, [i \in DOMAIN indexes |-> indexes[i].column # name])

Lowered(index, slot) == IF index.slot > slot THEN [index EXCEPT !.slot = @ - 1] ELSE index

LoweredAll(indexes, slot) == [i \in DOMAIN indexes |-> Lowered(indexes[i], slot)]

LEMMA DroppedAre ==
    ASSUME NEW indexes, NEW name, NEW slot
    PROVE  IndexesColumnDropped(indexes, name, slot) = LoweredAll(KeepBut(indexes, name), slot)
BY DEF IndexesColumnDropped, KeepBut, Lowered, LoweredAll

LEMMA KeepButIs ==
    ASSUME NEW indexes, IsSeq(indexes), NEW name
    PROVE  /\ IsSeq(KeepBut(indexes, name))
           /\ \A i \in DOMAIN KeepBut(indexes, name) :
                \E j \in DOMAIN indexes : KeepBut(indexes, name)[i] = indexes[j] /\ indexes[j].column # name
<1>1. PICK n \in Nat : DOMAIN indexes = 1 .. n
  BY SeqIs
<1>2. PICK keep : keep = [i \in DOMAIN indexes |-> indexes[i].column # name]
  OBVIOUS
<1>3. PICK S : S = {indexes[i] : i \in DOMAIN indexes}
  OBVIOUS
<1>4. PICK kept : kept = Filter(indexes, keep)
  OBVIOUS
<1>5. kept \in Seq(S) /\ PickedFrom(kept, indexes, keep, n)
  BY <1>1, <1>3, <1>4, FilterIs
<1>6. IsSeq(kept) /\ DOMAIN kept = 1 .. Len(kept)
  BY <1>5, SeqIn
<1>7. PICK at : Picks(kept, at, indexes, keep, n)
  BY <1>5 DEF PickedFrom
<1>8. ASSUME NEW i \in DOMAIN kept
      PROVE  \E j \in DOMAIN indexes : kept[i] = indexes[j] /\ indexes[j].column # name
  <2>1. at[i] \in 1 .. n /\ keep[at[i]] /\ kept[i] = indexes[at[i]]
    BY <1>6, <1>7 DEF Picks
  <2> QED
    BY <1>1, <1>2, <2>1
<1>9. kept = KeepBut(indexes, name)
  BY <1>2, <1>4 DEF KeepBut
<1> QED
  BY <1>6, <1>8, <1>9

\* An index on a later column reads the slot below.
LEMMA LoweredIs ==
    ASSUME NEW cols, ColsOK(cols), NEW slot \in DOMAIN cols, NEW new, WithoutAt(new, cols, slot),
           NEW slots, NEW once, NEW index, IndexOK(index, cols, slots, once), index.column # cols[slot].name
    PROVE  IndexOK(Lowered(index, slot), new, slots, once)
<1>1. PICK n \in Nat : n = Len(cols) /\ DOMAIN cols = 1 .. n
  BY SeqIs DEF ColsOK
<1>2. PICK column, s, tree : column = index.column /\ s = index.slot /\ tree = index.tree
  OBVIOUS
<1>3. /\ index = [column |-> column, slot |-> s, tree |-> tree]
      /\ s \in 1 .. n /\ cols[s].name = column /\ TreeOK(tree, slots, once) /\ s # slot
  BY <1>1, <1>2 DEF IndexOK
<1>4. slot \in 1 .. n /\ DOMAIN new = 1 .. n - 1
      /\ \A i \in 1 .. n - 1 : new[i] = IF i < slot THEN cols[i] ELSE cols[i + 1]
  BY <1>1 DEF WithoutAt
<1>5. CASE s > slot
  <2>1. PICK low : low = s - 1
    OBVIOUS
  <2>2. low \in 1 .. n - 1 /\ ~(low < slot) /\ low + 1 = s
    BY <1>3, <1>4, <1>5, <2>1
  <2>3. new[low] = cols[s]
    BY <1>4, <2>2
  <2>4. PICK lower : lower = [index EXCEPT !.slot = low]
    OBVIOUS
  <2>5. lower = [column |-> column, slot |-> low, tree |-> tree]
    BY <1>3, <2>4
  <2>6. Lowered(index, slot) = lower
    BY <1>2, <1>5, <2>1, <2>4 DEF Lowered
  <2>7. lower.column = column /\ lower.slot = low /\ lower.tree = tree
    BY <2>5
  <2> QED
    BY <1>3, <1>4, <2>2, <2>3, <2>5, <2>6, <2>7 DEF IndexOK
<1>6. CASE ~(s > slot)
  <2>1. s \in 1 .. n - 1 /\ s < slot
    BY <1>1, <1>3, <1>4, <1>6
  <2>2. new[s] = cols[s]
    BY <1>4, <2>1
  <2>3. Lowered(index, slot) = index
    BY <1>2, <1>6 DEF Lowered
  <2> QED
    BY <1>2, <1>3, <1>4, <2>1, <2>2, <2>3 DEF IndexOK
<1> QED
  BY <1>5, <1>6

LEMMA LoweredAllAre ==
    ASSUME NEW cols, ColsOK(cols), NEW slot \in DOMAIN cols, NEW new, WithoutAt(new, cols, slot),
           NEW indexes, NEW slots, NEW once, IndexesOK(indexes, cols, slots, once)
    PROVE  IndexesOK(IndexesColumnDropped(indexes, cols[slot].name, slot), new, slots, once)
<1>1. PICK name : name = cols[slot].name
  OBVIOUS
<1>2. PICK kept : kept = KeepBut(indexes, name)
  OBVIOUS
<1>3. IsSeq(indexes) /\ \A i \in DOMAIN indexes : IndexOK(indexes[i], cols, slots, once)
  BY DEF IndexesOK
<1>4. /\ IsSeq(kept)
      /\ \A i \in DOMAIN kept : \E j \in DOMAIN indexes : kept[i] = indexes[j] /\ indexes[j].column # name
  BY <1>2, <1>3, KeepButIs
<1>5. PICK all : all = LoweredAll(kept, slot)
  OBVIOUS
<1>6. PICK n \in Nat : DOMAIN kept = 1 .. n
  BY <1>4, SeqIs
<1>7. all = [i \in 1 .. n |-> Lowered(kept[i], slot)]
  BY <1>5, <1>6 DEF LoweredAll
<1>8. ASSUME NEW i \in 1 .. n PROVE IndexOK(all[i], new, slots, once)
  <2>1. PICK j \in DOMAIN indexes : kept[i] = indexes[j] /\ indexes[j].column # name
    BY <1>4, <1>6
  <2>2. PICK index : index = indexes[j]
    OBVIOUS
  <2>3. IndexOK(index, cols, slots, once) /\ index.column # cols[slot].name
    BY <1>1, <1>3, <2>1, <2>2
  <2>4. IndexOK(Lowered(index, slot), new, slots, once)
    BY <2>3, LoweredIs
  <2> QED
    BY <1>7, <2>1, <2>2, <2>4
<1>9. IsSeq(all) /\ DOMAIN all = 1 .. n
  <2>1. all = [i \in 1 .. n |-> all[i]]
    BY <1>7
  <2>2. \A i \in 1 .. n : all[i] \in {all[j] : j \in 1 .. n}
    OBVIOUS
  <2>3. DOMAIN all = 1 .. n
    BY <2>1
  <2>4. all \in Seq({all[j] : j \in 1 .. n})
    BY <2>1, <2>2
  <2> QED
    BY <2>3, <2>4 DEF IsSeq
<1>10. IndexesOK(all, new, slots, once)
  BY <1>8, <1>9 DEF IndexesOK
<1> QED
  BY <1>1, <1>2, <1>5, <1>10, DroppedAre

LEMMA RemovedCols ==
    ASSUME NEW cols, ColsOK(cols), NEW slot \in DOMAIN cols, NEW new, new = RemoveAt(cols, slot)
    PROVE  ColsOK(new) /\ WithoutAt(new, cols, slot)
<1>1. PICK n \in Nat : n = Len(cols) /\ DOMAIN cols = 1 .. n
  BY SeqIs DEF ColsOK
<1>2. IsSeq(new) /\ WithoutAt(new, cols, slot)
  BY RemovedIs DEF ColsOK
<1>3. slot \in 1 .. n /\ DOMAIN new = 1 .. n - 1 /\ Len(new) = n - 1
      /\ \A i \in 1 .. n - 1 : new[i] = IF i < slot THEN cols[i] ELSE cols[i + 1]
  BY <1>1, <1>2 DEF WithoutAt
<1>4. \A i \in 1 .. n - 1 : i \in 1 .. n /\ i + 1 \in 1 .. n
  BY <1>1
<1>5. \A c \in DOMAIN new : IsColumn(new[c])
  BY <1>1, <1>3, <1>4 DEF ColsOK
<1>6. \A c, d \in 1 .. n : cols[c].name = cols[d].name => c = d
  BY <1>1 DEF ColsOK
<1>7. ASSUME NEW c \in DOMAIN new, NEW d \in DOMAIN new, new[c].name = new[d].name PROVE c = d
  <2>1. PICK i \in 1 .. n : new[c] = cols[i] /\ i = IF c < slot THEN c ELSE c + 1
    BY <1>3, <1>4
  <2>2. PICK j \in 1 .. n : new[d] = cols[j] /\ j = IF d < slot THEN d ELSE d + 1
    BY <1>3, <1>4
  <2>3. i = j
    BY <1>6, <1>7, <2>1, <2>2
  <2> QED
    BY <1>3, <2>1, <2>2, <2>3
<1>8. Len(new) <= MaxColumns
  BY <1>1, <1>3, RoomAssumption DEF ColsOK
<1> QED
  BY <1>2, <1>5, <1>7, <1>8 DEF ColsOK

LEMMA NoCheckIs ==
    ASSUME NEW cols, NEW new, NEW check, CheckOK(check, cols), check.cond = Always
    PROVE  CheckOK(check, new)
<1>1. NamesIn(check.cond) = {}
  BY DEF NamesIn, Always
<1> QED
  BY <1>1, SameNames

\* A row without the column's value is one the new table may have.
LEMMA DroppedRow ==
    ASSUME NEW cols, ColsOK(cols), NEW slot \in DOMAIN cols, NEW new, WithoutAt(new, cols, slot),
           NEW check, check.cond = Always, NEW d \in BOOLEAN, NEW row \in Allowed(cols, check, d)
    PROVE  RemoveAt(row, slot) \in Allowed(new, check, d)
<1>1. PICK n \in Nat : n = Len(cols) /\ DOMAIN cols = 1 .. n
  BY SeqIs DEF ColsOK
<1>2. slot \in 1 .. n /\ DOMAIN new = 1 .. n - 1 /\ Len(new) = n - 1
      /\ \A i \in 1 .. n - 1 : new[i] = IF i < slot THEN cols[i] ELSE cols[i + 1]
  BY <1>1 DEF WithoutAt
<1>3. row \in Wide(cols)
  BY AllowedIs
<1>4. row \in Seq(Values) /\ Len(row) \in Nat /\ Len(row) >= n
  BY <1>1, <1>3 DEF Wide
<1>5. PICK less : less = RemoveAt(row, slot)
  OBVIOUS
<1>6. slot \in 1 .. Len(row)
  BY <1>2, <1>4
<1>7. less \in Seq(Values) /\ WithoutAt(less, row, slot)
  BY <1>4, <1>5, <1>6, RemovedIn
<1>8. Len(less) = Len(row) - 1
      /\ \A i \in 1 .. Len(row) - 1 : less[i] = IF i < slot THEN row[i] ELSE row[i + 1]
  BY <1>7 DEF WithoutAt
<1>9. CASE d
  BY <1>2, <1>4, <1>5, <1>7, <1>8, <1>9 DEF Allowed, Wide
<1>10. CASE ~d
  <2>1. row \in Kept(cols, check)
    BY <1>10 DEF Allowed
  <2>2. Len(row) = n /\ (DefaultsFit => \A c \in 1 .. n : Fits(cols[c], row[c]))
    BY <1>1, <2>1 DEF Kept
  <2>3. ASSUME DefaultsFit, NEW c \in DOMAIN new PROVE Fits(new[c], less[c])
    <3>1. c \in 1 .. n - 1 /\ c \in 1 .. n /\ c + 1 \in 1 .. n
      BY <1>1, <1>2, <2>3
    <3>2. CASE c < slot
      BY <1>2, <1>8, <2>2, <2>3, <3>1, <3>2
    <3>3. CASE ~(c < slot)
      BY <1>2, <1>8, <2>2, <2>3, <3>1, <3>3
    <3> QED
      BY <3>2, <3>3
  <2>4. Passes(check, less)
    BY DEF Passes
  <2>5. Len(less) = Len(new)
    BY <1>2, <1>8, <2>2
  <2> QED
    BY <1>5, <1>7, <1>10, <2>3, <2>4, <2>5 DEF Allowed, Kept
<1> QED
  BY <1>9, <1>10

(* ALTER TABLE DROP goes ahead *)
Droppable(t, slot) == slot \in DOMAIN t.cols /\ Len(t.cols) # 1 /\ t.check.cond = Always

(* The catalog entry as ALTER TABLE DROP writes it before it starts *)
Without(t, slot) ==
  Entry(RemoveAt(t.cols, slot), t.check, t.heap, IndexesColumnDropped(t.indexes, t.cols[slot].name, slot))

WithoutColumn(t, slot) ==
  [t EXCEPT !.cols = RemoveAt(@, slot), !.indexes = IndexesColumnDropped(@, t.cols[slot].name, slot)]

LEMMA WithoutIs ==
    ASSUME NEW t, IsTable(t), NEW slot
    PROVE  WithoutColumn(t, slot) = Without(t, slot)
<1>1. PICK old, check, heap, indexes :
        old = t.cols /\ check = t.check /\ heap = t.heap /\ indexes = t.indexes
  OBVIOUS
<1>2. t = [cols |-> old, check |-> check, heap |-> heap, indexes |-> indexes]
  BY <1>1 DEF IsTable
<1>3. PICK cols, less : cols = RemoveAt(old, slot) /\ less = IndexesColumnDropped(indexes, old[slot].name, slot)
  OBVIOUS
<1>4. PICK u : u = [t EXCEPT !.cols = cols]
  OBVIOUS
<1>5. u = [cols |-> cols, check |-> check, heap |-> heap, indexes |-> indexes]
  BY <1>2, <1>4
<1>6. PICK v : v = [u EXCEPT !.indexes = less]
  OBVIOUS
<1>7. v = [cols |-> cols, check |-> check, heap |-> heap, indexes |-> less]
  BY <1>5, <1>6
<1>8. WithoutColumn(t, slot) = v
  <2>1. u = [t EXCEPT !.cols = RemoveAt(@, slot)]
    BY <1>1, <1>3, <1>4
  <2>2. u.indexes = indexes
    BY <1>5
  <2>3. v = [u EXCEPT !.indexes = IndexesColumnDropped(@, old[slot].name, slot)]
    BY <1>3, <1>6, <2>2
  <2>4. WithoutColumn(t, slot) =
          [[t EXCEPT !.cols = RemoveAt(@, slot)] EXCEPT !.indexes = IndexesColumnDropped(@, t.cols[slot].name, slot)]
    BY <1>2 DEF WithoutColumn
  <2> QED
    BY <1>1, <2>1, <2>3, <2>4
<1> QED
  BY <1>1, <1>3, <1>7, <1>8 DEF Without, Entry

\* The rows of a table may all lose the column's value.
LEMMA DropRewrites ==
    ASSUME NEW t, NEW d \in BOOLEAN, TableOK(t, d), NEW slot, Droppable(t, slot),
           NEW shape, shape = Without(t, slot), NEW cols, cols = shape.cols
    PROVE  /\ ColsOK(cols) /\ CheckOK(t.check, cols)
           /\ IndexesOK(shape.indexes, cols, {}, FALSE)
           /\ shape.check = t.check
           /\ Rewritable(shape, RowsThere(t.heap), Allowed(cols, t.check, d), Wide(cols), slot, NULL)
<1>1. PICK old, check, heap, indexes :
        /\ old = t.cols /\ check = t.check /\ heap = t.heap /\ indexes = t.indexes
  OBVIOUS
<1>2. /\ ColsOK(old) /\ CheckOK(check, old) /\ HeapOK(heap, Allowed(old, check, d))
      /\ IndexesOK(indexes, old, All(heap), ~d)
  BY <1>1 DEF TableOK
<1>3. PICK n \in Nat : n = Len(old) /\ DOMAIN old = 1 .. n
  BY <1>2, SeqIs DEF ColsOK
<1>4. slot \in DOMAIN old /\ slot # 0 /\ check.cond = Always
  BY <1>1, <1>3 DEF Droppable
<1>5. /\ cols = RemoveAt(old, slot) /\ shape.check = check /\ shape.heap = heap /\ IsTable(shape)
      /\ shape.indexes = IndexesColumnDropped(indexes, old[slot].name, slot)
  BY <1>1 DEF Without, Entry, IsTable
<1>6. ColsOK(cols) /\ WithoutAt(cols, old, slot)
  BY <1>2, <1>4, <1>5, RemovedCols
<1>7. CheckOK(check, cols)
  BY <1>2, <1>4, NoCheckIs
<1>8. IndexesOK(shape.indexes, cols, {}, FALSE)
  <2>1. PICK slots, once : once \in BOOLEAN /\ slots = All(heap) /\ once = ~d
    OBVIOUS
  <2>2. PICK less : less = IndexesColumnDropped(indexes, old[slot].name, slot)
    OBVIOUS
  <2>3. IndexesOK(less, cols, slots, once)
    BY <1>2, <1>4, <1>6, <2>1, <2>2, LoweredAllAre
  <2>4. IndexesOK(less, cols, {}, FALSE)
    BY <2>1, <2>3, IndexesLoose
  <2> QED
    BY <1>5, <2>2, <2>4
<1>9. HeapOK(heap, Wide(cols))
  <2>1. Len(cols) = n - 1
    BY <1>3, <1>6 DEF WithoutAt
  <2>2. Wide(old) \subseteq Wide(cols)
    BY <1>3, <2>1 DEF Wide
  <2>3. Allowed(old, check, d) \subseteq Wide(cols) /\ Wide(cols) \in SUBSET Seq(Values)
    BY <1>2, <1>6, <2>2, AllowedIs
  <2> QED
    BY <1>2, <2>3, HeapWeaker
<1>10. Allowed(cols, check, d) \in SUBSET Wide(cols)
  BY <1>6, AllowedIs
<1>11. ASSUME NEW row \in RowsThere(heap)
       PROVE  Reshaped(row, slot, NULL) \in Allowed(cols, check, d)
  <2>1. row \in Allowed(old, check, d)
    BY <1>2, <1>11, RowsThereAre
  <2>2. RemoveAt(row, slot) \in Allowed(cols, check, d)
    BY <1>2, <1>4, <1>6, <2>1, DroppedRow
  <2> QED
    BY <1>4, <2>2 DEF Reshaped
<1>12. \A x \in LiveIn(heap) : HeapRead(heap, x) \in RowsThere(heap)
  BY DEF RowsThere
<1> QED
  BY <1>1, <1>5, <1>6, <1>7, <1>8, <1>9, <1>10, <1>11, <1>12 DEF Rewritable

Damaging(run) == [run EXCEPT !.damaged = TRUE]

\* What ALTER TABLE DROP comes to
LEMMA DropComesTo ==
    ASSUME NEW t, NEW d \in BOOLEAN, TableOK(t, d), NEW slot, Droppable(t, slot),
           NEW shape, shape = Without(t, slot),
           NEW pages, NEW out, out = RewriteRows(shape, slot, NULL, pages),
           NEW run, run = IF out.ok THEN out ELSE Damaging(out)
    PROVE  /\ run.ok \in BOOLEAN /\ run.damaged \in BOOLEAN
           /\ TableOK(run.table, d \/ run.damaged)
<1>1. PICK cols, check, heap : cols = shape.cols /\ check = t.check /\ heap = t.heap
  OBVIOUS
<1>2. PICK New, U : New = Allowed(cols, check, d) /\ U = Wide(cols)
  OBVIOUS
<1>3. /\ ColsOK(cols) /\ CheckOK(check, cols) /\ shape.check = check
      /\ IndexesOK(shape.indexes, cols, {}, FALSE)
      /\ Rewritable(shape, RowsThere(heap), New, U, slot, NULL)
  BY <1>1, <1>2, DropRewrites
<1>4. \A c \in DOMAIN cols : Reaches(U, c)
  BY <1>2, <1>3, WideReaches
<1>5. RewrittenTo(out, shape, cols, New, U)
  BY <1>3, <1>4, RewriteRowsIs
<1>6. /\ RunType(out) /\ out.ok \in BOOLEAN /\ out.damaged \in BOOLEAN
      /\ IsTable(out.table) /\ out.table.cols = cols /\ out.table.check = check
      /\ HeapOK(out.table.heap, U)
  BY <1>1, <1>3, <1>5 DEF RewrittenTo
<1>7. PICK h, ix : h = out.table.heap /\ ix = out.table.indexes
  OBVIOUS
<1>8. CASE out.ok
  <2>1. run = out
    BY <1>8
  <2>2. ~out.damaged /\ HeapOK(h, New) /\ IndexesOK(ix, cols, All(h), TRUE)
    BY <1>5, <1>7, <1>8 DEF RewrittenTo
  <2>3. PICK slots, once : once \in BOOLEAN /\ slots = All(h) /\ once = ~d
    OBVIOUS
  <2>4. IndexesOK(ix, cols, slots, once)
    <3>1. IndexesOK(ix, cols, slots, TRUE)
      BY <2>2, <2>3
    <3> QED
      BY <2>3, <3>1, IndexesWeaker
  <2>5. TableOK(out.table, d)
    BY <1>2, <1>3, <1>6, <1>7, <2>2, <2>3, <2>4 DEF TableOK
  <2>6. (d \/ run.damaged) = d
    BY <1>6, <2>1, <2>2
  <2> QED
    BY <1>6, <2>1, <2>5, <2>6
<1>9. CASE ~out.ok
  <2>1. run = [out EXCEPT !.damaged = TRUE]
    BY <1>9 DEF Damaging
  <2>2. run = [table |-> out.table, pages |-> out.pages, ok |-> out.ok, damaged |-> TRUE]
    BY <1>6, <2>1 DEF RunType
  <2>3. run.table = out.table /\ run.ok = out.ok /\ run.damaged = TRUE
    BY <2>2
  <2>4. IndexesOK(ix, cols, All(h), FALSE)
    <3>1. PICK slots, some : slots = All(h) /\ some = shape.indexes
      OBVIOUS
    <3>2. CASE out.damaged
      BY <1>5, <1>7, <1>9, <3>2 DEF RewrittenTo
    <3>3. CASE ~out.damaged
      <4>1. ix = some
        BY <1>5, <1>7, <1>9, <3>1, <3>3 DEF RewrittenTo
      <4>2. IndexesOK(some, cols, slots, FALSE)
        BY <1>3, <3>1, IndexesLoose
      <4> QED
        BY <3>1, <4>1, <4>2
    <3> QED
      BY <3>2, <3>3
  <2>5. Allowed(cols, check, TRUE) = U
    BY <1>2, <1>3, AllowedIs
  <2>6. (~TRUE) = FALSE
    OBVIOUS
  <2>7. TableOK(out.table, TRUE)
    BY <1>3, <1>6, <1>7, <2>4, <2>5, <2>6 DEF TableOK
  <2>8. (d \/ run.damaged) = TRUE
    BY <2>3
  <2> QED
    BY <1>6, <2>3, <2>7, <2>8
<1> QED
  BY <1>6, <1>8, <1>9

\* ALTER TABLE DROP
LEMMA DropColumnIsKept ==
    ASSUME TableInv, DropColumn
    PROVE  TableInv' /\ last'.statement = "alter"
<1>0. damaged \in BOOLEAN /\ TableOK(table, damaged) /\ IsTable(table)
  BY DEF TableInv, TableOK
<1>1. PICK slot \in DOMAIN table.cols, pages \in Allowances :
        LET Done(run) == IF run.ok THEN run ELSE [run EXCEPT !.damaged = TRUE]
        IN IF CannotDropColumn(table) THEN Fail("alter")
           ELSE Finish("alter", Done(RewriteRows(WithoutColumn(table, slot), slot, NULL, pages)))
  BY DEF DropColumn, WithoutColumn
<1>2. CASE CannotDropColumn(table)
  BY <1>1, <1>2, FailKeeps
<1>3. CASE ~CannotDropColumn(table)
  <2>1. Droppable(table, slot)
    BY <1>3 DEF Droppable, CannotDropColumn
  <2>2. PICK shape : shape = WithoutColumn(table, slot)
    OBVIOUS
  <2>3. shape = Without(table, slot)
    BY <1>0, <2>2, WithoutIs
  <2>4. PICK out : out = RewriteRows(shape, slot, NULL, pages)
    OBVIOUS
  <2>5. PICK run : run = IF out.ok THEN out ELSE Damaging(out)
    OBVIOUS
  <2>6. Finish("alter", run)
    BY <1>1, <1>3, <2>2, <2>4, <2>5 DEF Damaging
  <2>7. run.ok \in BOOLEAN /\ run.damaged \in BOOLEAN /\ TableOK(run.table, damaged \/ run.damaged)
    BY <1>0, <2>1, <2>3, <2>4, <2>5, DropComesTo
  <2> QED
    BY <1>0, <2>6, <2>7, FinishKeeps
<1> QED
  BY <1>2, <1>3

-----------------------------------------------------------------------------
(* The invariant, and what follows from it *)

LEMMA InitIsOK == ASSUME Init PROVE TableInv
<1>1. table = NoTable /\ last = [statement |-> "start", ok |-> TRUE] /\ damaged = FALSE
  BY DEF Init
<1>2. last.ok = TRUE
  BY <1>1
<1>3. TableOK(NoTable, FALSE)
  BY NoTableIs
<1>4. TableOK(table, damaged)
  BY <1>1, <1>3
<1> QED
  BY <1>1, <1>2, <1>4 DEF TableInv

LEMMA NextIsOK ==
    ASSUME TableInv, [Next]_vars
    PROVE  TableInv'
<1>1. CASE UNCHANGED vars
  <2>1. damaged' = damaged /\ last' = last /\ table' = table
    BY <1>1 DEF vars
  <2> QED
    BY <2>1 DEF TableInv
<1>2. CASE CreateTable
  BY <1>2, CreateTableIsKept
<1>3. CASE DropTable
  BY <1>3, DropTableIsKept
<1>4. CASE CreateIndex
  BY <1>4, CreateIndexIsKept
<1>5. CASE DropIndex
  BY <1>5, DropIndexIsKept
<1>6. CASE Insert
  BY <1>6, InsertIsKept
<1>7. CASE Update
  BY <1>7, UpdateIsKept
<1>8. CASE Delete
  BY <1>8, DeleteIsKept
<1>9. CASE Vacuum
  BY <1>9, VacuumIsKept
<1>10. CASE AddColumn
  BY <1>10, AddColumnIsKept
<1>11. CASE DropColumn
  BY <1>11, DropColumnIsKept
<1>12. CASE RenameColumn
  BY <1>12, RenameIsKept
<1>13. CASE Reload
  BY <1>13, ReloadIsKept
<1> QED
  BY <1>1, <1>2, <1>3, <1>4, <1>5, <1>6, <1>7, <1>8, <1>9, <1>10, <1>11, <1>12, <1>13 DEF Next

\* The invariant the others follow from: the heap, the counters, every index
\* and every row are as TableOK says after whatever statements.
THEOREM TableInvariant == Spec => []TableInv
<1>1. Init => TableInv
  BY InitIsOK
<1>2. TableInv /\ [Next]_vars => TableInv'
  BY NextIsOK
<1> QED
  BY <1>1, <1>2, PTL DEF Spec

LEMMA LiveIsLive ==
    ASSUME NEW S, HeapIn(table.heap, S)
    PROVE  Live = LiveIn(table.heap)
<1>1. PICK scan : scan = HeapScan(table.heap)
  OBVIOUS
<1>2. Enumerates(scan, LiveIn(table.heap))
  BY <1>1, ScanIs
<1>3. DOMAIN scan = 1 .. Len(scan)
  BY <1>2 DEF Enumerates
<1>4. Live = {scan[i] : i \in DOMAIN scan}
  BY <1>1 DEF Live, ToSet
<1> QED
  BY <1>2, <1>3, <1>4 DEF Enumerates

(* The rows of a table that no statement has left half way *)
LEMMA UndamagedRows ==
    ASSUME TableInv, ~damaged, NEW r \in Live
    PROVE  HeapRead(table.heap, r) \in Kept(table.cols, table.check)
<1>1. PICK S : S = Allowed(table.cols, table.check, damaged)
  OBVIOUS
<1>2. HeapIn(table.heap, S)
  BY <1>1 DEF TableInv, TableOK, HeapOK
<1>3. r \in LiveIn(table.heap)
  BY <1>2, LiveIsLive
<1>4. HeapRead(table.heap, r) \in S
  BY <1>2, <1>3, LiveRow
<1> QED
  BY <1>1, <1>4 DEF Allowed

LEMMA TypeOKIs == TableInv => TypeOK
<1> SUFFICES ASSUME TableInv PROVE TypeOK
  OBVIOUS
<1>1. damaged \in BOOLEAN /\ last.ok \in BOOLEAN /\ TableOK(table, damaged)
  BY DEF TableInv
<1>2. PICK heap, cols, indexes : heap = table.heap /\ cols = table.cols /\ indexes = table.indexes
  OBVIOUS
<1>3. PICK S : HeapIn(heap, S) /\ Counted(heap)
  BY <1>1, <1>2 DEF TableOK, HeapOK
<1>4. heap.nlive \in Nat
  BY <1>3, LiveIsFinite DEF Counted
<1>5. heap.nslots \in Nat
  <2>1. Enumerates(Slots(heap), All(heap))
    BY <1>3, SlotsAre
  <2> QED
    BY <1>3, <2>1 DEF Enumerates, Counted
<1>6. ASSUME ~damaged, NEW r \in Live PROVE DOMAIN HeapRead(heap, r) = DOMAIN cols
  <2>1. PICK row : row = HeapRead(heap, r)
    OBVIOUS
  <2>2. row \in Kept(cols, table.check)
    BY <1>2, <1>6, <2>1, UndamagedRows
  <2>3. row \in Seq(Values) /\ Len(row) = Len(cols)
    BY <2>2 DEF Kept
  <2>4. DOMAIN cols = 1 .. Len(cols)
    BY <1>1, <1>2, SeqIs DEF TableOK, ColsOK
  <2> QED
    BY <2>1, <2>3, <2>4
<1>7. ASSUME NEW i \in DOMAIN indexes
      PROVE  indexes[i].slot \in DOMAIN cols /\ cols[indexes[i].slot].name = indexes[i].column
  BY <1>1, <1>2, <1>7 DEF TableOK, IndexesOK, IndexOK
<1> QED
  BY <1>1, <1>2, <1>4, <1>5, <1>6, <1>7 DEF TypeOK

\* Rows keep the width of the catalog entry and every index names the column
\* whose slot it reads, whatever ALTER TABLE and a reload did.
THEOREM TableIsTyped == Spec => []TypeOK
BY TableInvariant, TypeOKIs, PTL

LEMMA CountedIs == TableInv => HeapIsCounted
<1> SUFFICES ASSUME TableInv PROVE HeapIsCounted
  OBVIOUS
<1>1. PICK heap : heap = table.heap
  OBVIOUS
<1>2. PICK S : HeapOK(heap, S)
  BY <1>1 DEF TableInv, TableOK
<1>3. S \in SUBSET Seq(Values) /\ HeapIn(heap, S) /\ Counted(heap) /\ Roomy(heap)
  BY <1>2 DEF HeapOK
<1>4. Live = LiveIn(heap)
  BY <1>1, <1>3, LiveIsLive
<1>5. ASSUME NEW p \in DOMAIN heap.pages
      PROVE  \/ RoomTaken(heap.pages[p]) <= PageRoom
             \/ Len(heap.pages[p].slots) = 1 /\ RoomTaken(heap.pages[p]) <= PageRoom + Trailer
  <2>1. PICK page : page = heap.pages[p] /\ page.slots \in Seq(S \cup {Gone}) /\ page.free \in Int
    BY <1>3, PageFacts
  <2>2. RoomTaken(page) \in Nat
    BY <1>3, <2>1, RoomIsNat
  <2>3. Fitted(page)
    BY <1>3, <2>1 DEF Roomy
  <2> QED
    BY <2>1, <2>2, <2>3, RoomAssumption DEF Fitted
<1> QED
  BY <1>1, <1>3, <1>4, <1>5 DEF HeapIsCounted, Counted

\* The counters by which scans reserve their buffers are right after every
\* statement, also one that failed or stopped half way, and the records of a
\* page have room beside its slots; one that takes the trailer's room, as
\* heapInsert's comparison lets it, is alone on its page and reaches over
\* nothing but its own slot.
THEOREM HeapStaysCounted == Spec => []HeapIsCounted
BY TableInvariant, CountedIs, PTL

LEMMA PromisesAre == TableInv /\ DefaultsFit => RowsKeepPromises
<1> SUFFICES ASSUME TableInv, DefaultsFit, ~damaged, NEW c \in DOMAIN table.cols, NEW r \in Live
             PROVE  LET value == HeapRead(table.heap, r)[c]
                    IN IF value = NULL THEN ~table.cols[c].notNull
                       ELSE table.cols[c].size = 0 \/ Len(value) <= table.cols[c].size
  BY DEF RowsKeepPromises
<1>1. HeapRead(table.heap, r) \in Kept(table.cols, table.check)
  BY UndamagedRows
<1>2. Fits(table.cols[c], HeapRead(table.heap, r)[c])
  BY <1>1 DEF Kept
<1> QED
  BY <1>2 DEF Fits

\* NOT NULL and the length of a varchar hold of every row, however it came to
\* be there, when the defaults of added columns are such values.
THEOREM RowsArePromised == DefaultsFit /\ Spec => []RowsKeepPromises
<1>1. CASE DefaultsFit
  <2>1. TableInv => RowsKeepPromises
    BY <1>1, PromisesAre
  <2>2. Spec => []RowsKeepPromises
    BY <2>1, TableInvariant, PTL
  <2> QED
    BY <2>2
<1> QED
  BY <1>1

LEMMA ChecksAre == TableInv /\ ChecksKeepNames => CheckHolds
<1> SUFFICES ASSUME TableInv, ChecksKeepNames, ~damaged, table.check.cond # Always, NEW r \in Live
             PROVE  EvaluateCondition(table.check.cond, table.check.declared, HeapRead(table.heap, r)) # "false"
  BY DEF CheckHolds
<1>1. HeapRead(table.heap, r) \in Kept(table.cols, table.check)
  BY UndamagedRows
<1>2. Passes(table.check, HeapRead(table.heap, r))
  BY <1>1 DEF Kept
<1> QED
  BY <1>2 DEF Passes

\* No row is one the CHECK calls false, when no column the CHECK names is
\* renamed: the slots it is bound to again are those it was declared with.
THEOREM ChecksHold == ChecksKeepNames /\ Spec => []CheckHolds
<1>1. CASE ChecksKeepNames
  <2>1. TableInv => CheckHolds
    BY <1>1, ChecksAre
  <2>2. Spec => []CheckHolds
    BY <2>1, TableInvariant, PTL
  <2> QED
    BY <2>2
<1> QED
  BY <1>1

LEMMA EntriesAreOK == TableInv => EntriesAreSlots
<1> SUFFICES ASSUME TableInv, ~damaged, NEW i \in DOMAIN table.indexes,
                    NEW entries, entries = EntriesFrom(table.indexes[i].tree, LeftmostLeaf(table.indexes[i].tree))
             PROVE  /\ IsInjective([e \in DOMAIN entries |-> entries[e].row])
                    /\ \A e \in DOMAIN entries : entries[e].row \in ToSet(Slots(table.heap))
  BY DEF EntriesAreSlots
<1>1. PICK tree, heap, slots : tree = table.indexes[i].tree /\ heap = table.heap /\ slots = All(heap)
  OBVIOUS
<1>2. TreeOK(tree, slots, TRUE)
  <2>1. (~damaged) = TRUE
    BY DEF TableInv
  <2>2. IndexesOK(table.indexes, table.cols, slots, TRUE)
    BY <1>1, <2>1 DEF TableInv, TableOK
  <2> QED
    BY <1>1, <2>2 DEF IndexesOK, IndexOK
<1>3. LeftmostLeaf(tree) \in DOMAIN tree.nodes /\ tree.nodes[LeftmostLeaf(tree)].leaf
  BY <1>2, LeftmostIs DEF TreeOK
<1>4. EntriesAre(entries, slots, TRUE)
  BY <1>1, <1>2, <1>3, EntriesFromIs
<1>5. PICK S : HeapIn(heap, S)
  BY <1>1 DEF TableInv, TableOK, HeapOK
<1>6. PICK seq : seq = Slots(heap)
  OBVIOUS
<1>7. Enumerates(seq, slots)
  BY <1>1, <1>5, <1>6, SlotsAre
<1>8. DOMAIN seq = 1 .. Len(seq)
  BY <1>7 DEF Enumerates
<1>9. slots \subseteq ToSet(seq)
  BY <1>7, <1>8 DEF Enumerates, ToSet
<1>10. IsInjective([e \in DOMAIN entries |-> entries[e].row])
  BY <1>4 DEF EntriesAre, IsInjective
<1> QED
  BY <1>1, <1>4, <1>6, <1>9, <1>10 DEF EntriesAre

\* The leaves of an index have each slot of the heap at most once and no other.
THEOREM IndexEntriesAreSlots == Spec => []EntriesAreSlots
BY TableInvariant, EntriesAreOK, PTL

LEMMA SameRowCounts ==
    ASSUME NEW t, NEW u, RowsOf(t.heap) = RowsOf(u.heap)
    PROVE  Rows(t) = Rows(u)
BY DEF Rows

LEMMA StepKeepsRows ==
    ASSUME TableInv, [Next]_vars
    PROVE  [/\ last'.statement \in {"vacuum", "create index", "drop index", "reload"} => Rows(table') = Rows(table)
            /\ ~last'.ok /\ last'.statement \notin {"update", "alter", "create"} => Rows(table') = Rows(table)
            /\ last'.statement = "update" /\ ~damaged => table'.heap.nlive = table.heap.nlive]_vars
<1>1. CASE UNCHANGED vars
  BY <1>1
<1>2. CASE CreateTable
  BY <1>2, CreateTableIsKept
<1>3. CASE DropTable
  BY <1>3, DropTableIsKept
<1>4. CASE CreateIndex
  BY <1>4, CreateIndexIsKept, SameRowCounts
<1>5. CASE DropIndex
  BY <1>5, DropIndexIsKept, SameRowCounts
<1>6. CASE Insert
  BY <1>6, InsertIsKept, SameRowCounts
<1>7. CASE Update
  BY <1>7, UpdateIsKept
<1>8. CASE Delete
  BY <1>8, DeleteIsKept, SameRowCounts
<1>9. CASE Vacuum
  BY <1>9, VacuumIsKept, SameRowCounts
<1>10. CASE AddColumn
  BY <1>10, AddColumnIsKept
<1>11. CASE DropColumn
  BY <1>11, DropColumnIsKept
<1>12. CASE RenameColumn
  BY <1>12, RenameIsKept
<1>13. CASE Reload
  BY <1>13, ReloadIsKept, SameRowCounts
<1> QED
  BY <1>1, <1>2, <1>3, <1>4, <1>5, <1>6, <1>7, <1>8, <1>9, <1>10, <1>11, <1>12, <1>13 DEF Next

\* A statement that fails leaves the rows as they were, and so do VACUUM, the
\* index statements and a reload; UPDATE never loses or doubles a row.
THEOREM StatementsKeepRows == Spec => StatementKeepsRows
BY TableInvariant, StepKeepsRows, PTL DEF Spec, StatementKeepsRows
=============================================================================
