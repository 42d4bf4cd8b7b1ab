------------------------------- MODULE Select -------------------------------
(***************************************************************************)
(* What a SELECT answers: joins, GROUP BY, DISTINCT, ORDER BY and LIMIT, as *)
(* 06_executor.c computes them - a hash join where an equality allows it,  *)
(* hashed groups, a heap of the best rows where LIMIT discards most, rows  *)
(* moved in place - over the heap of module Table.  Nothing here changes   *)
(* any state but the thread's scratch: the properties say that what the    *)
(* shortcuts answer is what the plain reading of the statement does.       *)
(*                                                                         *)
(* A table is joined with itself under aliases, which are the positions in *)
(* the FROM list.  A value's hash is an operator that may collide.         *)
(***************************************************************************)
EXTENDS Table

CONSTANTS
  HashValue(_),   \* hashValue of a value
  LeastBuckets,   \* the smallest bucket array of a join, and of a grouping
  Selects         \* the statements the properties try

Item(slot) == [aggregate |-> "none", slot |-> slot]
Aggregate(name, slot) == [aggregate |-> name, slot |-> slot]
CountStar == Aggregate("count", 0)

(* A statement on n tables: where is over all of their columns, on[t] of an *)
(* outer join over those of the tables up to t.  Items and GROUP BY name   *)
(* slots of the joined row, HAVING and ORDER BY items; limit is -1 for     *)
(* none.                                                                   *)
Query(n, outer, on, where) ==
  [n |-> n, outer |-> outer, on |-> on, where |-> where,
   items |-> <<Item(1)>>, groupBy |-> <<>>, having |-> Always,
   distinct |-> FALSE, order |-> <<>>, limit |-> -1]

Grouped(select) ==
  select.groupBy # <<>> \/ \E i \in DOMAIN select.items : select.items[i].aggregate # "none"

(* The flattened schema: the columns of each table, qualified *)
JoinSchema(cols, n) ==
  FlattenSeq([t \in 1 .. n |-> [c \in DOMAIN cols |-> [cols[c] EXCEPT !.name = <<t, @>>]]])

Holds(cond, bound, row) == cond # Always => EvaluateCondition(cond, bound, row) = "true"

-----------------------------------------------------------------------------
(* The nested loops *)

(* One prefix against one table.  An outer join keeps a prefix its ON pairs *)
(* with nothing, completed with NULLs.                                     *)
Paired(prefix, partners, outer, width) ==
  IF outer /\ partners = <<>> THEN << prefix \o [c \in 1 .. width |-> NULL] >>
  ELSE [i \in DOMAIN partners |-> prefix \o partners[i]]

JoinTables(select, schema, rows, width) ==
  LET bound == ResolveCondition(schema, select.where)
      bounds == [t \in 1 .. select.n |-> ResolveCondition(schema, select.on[t])]
      Level(prefix, t) ==
        Paired(prefix, SelectSeq(rows, LAMBDA row : Holds(select.on[t], bounds[t], prefix \o row)),
               select.outer[t], width)
      Deepen(prefixes, t) == FlattenSeq([i \in DOMAIN prefixes |-> Level(prefixes[i], t)])
  IN SelectSeq(FoldLeft(Deepen, << <<>> >>, [t \in 1 .. select.n |-> t]),
               LAMBDA row : Holds(select.where, bound, row))

-----------------------------------------------------------------------------
(* Open addressing: a number is in the bucket of its hash or in the run of *)
(* used buckets after it; an unused bucket holds 0.  The array is never    *)
(* smaller than the last statement of the thread needed.                   *)

BucketsFor(least, count, had) ==
  LET Doubled[n \in Nat] == IF n < 2 * count THEN Doubled[2 * n] ELSE n
      size == IF Doubled[least] > had THEN Doubled[least] ELSE had
  IN [b \in 0 .. size - 1 |-> 0]

(* The buckets looked at for a hash, the first unused one the last *)
Probe(buckets, hash) ==
  LET size == Cardinality(DOMAIN buckets)
      Walk[at \in DOMAIN buckets] ==
        IF buckets[at] = 0 THEN <<at>> ELSE <<at>> \o Walk[(at + 1) % size]
  IN Walk[hash % size]

Put(buckets, hash, number) == [buckets EXCEPT ![Last(Probe(buckets, hash))] = number]

(* The numbers met on the way *)
Met(buckets, hash) ==
  LET run == Probe(buckets, hash) IN [i \in 1 .. Len(run) - 1 |-> buckets[run[i]]]

-----------------------------------------------------------------------------
(* The hash join *)

\* (mutant) one side of an OR is taken for what the whole condition needs
EitherSide(kind) == kind \in {"and", "or"}

OnSpine(kind) == kind = "and"

(* The slots of an equality between the two tables that the condition      *)
(* cannot be true without                                                  *)
FindEquiJoin(cond, schema, split) ==
  LET bound == ResolveCondition(schema, cond)
      Find[n \in DOMAIN cond] ==
        LET node == cond[n]
            sides == {bound[node.column], bound[node.right]}
            left == Find[node.left]
        IN CASE node.kind = "compare" ->
                  IF /\ node.op = "=" /\ node.right # NULL
                     /\ \E s \in sides : s <= split
                     /\ \E s \in sides : s > split
                  THEN << CHOOSE s \in sides : s <= split, (CHOOSE s \in sides : s > split) - split >>
                  ELSE <<>>
             [] node.kind # "compare" /\ OnSpine(node.kind) ->
                  IF left # <<>> THEN left ELSE Find[node.right]
             [] OTHER -> <<>>
  IN IF cond = Always THEN <<>> ELSE Find[Len(cond)]

(* The second table's rows under their key, then the first table's rows in *)
(* order, each with those under its own.  A NULL key pairs with nothing,   *)
(* and every pair is put through the whole WHERE.                          *)
HashJoin(select, schema, rows, key, had) ==
  LET bound == ResolveCondition(schema, select.where)
      entries == SelectSeq(rows, LAMBDA row : row[key[2]] # NULL)
      buckets == FoldLeft(LAMBDA b, e : Put(b, HashValue(entries[e][key[2]]), e),
                          BucketsFor(LeastBuckets, Len(entries), had), [e \in DOMAIN entries |-> e])
      Partners(value) ==
        SelectSeq(Met(buckets, HashValue(value)), LAMBDA e : entries[e][key[2]] = value)
      Pairs(row) ==
        LET partners == IF row[key[1]] = NULL THEN <<>> ELSE Partners(row[key[1]])
        IN SelectSeq([i \in DOMAIN partners |-> row \o entries[partners[i]]],
                     LAMBDA joined : Holds(select.where, bound, joined))
  IN FlattenSeq([i \in DOMAIN rows |-> Pairs(rows[i])])

(* The rows the statement is about, whether one table's or a join's.  An   *)
(* outer join always takes the nested loops.                               *)
BuildJoin(select, cols, rows, had) ==
  LET schema == JoinSchema(cols, select.n)
      outer == \E t \in 1 .. select.n : select.outer[t]
      key == FindEquiJoin(select.where, schema, Len(cols))
  IN IF select.n = 2 /\ ~outer /\ key # <<>>
     THEN HashJoin(select, schema, rows, key, had)
     ELSE JoinTables(select, schema, rows, Len(cols))

-----------------------------------------------------------------------------
(* GROUP BY: one group for each key, NULLs alike, in the order they were   *)
(* first met; the bucket array doubles before it is two thirds full        *)

HashRow(row) == FoldLeft(LAMBDA hash, value : 2 * hash + HashValue(value), 0, row)

Key(select, row) == [k \in DOMAIN select.groupBy |-> row[select.groupBy[k]]]

(* An aggregate so far: NULLs count for nothing but count( * ) *)
Accumulate(acc, item, row) ==
  LET value == row[item.slot]
      Better == \/ ~acc.seen
                \/ item.aggregate = "min" /\ Before(value, acc.extreme)
                \/ item.aggregate = "max" /\ Before(acc.extreme, value)
  IN CASE item.aggregate = "none" -> acc
       [] item = CountStar -> [acc EXCEPT !.count = @ + 1, !.seen = TRUE]
       [] item \notin {Item(item.slot), CountStar} /\ value = NULL -> acc
       [] OTHER -> [count |-> acc.count + 1, seen |-> TRUE,
                    extreme |-> IF item.aggregate \in {"min", "max"} /\ Better THEN value
                                ELSE acc.extreme]

NewGroup(select, key) ==
  [key |-> key, accs |-> [i \in DOMAIN select.items |-> [count |-> 0, seen |-> FALSE, extreme |-> NULL]]]

(* Every group put again, in an array twice the size *)
Rehash(grouping) ==
  [grouping EXCEPT !.buckets =
     FoldLeft(LAMBDA b, g : Put(b, HashRow(grouping.groups[g].key), g),
              [b \in 0 .. 2 * Cardinality(DOMAIN @) - 1 |-> 0], [g \in DOMAIN grouping.groups |-> g])]

Crowded(grouping) == (Len(grouping.groups) + 1) * 3 >= Cardinality(DOMAIN grouping.buckets) * 2

AddGroup(select, grouping, key) ==
  LET Added(ready) ==
        [groups |-> Append(ready.groups, NewGroup(select, key)),
         buckets |-> Put(ready.buckets, HashRow(key), Len(ready.groups) + 1)]
  IN Added(IF Crowded(grouping) THEN Rehash(grouping) ELSE grouping)

(* One row into its group, a new one when its key has none *)
GroupRow(select, grouping, row) ==
  LET key == Key(select, row)
      Same(g) == grouping.groups[g].key = key
      found == SelectSeq(Met(grouping.buckets, HashRow(key)), Same)
      Into(ready, g) ==
        [ready EXCEPT !.groups[g].accs =
           [i \in DOMAIN @ |-> Accumulate(@[i], select.items[i], row)]]
  IN IF found # <<>> THEN Into(grouping, Head(found))
     ELSE Into(AddGroup(select, grouping, key), Len(grouping.groups) + 1)

GroupItem(select, group, i) ==
  LET item == select.items[i]
      at == CHOOSE k \in DOMAIN select.groupBy : select.groupBy[k] = item.slot
  IN CASE item.aggregate = "none" -> group.key[at]
       [] item.aggregate = "count" -> group.accs[i].count
       [] OTHER -> group.accs[i].extreme

(* Aggregates over no rows are one row, unless there is a GROUP BY.  HAVING *)
(* is about the items, and drops whole groups.                             *)
ProjectGroups(select, rows, had) ==
  LET Into(grouping, row) == GroupRow(select, grouping, row)
      all == FoldLeft(Into, [groups |-> <<>>, buckets |-> BucketsFor(LeastBuckets, 0, had)], rows)
      groups == IF all.groups = <<>> /\ select.groupBy = <<>> THEN << NewGroup(select, <<>>) >>
                ELSE all.groups
      out == [g \in DOMAIN groups |-> [i \in DOMAIN select.items |-> GroupItem(select, groups[g], i)]]
  IN SelectSeq(out, LAMBDA row : Holds(select.having, [i \in DOMAIN select.items |-> i], row))

-----------------------------------------------------------------------------
(* DISTINCT: a row stays when no row kept before it is the same *)

ApplyDistinct(rows, had) ==
  LET Keep(done, row) ==
        IF \E k \in ToSet(Met(done.buckets, HashRow(row))) : done.kept[k] = row THEN done
        ELSE [kept |-> Append(done.kept, row),
              buckets |-> Put(done.buckets, HashRow(row), Len(done.kept) + 1)]
  IN FoldLeft(Keep, [kept |-> <<>>, buckets |-> BucketsFor(1, Len(rows), had)], rows).kept

-----------------------------------------------------------------------------
(* ORDER BY and LIMIT *)

(* Not the WHERE's order: here NULL is a value, and comes first *)
OrderBefore(a, b) == b # NULL /\ (a = NULL \/ Before(a, b))

(* Row i of the result goes before row j: the first term that tells them   *)
(* apart decides, ties keep the order they arrived in                      *)
SortBefore(order, rows, i, j) ==
  LET apart == {t \in DOMAIN order : rows[i][order[t].slot] # rows[j][order[t].slot]}
      term == order[CHOOSE t \in apart : \A u \in apart : t <= u]
  IN IF apart = {} THEN i < j
     ELSE IF term.descending THEN OrderBefore(rows[j][term.slot], rows[i][term.slot])
     ELSE OrderBefore(rows[i][term.slot], rows[j][term.slot])

(* The place of each row in the order.  The sort and the heap only compare *)
(* rows, so that is all they are given.                                    *)
Ranks(order, rows) ==
  [i \in DOMAIN rows |-> Cardinality({j \in DOMAIN rows : SortBefore(order, rows, j, i)})]

(* qsort *)
Sorted(numbers, rank) ==
  [k \in 1 .. Cardinality(numbers) |->
     CHOOSE i \in numbers : Cardinality({j \in numbers : rank[j] < rank[i]}) = k - 1]

(* keys[at] goes down the heap, whose root is the last of its rows *)
SiftDown(keys, at, rank) ==
  LET Down[s \in [keys : Seq(Nat), at : Nat]] ==
        LET family == {s.at, 2 * s.at, 2 * s.at + 1} \cap DOMAIN keys
            worst == CHOOSE i \in family : \A j \in family : rank[s.keys[j]] <= rank[s.keys[i]]
        IN IF worst = s.at THEN s.keys
           ELSE Down[[keys |-> [s.keys EXCEPT ![s.at] = s.keys[worst], ![worst] = s.keys[s.at]],
                      at |-> worst]]
  IN Down[[keys |-> keys, at |-> at]]

(* The numbers of the first `wanted` rows, as the heap leaves them *)
BestOf(wanted, rank) ==
  LET Offer(keys, row) ==
        IF rank[row] < rank[keys[1]] THEN SiftDown([keys EXCEPT ![1] = row], 1, rank) ELSE keys
      Heapify(keys, at) == SiftDown(keys, at, rank)
      heap == FoldLeft(Heapify, [k \in 1 .. wanted |-> k], Reverse([k \in 1 .. wanted \div 2 |-> k]))
  IN FoldLeft(Offer, heap, [k \in 1 .. Len(rank) - wanted |-> wanted + k])

\* (mutant) the kept rows are moved in the order the heap left them
HeapOrder(kept) == kept

InArrivalOrder(kept) == Sorted(ToSet(kept), [k \in 1 .. Max(ToSet(kept)) |-> k])

(* The best rows are moved to the front, in place *)
SelectTop(rows, wanted, rank) ==
  LET kept == InArrivalOrder(BestOf(wanted, rank))
      Move(moved, to) == [moved EXCEPT ![to] = moved[kept[to]]]
  IN SubSeq(FoldLeft(Move, rows, [k \in 1 .. wanted |-> k]), 1, wanted)

(* Row from[i] to place i, in place: each cycle of from is followed once, *)
(* with one spare row, and what it has placed is settled                   *)
Permute(rows, from) ==
  LET Turn(done, i) ==
        LET Orbit[at \in DOMAIN rows] ==
              IF done.from[at] = i THEN <<at>> ELSE <<at>> \o Orbit[done.from[at]]
            orbit == Orbit[i]
            Place(placed, m) ==
              [placed EXCEPT ![orbit[m]] =
                 IF m = Len(orbit) THEN done.rows[i] ELSE placed[orbit[m + 1]]]
        IN [rows |-> FoldLeft(Place, done.rows, [m \in DOMAIN orbit |-> m]),
            from |-> [at \in DOMAIN rows |-> IF at \in ToSet(orbit) THEN at ELSE done.from[at]]]
  IN FoldLeft(Turn, [rows |-> rows, from |-> from], [i \in DOMAIN rows |-> i]).rows

ApplyOrder(select, rows) ==
  LET discards == select.limit >= 0 /\ select.limit < Len(rows)
      top == IF discards THEN SelectTop(rows, select.limit, Ranks(select.order, rows)) ELSE rows
  IN CASE select.order = <<>> -> rows
       [] select.order # <<>> /\ discards /\ select.limit = 0 -> <<>>
       [] OTHER -> Permute(top, Sorted(DOMAIN top, Ranks(select.order, top)))

ApplyLimit(rows, limit) ==
  IF limit >= 0 /\ limit < Len(rows) THEN SubSeq(rows, 1, limit) ELSE rows

Project(select, rows) ==
  [r \in DOMAIN rows |-> [i \in DOMAIN select.items |-> rows[r][select.items[i].slot]]]

(* The stages over the rows of the join.  A LIMIT stops the scan itself    *)
(* only when nothing after it chooses rows; LIMIT 0 never does.            *)
Answer(select, joined, had) ==
  LET stops == select.limit > 0 /\ select.order = <<>> /\ ~select.distinct /\ ~Grouped(select)
      After(rows, stage) ==
        CASE stage = "collect" -> IF stops THEN ApplyLimit(rows, select.limit) ELSE rows
          [] stage = "project" -> IF Grouped(select) THEN ProjectGroups(select, rows, had)
                                  ELSE Project(select, rows)
          [] stage = "distinct" -> IF select.distinct THEN ApplyDistinct(rows, had) ELSE rows
          [] stage = "order" -> ApplyOrder(select, rows)
          [] stage = "limit" -> ApplyLimit(rows, select.limit)
  IN FoldLeft(After, joined, <<"collect", "project", "distinct", "order", "limit">>)

-----------------------------------------------------------------------------
(* Properties *)

Tally(rows) == [row \in ToSet(rows) |-> Cardinality({i \in DOMAIN rows : rows[i] = row})]

(* A statement only reads what a scan of the heap gives, so a table without *)
(* indexes, tombstones and promises stands for every one with its rows.    *)
RowsAlone ==
  /\ Sound /\ Exists
  /\ table.indexes = <<>> /\ table.check.cond = Always
  /\ table.heap.nlive = table.heap.nslots
  /\ \A c \in DOMAIN table.cols : ~table.cols[c].unique /\ ~table.cols[c].notNull

(* "The hash decides what to look at, never what the answer is": a join of *)
(* two tables gives each pair of rows its ON and WHERE are true of once,   *)
(* and an outer one each row without a partner once, whichever way it is   *)
(* computed; the order is that of the nested loops when the second table's *)
(* keys differ.                                                            *)
JoinsFindEveryPair ==
  RowsAlone => \A select \in {s \in Selects : s.n = 2}, had \in {0, 4 * LeastBuckets} :
    LET rows == RowsOf(table.heap)
        schema == JoinSchema(table.cols, 2)
        on == ResolveCondition(schema, select.on[2])
        where == ResolveCondition(schema, select.where)
        On(row) == Holds(select.on[2], on, row)
        Where(row) == Holds(select.where, where, row)
        nulls == [c \in DOMAIN table.cols |-> NULL]
        pairs == {p \in (DOMAIN rows) \X (DOMAIN rows) :
                    On(rows[p[1]] \o rows[p[2]]) /\ Where(rows[p[1]] \o rows[p[2]])}
        alone == {i \in DOMAIN rows : /\ select.outer[2]
                                      /\ \A j \in DOMAIN rows : ~On(rows[i] \o rows[j])
                                      /\ Where(rows[i] \o nulls)}
        joined == BuildJoin(select, table.cols, rows, had)
    IN /\ Tally(joined) =
            [row \in {rows[p[1]] \o rows[p[2]] : p \in pairs} \cup {rows[i] \o nulls : i \in alone} |->
               Cardinality({p \in pairs : rows[p[1]] \o rows[p[2]] = row})
               + Cardinality({i \in alone : rows[i] \o nulls = row})]
       /\ IsInjective(rows) => joined = JoinTables(select, schema, rows, Len(table.cols))

(* What GROUP BY is to give: for each key, in the order of its first row,  *)
(* the aggregates over the rows that have it                               *)
GroupsOf(select, rows) ==
  LET firsts == SelectSeq([i \in DOMAIN rows |-> i],
                  LAMBDA i : \A j \in 1 .. i - 1 : Key(select, rows[j]) # Key(select, rows[i]))
      Of(members, item) ==
        LET values == {rows[i][item.slot] : i \in members} \ {NULL}
        IN CASE item = CountStar -> Cardinality(members)
             [] item.aggregate = "none" -> rows[CHOOSE i \in members : TRUE][item.slot]
             [] item # CountStar /\ item.aggregate = "count" ->
                  Cardinality({i \in members : rows[i][item.slot] # NULL})
             [] item.aggregate \in {"min", "max"} /\ values = {} -> NULL
             [] item.aggregate = "min" /\ values # {} ->
                  CHOOSE v \in values : \A w \in values : ~Before(w, v)
             [] item.aggregate = "max" /\ values # {} ->
                  CHOOSE v \in values : \A w \in values : ~Before(v, w)
      Row(members) == [i \in DOMAIN select.items |-> Of(members, select.items[i])]
      out == IF firsts = <<>> /\ select.groupBy = <<>> THEN << Row({}) >>
             ELSE [g \in DOMAIN firsts |->
                     Row({i \in DOMAIN rows : Key(select, rows[i]) = Key(select, rows[firsts[g]])})]
  IN SelectSeq(out, LAMBDA row : Holds(select.having, [i \in DOMAIN select.items |-> i], row))

(* The answer is the rows of the join, or their groups, as they arrived,   *)
(* without those that DISTINCT drops, in the order of the ORDER BY with    *)
(* ties as they arrived, cut off at the LIMIT: it "must agree with the     *)
(* same query without the limit" (tests/26_join_and_limit.sql).            *)
AnswersAreSQL ==
  RowsAlone => \A select \in Selects, had \in {0, 4 * LeastBuckets} :
    \A joined \in {BuildJoin(select, table.cols, RowsOf(table.heap), had)} :
      \A arrived \in {IF Grouped(select) THEN GroupsOf(select, joined) ELSE Project(select, joined)},
         answer \in {Answer(select, joined, had)} :
        LET kept == {i \in DOMAIN arrived :
                       select.distinct => \A j \in 1 .. i - 1 : arrived[j] # arrived[i]}
            Rank(i) == Cardinality({j \in kept : SortBefore(select.order, arrived, j, i)})
        IN /\ Len(answer) = IF select.limit \in 0 .. Cardinality(kept) THEN select.limit
                            ELSE Cardinality(kept)
           /\ \A i \in kept : \A rank \in {Rank(i)} :
                rank < Len(answer) => answer[rank + 1] = arrived[i]
=============================================================================
