------------------------------ MODULE MCTable ------------------------------
(* Table.tla on small instances: one column, a second one by ALTER TABLE.  *)
EXTENDS Select, TLC

Plain(name) == Column(name, FALSE, FALSE, 0, NoDefault)

(* Texts of which two agree in their first character, all KeyMax keeps *)
A == <<1>>
AB == <<1, 2>>
B == <<2>>

(* Larger than a page takes; no row is between that and what fits *)
Long == [i \in 1 .. 9 |-> 1]

MCValues == {NULL, A, AB, B, Long}

MCInserts == {"a" :> A, "a" :> AB, "a" :> B, "b" :> A}

(* A column without promises, a UNIQUE one, and one with NOT NULL, a       *)
(* length and a CHECK                                                      *)
MCTables ==
  { [cols |-> <<Plain("a")>>, check |-> Always],
    [cols |-> <<Column("a", TRUE, FALSE, 0, NoDefault)>>, check |-> Always],
    [cols |-> <<Column("a", FALSE, TRUE, 1, A)>>, check |-> <<Compare("<", "a", B)>>],
    [cols |-> <<Column("a", FALSE, TRUE, 0, NULL)>>, check |-> Always] }

MCAdded == { Column("b", FALSE, TRUE, 0, B), Column("b", FALSE, TRUE, 0, NoDefault),
             Column("b", TRUE, FALSE, 0, NoDefault) }

(* The column of the CHECK keeps its name *)
MCRenamed == { <<"b", "c">>, <<"b", "a">> }

(* It does not, and rows are inserted under the new one *)
MCRenamedCheck == { <<"a", "c">> }
MCInsertsRenamed == {"a" :> A, "c" :> A, "c" :> B}

Next3(v) == CASE v = A -> AB [] v = AB -> B [] v = B -> A [] OTHER -> NULL

MCWheres == { Always, <<Compare(">", "a", A)>> }

MCUpdates == { <<SetTo("a", AB)>>, <<SetTo("a", Long)>>,
               <<SetBy("a", "a", [v \in MCValues |-> Next3(v)])>>,
               <<SetBy("b", "a", [v \in MCValues |-> v])>> }

MCPatterns == { <<AnyRun>>, <<1, AnyRun>>, <<1, 2, AnyRun>>, <<AnyRun, 2>>, <<AnyOne>>,
                <<AnyRun, AnyOne, AnyRun>>, <<>> }

MCQueries ==
  { <<Compare(op, "a", v)>> : op \in {"=", "<"}, v \in {A, AB, B} }
  \cup { <<Compare("like", "a", p)>> : p \in {<<1, AnyRun>>, <<1, 2, AnyRun>>, <<AnyRun, 2>>} }
  \cup { <<Compare(">=", "a", AB)>>, <<Compare("<=", "a", A)>>, <<Compare(">", "a", A)>>,
         <<Compare("=", "a", NULL)>>,
         <<In("a", {A, NULL}), Not(1)>>,
         <<Compare("=", "a", A), Compare("=", "a", B), Or(1, 2)>>,
         <<Compare("is not null", "a", NULL), Compare(">=", "a", AB), And(1, 2)>>,
         <<Compare("<", "b", B), Compare(">", "a", A), And(1, 2)>> }

(* A hash under which two of the three texts, and NULL, collide *)
MCHash(v) == CASE v = NULL -> 1 [] v # NULL -> Len(v)

Qa == <<1, "a">>
Ra == <<2, "a">>

NoOn == <<Always, Always>>
Inner(where) == Query(2, <<FALSE, FALSE>>, NoOn, where)
LeftJoin(on, where) == Query(2, <<FALSE, TRUE>>, <<Always, on>>, where)

MCSelects ==
  { Inner(<<CompareColumns("=", Qa, Ra)>>),
    Inner(<<CompareColumns("=", Ra, Qa), Compare(">=", Qa, AB), And(1, 2)>>),
    Inner(<<CompareColumns("=", Qa, Ra), Compare("=", Ra, B), Or(1, 2)>>),
    Inner(<<Compare("<", Qa, B), CompareColumns("=", Qa, Ra), CompareColumns("<=", Qa, Ra),
            And(2, 3), And(1, 4)>>),
    LeftJoin(<<CompareColumns("<", Qa, Ra)>>, Always),
    LeftJoin(<<CompareColumns("=", Qa, Ra), Compare("<", Ra, B), And(1, 2)>>,
             <<Compare("is null", Ra, NULL)>>) }
  \cup { [Query(1, <<FALSE>>, <<Always>>, Always) EXCEPT !.distinct = d, !.limit = l, !.order = o] :
           d \in BOOLEAN, l \in {0, 1, 3}, o \in {<<>>, <<[slot |-> 1, descending |-> TRUE]>>} }
  \cup { [Inner(<<CompareColumns("<=", Ra, Qa)>>) EXCEPT !.items = <<Item(2), Item(1)>>, !.limit = l,
             !.order = <<[slot |-> 2, descending |-> TRUE], [slot |-> 1, descending |-> FALSE]>>] :
           l \in {2, 4} }
  \cup { [LeftJoin(<<CompareColumns("<", Qa, Ra)>>, Always) EXCEPT !.items = <<Item(1)>>, !.distinct = TRUE,
             !.limit = 2, !.order = <<[slot |-> 1, descending |-> FALSE]>>] }
  \cup { [Query(1, <<FALSE>>, <<Always>>, Always) EXCEPT !.groupBy = g,
             !.items = <<CountStar, Aggregate("count", 1), Aggregate("min", 1), Aggregate("max", 1)>>] :
           g \in {<<>>, <<1>>} }
  \cup { [LeftJoin(<<CompareColumns("<", Qa, Ra)>>, Always) EXCEPT !.groupBy = <<2>>, !.limit = 2,
             !.items = <<Aggregate("max", 1), Item(2), CountStar>>,
             !.having = <<Compare("is not null", 1, NULL)>>,
             !.order = <<[slot |-> 1, descending |-> TRUE]>>] }

(* What the last statement was only matters to the step it took *)
View == <<table, damaged>>

(* What follows damage the code cannot undo is not explored.  Heaps of more *)
(* than three slots, which is where an internal node splits, have no       *)
(* tombstone; tables of two columns stay small.                            *)
Bounded ==
  /\ Sound
  /\ table.heap.nslots > 3 => table.heap.nlive = table.heap.nslots
  /\ Len(table.cols) > 1 => table.heap.nslots <= 2
=============================================================================
