--------------------------- MODULE DatabasesProofs ---------------------------
(***************************************************************************)
(* What Databases.tla guarantees for every number of slots, sessions, names *)
(* and tables.                                                             *)
(***************************************************************************)
EXTENDS Databases, FiniteSetTheorems, WellFoundedInduction, TLAPS

-----------------------------------------------------------------------------
(* Numbers *)

\* A set of natural numbers that is not empty has a least element.
LEMMA SmallestIs ==
    ASSUME NEW S \in SUBSET Nat, S # {}
    PROVE  \E x \in S : \A y \in S : x <= y
<1>1. PICK x \in S : \A y \in S : ~(<<y, x>> \in OpToRel(<, Nat))
  BY WFMin, NatLessThanWellFounded
<1>2. \A y \in S : x <= y
  <2> TAKE y \in S
  <2>1. y \in Nat /\ x \in Nat
    OBVIOUS
  <2>2. ~(y < x)
    <3> SUFFICES ASSUME y < x PROVE FALSE
      OBVIOUS
    <3>1. <<y, x>> \in Nat \X Nat /\ <<y, x>>[1] < <<y, x>>[2]
      BY <2>1
    <3>2. <<y, x>> \in {ss \in Nat \X Nat : ss[1] < ss[2]}
      BY <3>1
    <3> QED
      BY <1>1, <3>2 DEF OpToRel
  <2> QED
    BY <2>1, <2>2
<1> QED
  BY <1>2

\* What holds at 0 and of each number after one it holds of, holds up to n.
LEMMA Upwards ==
    ASSUME NEW n \in Nat, NEW S \in SUBSET (0 .. n), 0 \notin S,
           \A k \in 1 .. n : k \in S => k - 1 \in S
    PROVE  S = {}
<1> SUFFICES ASSUME S # {} PROVE FALSE
  OBVIOUS
<1>1. S \in SUBSET Nat
  OBVIOUS
<1>2. PICK k \in S : \A m \in S : k <= m
  BY <1>1, SmallestIs
<1>3. k \in 1 .. n
  <2>1. k \in 0 .. n /\ k # 0
    OBVIOUS
  <2> QED
    BY <2>1
<1>4. k - 1 \in S /\ ~(k <= k - 1)
  BY <1>3
<1> QED
  BY <1>2, <1>4

\* And the community modules' Max is the greatest of a bounded one.
LEMMA MaxIs ==
    ASSUME NEW n \in Nat, NEW s \in SUBSET (1 .. n), s # {}
    PROVE  Max(s) \in s /\ \A y \in s : Max(s) >= y
<1> DEFINE Below == {n - x : x \in s}
<1>1. Below \in SUBSET Nat /\ Below # {}
  <2>1. \A x \in s : n - x \in Nat
    <3> TAKE x \in s
    <3>1. x \in 1 .. n
      OBVIOUS
    <3> QED
      BY <3>1
  <2> QED
    BY <2>1
<1>2. PICK d \in Below : \A e \in Below : d <= e
  BY <1>1, SmallestIs
<1>3. PICK x \in s : d = n - x
  BY <1>2
<1>4. \A y \in s : x >= y
  <2> TAKE y \in s
  <2>1. n - y \in Below /\ y \in 1 .. n /\ x \in 1 .. n
    OBVIOUS
  <2> QED
    BY <1>2, <1>3, <2>1
<1> QED
  BY <1>3, <1>4 DEF Max

LEMMA FirstOnes ==
    ASSUME NEW n \in Nat, NEW k \in 1 .. n
    PROVE  /\ 1 .. k \in SUBSET (1 .. n) /\ 1 .. k # {}
           /\ (1 .. k) \ {k} = 1 .. k - 1
           /\ Max(1 .. k) = k
<1>1. k \in Nat /\ 1 <= k /\ k <= n /\ k \in 1 .. k
  OBVIOUS
<1>2. \A i \in 1 .. k : i \in 1 .. n
  BY <1>1
<1>3. (1 .. k) \ {k} = 1 .. k - 1
  BY <1>1
<1>4. PICK s \in SUBSET (1 .. k) : s = 1 .. k /\ s # {}
  BY <1>1
<1>5. Max(s) \in s /\ \A y \in s : Max(s) >= y
  BY <1>1, <1>4, MaxIs
<1>6. PICK m \in 1 .. k : m = Max(1 .. k) /\ m >= k
  BY <1>1, <1>4, <1>5
<1>7. m = k
  BY <1>1, <1>6
<1> QED
  BY <1>1, <1>2, <1>3, <1>6, <1>7

-----------------------------------------------------------------------------
(* Folds *)

\* The function that a fold from the left defines by recursion over the sets of
\* the positions it has come to, for a step g.
IsFold(iter, n, base, seq, g) ==
    \A s \in SUBSET (1 .. n) :
        iter[s] = IF s = {} THEN base ELSE g[<<iter[s \ {Max(s)}], seq[Max(s)]>>]

\* Such a function exists.
LEMMA FoldExists ==
    ASSUME NEW State, NEW T, NEW base \in State, NEW n \in Nat, NEW seq,
           \A i \in 1 .. n : seq[i] \in T, NEW g \in [State \X T -> State]
    PROVE  \E iter \in [SUBSET (1 .. n) -> State] : IsFold(iter, n, base, seq, g)
<1> DEFINE Has(m) == \E iter \in [SUBSET (1 .. m) -> State] : IsFold(iter, m, base, seq, g)
           S == {m \in 0 .. n : ~Has(m)}
<1> SUFFICES ASSUME S # {} PROVE FALSE
  <2>1. SUFFICES Has(n)
    OBVIOUS
  <2> HIDE DEF Has
  <2> QED
    OBVIOUS
<1>1. S \in SUBSET Nat
  OBVIOUS
<1>2. PICK m \in S : \A k \in S : m <= k
  BY <1>1, SmallestIs
<1>3. m # 0
  <2> DEFINE iter == [s \in SUBSET (1 .. 0) |-> base]
  <2>1. \A s \in SUBSET (1 .. 0) : s = {}
    OBVIOUS
  <2>2. iter \in [SUBSET (1 .. 0) -> State] /\ IsFold(iter, 0, base, seq, g)
    BY <2>1 DEF IsFold
  <2> QED
    BY <2>2
<1>4. m \in 1 .. n /\ m - 1 \in 0 .. n /\ ~(m <= m - 1)
  BY <1>3
<1>5. Has(m - 1)
  BY <1>2, <1>4
<1>6. PICK before \in [SUBSET (1 .. m - 1) -> State] : IsFold(before, m - 1, base, seq, g)
  BY <1>5
<1> HIDE DEF Has
<1> DEFINE after == [s \in SUBSET (1 .. m) |->
                       IF m \in s THEN g[<<before[s \ {m}], seq[m]>>] ELSE before[s]]
<1>7. ASSUME NEW s \in SUBSET (1 .. m), m \notin s
      PROVE  s \in SUBSET (1 .. m - 1)
  BY <1>4, <1>7
<1>8. after \in [SUBSET (1 .. m) -> State]
  <2> SUFFICES ASSUME NEW s \in SUBSET (1 .. m)
               PROVE  (IF m \in s THEN g[<<before[s \ {m}], seq[m]>>] ELSE before[s]) \in State
    OBVIOUS
  <2>1. CASE m \in s
    <3>1. s \ {m} \in SUBSET (1 .. m - 1)
      BY <1>7
    <3> QED
      BY <2>1, <3>1, <1>4
  <2>2. CASE m \notin s
    BY <2>2, <1>7
  <2> QED
    BY <2>1, <2>2
<1>9. IsFold(after, m, base, seq, g)
  <2> SUFFICES ASSUME NEW s \in SUBSET (1 .. m)
               PROVE  after[s] = IF s = {} THEN base
                                 ELSE g[<<after[s \ {Max(s)}], seq[Max(s)]>>]
    BY DEF IsFold
  <2>1. CASE m \in s
    <3>1. Max(s) = m
      <4>1. m \in Nat
        BY <1>4
      <4>2. Max(s) \in s /\ Max(s) >= m
        BY <2>1, <4>1, MaxIs
      <4>3. Max(s) \in 1 .. m
        BY <4>2
      <4> QED
        BY <4>1, <4>2, <4>3
    <3>2. s \ {m} \in SUBSET (1 .. m) /\ m \notin s \ {m}
      OBVIOUS
    <3>3. after[s \ {m}] = before[s \ {m}]
      BY <3>2
    <3> HIDE DEF after
    <3>4. after[s] = g[<<before[s \ {m}], seq[m]>>]
      BY <2>1 DEF after
    <3> QED
      BY <2>1, <3>1, <3>3, <3>4
  <2>2. CASE m \notin s /\ s = {}
    <3>1. {} \in SUBSET (1 .. m - 1)
      OBVIOUS
    <3> QED
      BY <2>2, <3>1, <1>6 DEF IsFold
  <2>3. CASE m \notin s /\ s # {}
    <3>1. s \in SUBSET (1 .. m - 1)
      BY <1>7, <2>3
    <3> DEFINE r == s \ {Max(s)}
    <3>2. r \in SUBSET (1 .. m) /\ m \notin r
      BY <2>3
    <3>3. after[r] = before[r] /\ after[s] = before[s]
      BY <3>2, <2>3
    <3>4. before[s] = g[<<before[r], seq[Max(s)]>>]
      BY <3>1, <2>3, <1>6 DEF IsFold
    <3> QED
      BY <2>3, <3>3, <3>4
  <2> QED
    BY <2>1, <2>2, <2>3
<1>10. Has(m)
  BY <1>8, <1>9 DEF Has
<1> QED
  BY <1>2, <1>10

-----------------------------------------------------------------------------
(* Sequences of a set's elements *)

\* SetToSeq lists every element of a finite set, each once.
LEMMA Enumerated ==
    ASSUME NEW S, IsFiniteSet(S)
    PROVE  /\ Cardinality(S) \in Nat
           /\ SetToSeq(S) \in [1 .. Cardinality(S) -> S]
           /\ \A i, j \in 1 .. Cardinality(S) : SetToSeq(S)[i] = SetToSeq(S)[j] => i = j
           /\ \A x \in S : \E i \in 1 .. Cardinality(S) : SetToSeq(S)[i] = x
<1> DEFINE n == Cardinality(S)
           L == [1 .. n -> S]
           f == SetToSeq(S)
<1>1. n \in Nat /\ ExistsBijection(1 .. n, S)
  BY FS_CardinalityType
<1>2. PICK b \in Bijection(1 .. n, S) : TRUE
  BY <1>1 DEF ExistsBijection
<1>3. b \in L /\ IsInjective(b)
  BY <1>2 DEF Bijection, Injection, IsInjective
<1>4. f \in L /\ IsInjective(f)
  BY <1>3 DEF SetToSeq
<1> HIDE DEF f
<1>5. f \in Injection(1 .. n, S)
  BY <1>4 DEF Injection
<1>6. IsFiniteSet(1 .. n) /\ Cardinality(1 .. n) = n
  BY <1>1, FS_Interval
<1>7. f \in Surjection(1 .. n, S)
  BY <1>5, <1>6, FS_Injection
<1> QED
  BY <1>1, <1>4, <1>7 DEF IsInjective, Surjection, f

-----------------------------------------------------------------------------
(* What the file and the slots are made of *)

HeapType == [table : Tables, home : DbNames]

DatabaseType == [name : DbNames, tables : {T \in SUBSET HeapType : IsFiniteSet(T)}]

SlotsType == [names : [Slots -> DbNames], used : [Slots -> BOOLEAN],
              catalog : [Slots -> SUBSET Tables], heaps : [Slots -> Seq(HeapType)]]

\* LoadDatabase's step: a database of the file goes into a slot.
LoadInto(slots, id, database) ==
    [names |-> [slots.names EXCEPT ![id] = database.name],
     used |-> [slots.used EXCEPT ![id] = TRUE],
     catalog |-> [slots.catalog EXCEPT ![id] = {h.table : h \in database.tables}],
     heaps |-> [slots.heaps EXCEPT ![id] = SetToSeq(database.tables)]]

LoadOne(slots, database) == LoadInto(slots, SlotToLoad(slots, database.name), database)

LEMMA TablesToHeaps ==
    ASSUME NEW database \in DatabaseType
    PROVE  /\ SetToSeq(database.tables) \in Seq(HeapType)
           /\ {h.table : h \in database.tables} \in SUBSET Tables
<1>1. database.tables \in SUBSET HeapType /\ IsFiniteSet(database.tables)
  BY DEF DatabaseType
<1> DEFINE n == Cardinality(database.tables)
<1>2. n \in Nat /\ SetToSeq(database.tables) \in [1 .. n -> database.tables]
  BY <1>1, Enumerated
<1>3. SetToSeq(database.tables) \in [1 .. n -> HeapType]
  BY <1>1, <1>2
<1>4. SetToSeq(database.tables) \in Seq(HeapType)
  BY <1>2, <1>3
<1> QED
  BY <1>1, <1>4 DEF HeapType

LEMMA LoadOneType ==
    ASSUME NEW slots \in SlotsType, NEW database \in DatabaseType
    PROVE  LoadOne(slots, database) \in SlotsType
<1>1. PICK id : id = SlotToLoad(slots, database.name)
  OBVIOUS
<1>2. PICK hs \in Seq(HeapType) : hs = SetToSeq(database.tables)
  BY TablesToHeaps
<1>3. PICK ts \in SUBSET Tables : ts = {h.table : h \in database.tables}
  BY TablesToHeaps
<1>4. database.name \in DbNames
  BY DEF DatabaseType
<1>5. LoadOne(slots, database) =
        [names |-> [slots.names EXCEPT ![id] = database.name],
         used |-> [slots.used EXCEPT ![id] = TRUE],
         catalog |-> [slots.catalog EXCEPT ![id] = ts],
         heaps |-> [slots.heaps EXCEPT ![id] = hs]]
  BY <1>1, <1>2, <1>3 DEF LoadOne, LoadInto
<1>6. /\ slots.names \in [Slots -> DbNames] /\ slots.used \in [Slots -> BOOLEAN]
      /\ slots.catalog \in [Slots -> SUBSET Tables]
      /\ slots.heaps \in [Slots -> Seq(HeapType)]
  BY DEF SlotsType
<1>7. [slots.names EXCEPT ![id] = database.name] \in [Slots -> DbNames]
  BY <1>4, <1>6
<1>8. [slots.used EXCEPT ![id] = TRUE] \in [Slots -> BOOLEAN]
  BY <1>6
<1>9. [slots.catalog EXCEPT ![id] = ts] \in [Slots -> SUBSET Tables]
  BY <1>6
<1>10. [slots.heaps EXCEPT ![id] = hs] \in [Slots -> Seq(HeapType)]
  BY <1>6
<1> QED
  BY <1>5, <1>7, <1>8, <1>9, <1>10 DEF SlotsType

LEMMA EmptySlotsType == EmptySlots \in SlotsType
<1>1. <<>> \in Seq(HeapType) /\ Main \in DbNames
  BY MainAssumption
<1> QED
  BY <1>1 DEF EmptySlots, SlotsType

\* LoadDatabase goes through the file's databases one after the other.
LEMMA LoadSteps ==
    ASSUME NEW file, file.databases \in Seq(DatabaseType)
    PROVE  \E r : /\ r[0] = EmptySlots
                  /\ \A k \in 1 .. Len(file.databases) :
                       r[k] = LoadOne(r[k - 1], file.databases[k])
                  /\ LoadDatabase(file) = r[Len(file.databases)]
<1> DEFINE
      seq == file.databases
      n == Len(seq)
      F(iter) == [s \in SUBSET (1 .. n) |->
                    IF s = {} THEN EmptySlots
                    ELSE LoadOne(iter[s \ {Max(s)}], seq[Max(s)])]
      G == CHOOSE iter : iter = F(iter)
      g == [x \in SlotsType \X DatabaseType |-> LoadOne(x[1], x[2])]
<1>1. n \in Nat /\ DOMAIN seq = 1 .. n /\ \A i \in 1 .. n : seq[i] \in DatabaseType
  OBVIOUS
<1>2. LoadDatabase(file) = G[1 .. n]
  BY <1>1 DEF LoadDatabase, FoldLeft, MapThenFoldSet, LoadOne, LoadInto
<1>3. g \in [SlotsType \X DatabaseType -> SlotsType]
  BY LoadOneType
<1>4. \A a \in SlotsType, b \in DatabaseType : g[<<a, b>>] = LoadOne(a, b)
  OBVIOUS
<1> HIDE DEF g
<1>5. PICK iter \in [SUBSET (1 .. n) -> SlotsType] : IsFold(iter, n, EmptySlots, seq, g)
  <2> HIDE DEF n, seq
  <2> QED
    BY <1>1, <1>3, EmptySlotsType, FoldExists
<1>6. iter = F(iter)
  <2> HIDE DEF seq, n
  <2>1. ASSUME NEW s \in SUBSET (1 .. n), s # {}
        PROVE  iter[s] = LoadOne(iter[s \ {Max(s)}], seq[Max(s)])
    <3>1. Max(s) \in 1 .. n
      BY <1>1, <2>1, MaxIs
    <3>2. iter[s \ {Max(s)}] \in SlotsType
      BY <1>5
    <3>3. iter[s] = g[<<iter[s \ {Max(s)}], seq[Max(s)]>>]
      BY <1>5, <2>1 DEF IsFold
    <3> QED
      BY <1>1, <1>4, <3>1, <3>2, <3>3
  <2>2. iter[{}] = EmptySlots
    BY <1>5 DEF IsFold
  <2> QED
    BY <1>5, <2>1, <2>2
<1>7. G = F(G)
  BY <1>6
<1> HIDE DEF G
<1>8. G[1 .. 0] = EmptySlots
  <2>1. 1 .. 0 = {} /\ {} \in SUBSET (1 .. n)
    OBVIOUS
  <2>2. F(G)[{}] = EmptySlots
    BY <2>1
  <2> QED
    BY <1>7, <2>1, <2>2
<1>9. ASSUME NEW k \in 1 .. n
      PROVE  G[1 .. k] = LoadOne(G[1 .. k - 1], seq[k])
  <2>1. 1 .. k \in SUBSET (1 .. n) /\ 1 .. k # {} /\ (1 .. k) \ {k} = 1 .. k - 1
    <3> HIDE DEF n
    <3> QED
      BY <1>1, FirstOnes
  <2>2. Max(1 .. k) = k
    <3> HIDE DEF n
    <3> QED
      BY <1>1, FirstOnes
  <2> HIDE DEF seq, n
  <2>3. ASSUME NEW s \in SUBSET (1 .. n), s # {}
        PROVE  F(G)[s] = LoadOne(G[s \ {Max(s)}], seq[Max(s)])
    <3>1. PICK m : m = Max(s)
      OBVIOUS
    <3>2. F(G)[s] = LoadOne(G[s \ {m}], seq[m])
      BY <2>3, <3>1, Zenon
    <3> QED
      BY <3>1, <3>2
  <2> HIDE DEF F
  <2>4. G[1 .. k] = LoadOne(G[(1 .. k) \ {Max(1 .. k)}], seq[Max(1 .. k)])
    BY <1>7, <2>1, <2>3
  <2> QED
    BY <2>1, <2>2, <2>4
<1> DEFINE r == [k \in 0 .. n |-> G[1 .. k]]
<1>10. r[0] = EmptySlots /\ LoadDatabase(file) = r[n]
  BY <1>1, <1>2, <1>8
<1>11. \A k \in 1 .. n : r[k] = LoadOne(r[k - 1], seq[k])
  <2> TAKE k \in 1 .. n
  <2>1. k \in 0 .. n /\ k - 1 \in 0 .. n
    BY <1>1
  <2>2. r[k] = G[1 .. k] /\ r[k - 1] = G[1 .. k - 1]
    BY <2>1
  <2> QED
    BY <1>9, <2>2
<1> HIDE DEF r
<1> QED
  BY <1>10, <1>11

-----------------------------------------------------------------------------
(* Heaps *)

\* The heap array hs holds a heap for each table of cat, and no other.
Listed(cat, hs) ==
    /\ cat = {hs[i].table : i \in DOMAIN hs}
    /\ \A i, j \in DOMAIN hs : hs[i].table = hs[j].table => i = j

\* The heap a name stands for.
LEMMA HeapFound ==
    ASSUME NEW hs \in Seq(HeapType), NEW cat, Listed(cat, hs), NEW t \in cat
    PROVE  HeapAt(hs, t) \in DOMAIN hs /\ hs[HeapAt(hs, t)].table = t
<1>1. PICK i \in DOMAIN hs : hs[i].table = t
  BY DEF Listed
<1>2. DOMAIN hs = 1 .. Len(hs) /\ Len(hs) \in Nat
  OBVIOUS
<1>3. \A j \in 1 .. i - 1 : hs[j].table # t
  <2> SUFFICES ASSUME NEW j \in 1 .. i - 1, hs[j].table = t PROVE FALSE
    OBVIOUS
  <2>1. j \in DOMAIN hs /\ j # i
    BY <1>1, <1>2
  <2> QED
    BY <1>1, <2>1 DEF Listed
<1> QED
  BY <1>1, <1>3 DEF HeapAt

\* What the array is after a drop: one shorter, the last heap in the place p of
\* the dropped one.
LEMMA Dropped ==
    ASSUME NEW hs \in Seq(HeapType), NEW t
    PROVE  /\ DropHeap(hs, t) \in Seq(HeapType)
           /\ hs # <<>> => Len(DropHeap(hs, t)) = Len(hs) - 1
           /\ \A i \in 1 .. Len(hs) - 1 :
                DropHeap(hs, t)[i] = IF i = HeapAt(hs, t) THEN hs[Len(hs)] ELSE hs[i]
<1>1. PICK p : p = HeapAt(hs, t)
  OBVIOUS
<1>2. PICK n \in Nat : n = Len(hs) /\ DOMAIN hs = 1 .. n
  OBVIOUS
<1> DEFINE e == [hs EXCEPT ![p] = hs[n]]
<1>3. DropHeap(hs, t) = SubSeq(e, 1, Len(e) - 1)
  BY <1>1, <1>2 DEF DropHeap, Front, Last
<1>4. DOMAIN e = 1 .. n /\ \A i \in 1 .. n : e[i] = IF i = p THEN hs[n] ELSE hs[i]
  BY <1>2
<1>5. \A i \in 1 .. n : e[i] \in HeapType
  <2> TAKE i \in 1 .. n
  <2>1. n \in 1 .. n /\ hs[i] \in HeapType /\ hs[n] \in HeapType
    BY <1>2
  <2> QED
    BY <1>4, <2>1
<1>6. e = [i \in 1 .. n |-> e[i]]
  BY <1>2
<1> HIDE DEF e
<1>7. e \in Seq(HeapType) /\ Len(e) = n
  BY <1>2, <1>5, <1>6
<1>8. PICK d : d = SubSeq(e, 1, n - 1)
  OBVIOUS
<1>9. /\ d \in Seq(HeapType)
      /\ Len(d) = IF 1 <= n - 1 THEN n - 1 ELSE 0
      /\ \A i \in 1 .. n - 1 : d[i] = e[i]
  <2>1. \A i \in 1 .. n - 1 : e[i] \in HeapType
    BY <1>2, <1>5
  <2>2. n - 1 \in Int /\ 1 \in Int /\ n - 1 - 1 + 1 = n - 1
    BY <1>2
  <2>3. \A i \in 1 .. n - 1 : 1 + i - 1 = i
    BY <1>2
  <2> QED
    BY <1>7, <1>8, <2>1, <2>2, <2>3
<1>10. hs # <<>> => n # 0
  BY <1>2
<1>11. \A i \in 1 .. n - 1 : i \in 1 .. n
  BY <1>2
<1>12. d = DropHeap(hs, t)
  BY <1>3, <1>7, <1>8
<1>13. hs # <<>> => Len(d) = n - 1
  BY <1>2, <1>9, <1>10
<1>14. \A i \in 1 .. n - 1 : d[i] = IF i = p THEN hs[n] ELSE hs[i]
  BY <1>4, <1>9, <1>11
<1> QED
  BY <1>1, <1>2, <1>9, <1>12, <1>13, <1>14

\* dropHeap drops the heap of the table it is given, and no other.
LEMMA DropKeepsListed ==
    ASSUME NEW hs \in Seq(HeapType), NEW cat, Listed(cat, hs), NEW t \in cat
    PROVE  Listed(cat \ {t}, DropHeap(hs, t))
<1>1. PICK n \in Nat : n = Len(hs) /\ DOMAIN hs = 1 .. n
  OBVIOUS
<1>2. PICK p \in 1 .. n : p = HeapAt(hs, t) /\ hs[p].table = t
  BY <1>1, HeapFound
<1>3. PICK d \in Seq(HeapType) : d = DropHeap(hs, t)
  BY Dropped
<1>4. hs # <<>> /\ DOMAIN d = 1 .. n - 1
  <2>1. hs # <<>>
    BY <1>1, <1>2
  <2>2. Len(d) = n - 1
    BY <1>1, <1>3, <2>1, Dropped
  <2> QED
    BY <2>1, <2>2
<1> DEFINE From(i) == IF i = p THEN n ELSE i
<1>5. \A i \in 1 .. n - 1 : d[i] = hs[From(i)]
  BY <1>1, <1>2, <1>3, Dropped
<1>6. \A i \in 1 .. n - 1 : From(i) \in 1 .. n /\ From(i) # p
  BY <1>2
<1>7. \A j \in 1 .. n : j # p => \E i \in 1 .. n - 1 : From(i) = j
  <2> SUFFICES ASSUME NEW j \in 1 .. n, j # p
               PROVE  \E i \in 1 .. n - 1 : From(i) = j
    OBVIOUS
  <2>1. CASE j = n
    <3>1. p \in 1 .. n - 1 /\ From(p) = j
      BY <1>2, <2>1
    <3> QED
      BY <3>1
  <2>2. CASE j # n
    <3>1. j \in 1 .. n - 1 /\ From(j) = j
      BY <1>2, <2>2
    <3> QED
      BY <3>1
  <2> QED
    BY <2>1, <2>2
<1>8. \A i, j \in 1 .. n - 1 : From(i) = From(j) => i = j
  BY <1>2
<1> HIDE DEF From
<1>9. cat \ {t} = {d[i].table : i \in DOMAIN d}
  <2>1. ASSUME NEW u \in cat \ {t} PROVE \E i \in 1 .. n - 1 : d[i].table = u
    <3>1. PICK j \in 1 .. n : hs[j].table = u
      BY <1>1 DEF Listed
    <3>2. PICK i \in 1 .. n - 1 : From(i) = j
      BY <1>2, <1>7, <3>1
    <3> QED
      BY <1>5, <3>1, <3>2
  <2>2. ASSUME NEW i \in 1 .. n - 1 PROVE d[i].table \in cat \ {t}
    <3>1. From(i) \in 1 .. n /\ From(i) # p /\ d[i] = hs[From(i)]
      BY <1>5, <1>6
    <3>2. hs[From(i)].table \in cat
      BY <1>1, <3>1 DEF Listed
    <3>3. hs[From(i)].table # hs[p].table
      BY <1>1, <3>1 DEF Listed
    <3> QED
      BY <1>2, <3>1, <3>2, <3>3
  <2> QED
    BY <1>4, <2>1, <2>2
<1>10. \A i, j \in DOMAIN d : d[i].table = d[j].table => i = j
  <2> SUFFICES ASSUME NEW i \in 1 .. n - 1, NEW j \in 1 .. n - 1, d[i].table = d[j].table
               PROVE  i = j
    BY <1>4
  <2>1. From(i) \in 1 .. n /\ From(j) \in 1 .. n /\ d[i] = hs[From(i)] /\ d[j] = hs[From(j)]
    BY <1>5, <1>6
  <2>2. From(i) = From(j)
    BY <1>1, <2>1 DEF Listed
  <2> QED
    BY <1>8, <2>2
<1>11. Listed(cat \ {t}, d)
  BY <1>9, <1>10 DEF Listed
<1> QED
  BY <1>3, <1>11

LEMMA ListedCount ==
    ASSUME NEW hs \in Seq(HeapType), NEW cat, Listed(cat, hs)
    PROVE  IsFiniteSet(cat) /\ Cardinality(cat) = Len(hs) /\ cat \in SUBSET Tables
<1>1. PICK n \in Nat : n = Len(hs) /\ DOMAIN hs = 1 .. n
  OBVIOUS
<1> DEFINE f == [i \in 1 .. n |-> hs[i].table]
<1>2. cat = {hs[i].table : i \in 1 .. n}
  BY <1>1 DEF Listed
<1>3. f \in [1 .. n -> cat] /\ \A i, j \in 1 .. n : f[i] = f[j] => i = j
  BY <1>1, <1>2 DEF Listed
<1>4. \A t \in cat : \E i \in 1 .. n : f[i] = t
  BY <1>2
<1> HIDE DEF f
<1>5. f \in Bijection(1 .. n, cat)
  BY <1>3, <1>4 DEF Bijection, Injection, Surjection, IsInjective
<1>6. ExistsBijection(1 .. n, cat)
  BY <1>5 DEF ExistsBijection
<1>7. \A i \in 1 .. n : hs[i].table \in Tables
  <2> TAKE i \in 1 .. n
  <2>1. hs[i] \in HeapType
    BY <1>1
  <2> QED
    BY <2>1 DEF HeapType
<1> QED
  BY <1>1, <1>2, <1>6, <1>7, FS_CountingElements, FS_NatBijection

DropTables(hs, cat) == FoldLeft(LAMBDA h, t : DropHeap(h, t), hs, SetToSeq(cat))

\* DROP DATABASE drops the heaps of the slot's tables, one after the other.
LEMMA DropSteps ==
    ASSUME NEW hs \in Seq(HeapType), NEW cat, IsFiniteSet(cat), NEW n, n = Cardinality(cat),
           NEW seq, seq = SetToSeq(cat)
    PROVE  \E r : /\ r[0] = hs
                  /\ \A k \in 1 .. n : r[k] = DropHeap(r[k - 1], seq[k])
                  /\ DropTables(hs, cat) = r[n]
<1>1. n \in Nat /\ DOMAIN seq = 1 .. n /\ \A i \in 1 .. n : seq[i] \in cat
  BY Enumerated
<1> DEFINE
      State == Seq(HeapType)
      F(iter) == [s \in SUBSET (1 .. n) |->
                    IF s = {} THEN hs ELSE DropHeap(iter[s \ {Max(s)}], seq[Max(s)])]
      G == CHOOSE iter : iter = F(iter)
      g == [x \in State \X cat |-> DropHeap(x[1], x[2])]
<1>2. DropTables(hs, cat) = G[1 .. n]
  BY <1>1 DEF DropTables, FoldLeft, MapThenFoldSet
<1>3. g \in [State \X cat -> State]
  BY Dropped
<1>4. \A a \in State, b \in cat : g[<<a, b>>] = DropHeap(a, b)
  OBVIOUS
<1> HIDE DEF g
<1>5. PICK iter \in [SUBSET (1 .. n) -> State] : IsFold(iter, n, hs, seq, g)
  BY <1>1, <1>3, FoldExists
<1>6. iter = F(iter)
  <2>1. ASSUME NEW s \in SUBSET (1 .. n), s # {}
        PROVE  iter[s] = DropHeap(iter[s \ {Max(s)}], seq[Max(s)])
    <3>1. Max(s) \in 1 .. n
      BY <1>1, <2>1, MaxIs
    <3>2. iter[s \ {Max(s)}] \in State
      BY <1>5
    <3>3. iter[s] = g[<<iter[s \ {Max(s)}], seq[Max(s)]>>]
      BY <1>5, <2>1 DEF IsFold
    <3> QED
      BY <1>1, <1>4, <3>1, <3>2, <3>3
  <2>2. iter[{}] = hs
    BY <1>5 DEF IsFold
  <2> QED
    BY <1>5, <2>1, <2>2
<1>7. G = F(G)
  BY <1>6
<1> HIDE DEF G
<1>8. G[1 .. 0] = hs
  <2>1. 1 .. 0 = {} /\ {} \in SUBSET (1 .. n)
    OBVIOUS
  <2>2. F(G)[{}] = hs
    BY <2>1
  <2> QED
    BY <1>7, <2>1, <2>2
<1>9. ASSUME NEW k \in 1 .. n
      PROVE  G[1 .. k] = DropHeap(G[1 .. k - 1], seq[k])
  <2>1. 1 .. k \in SUBSET (1 .. n) /\ 1 .. k # {} /\ (1 .. k) \ {k} = 1 .. k - 1
    BY <1>1, FirstOnes
  <2>2. Max(1 .. k) = k
    BY <1>1, FirstOnes
  <2>3. ASSUME NEW s \in SUBSET (1 .. n), s # {}
        PROVE  F(G)[s] = DropHeap(G[s \ {Max(s)}], seq[Max(s)])
    <3>1. PICK m : m = Max(s)
      OBVIOUS
    <3>2. F(G)[s] = DropHeap(G[s \ {m}], seq[m])
      BY <2>3, <3>1, Zenon
    <3> QED
      BY <3>1, <3>2
  <2> HIDE DEF F
  <2>4. G[1 .. k] = DropHeap(G[(1 .. k) \ {Max(1 .. k)}], seq[Max(1 .. k)])
    BY <1>7, <2>1, <2>3
  <2> QED
    BY <2>1, <2>2, <2>4
<1> DEFINE r == [k \in 0 .. n |-> G[1 .. k]]
<1>10. r[0] = hs /\ r[n] = G[1 .. n]
  BY <1>1, <1>8
<1>11. \A k \in 1 .. n : r[k] = DropHeap(r[k - 1], seq[k])
  <2> TAKE k \in 1 .. n
  <2>1. k \in 0 .. n /\ k - 1 \in 0 .. n
    BY <1>1
  <2>2. r[k] = G[1 .. k] /\ r[k - 1] = G[1 .. k - 1]
    BY <2>1
  <2> QED
    BY <1>9, <2>2
<1> HIDE DEF r
<1> QED
  BY <1>2, <1>10, <1>11

\* And then none is left.
LEMMA AllDropped ==
    ASSUME NEW hs \in Seq(HeapType), NEW cat, Listed(cat, hs)
    PROVE  DropTables(hs, cat) = <<>>
<1>1. IsFiniteSet(cat)
  BY ListedCount
<1> DEFINE n == Cardinality(cat)
           seq == SetToSeq(cat)
<1>2. /\ n \in Nat /\ \A i \in 1 .. n : seq[i] \in cat
      /\ \A i, j \in 1 .. n : seq[i] = seq[j] => i = j
      /\ \A t \in cat : \E i \in 1 .. n : seq[i] = t
  BY <1>1, Enumerated
<1>3. PICK r : /\ r[0] = hs
               /\ \A k \in 1 .. n : r[k] = DropHeap(r[k - 1], seq[k])
               /\ DropTables(hs, cat) = r[n]
  <2> HIDE DEF n, seq
  <2>1. n = Cardinality(cat) /\ seq = SetToSeq(cat)
    BY DEF n, seq
  <2> QED
    BY <1>1, <2>1, DropSteps
<1> HIDE DEF n, seq
<1> DEFINE Left(k) == cat \ {seq[i] : i \in 1 .. k}
           S == {k \in 0 .. n : ~(r[k] \in Seq(HeapType) /\ Listed(Left(k), r[k]))}
<1>4. S = {}
  <2>1. 0 \notin S
    <3>1. Left(0) = cat
      OBVIOUS
    <3> QED
      BY <1>3, <3>1
  <2>2. ASSUME NEW k \in 1 .. n, k - 1 \notin S PROVE k \notin S
    <3>1. k \in Nat /\ k - 1 \in 0 .. n /\ seq[k] \in cat
      BY <1>2
    <3>2. r[k - 1] \in Seq(HeapType) /\ Listed(Left(k - 1), r[k - 1])
      BY <2>2, <3>1
    <3>3. \A i \in 1 .. k - 1 : i \in 1 .. n /\ i # k
      BY <1>2, <3>1
    <3>4. seq[k] \in Left(k - 1)
      BY <1>2, <3>1, <3>3
    <3>5. Left(k) = Left(k - 1) \ {seq[k]}
      <4>1. 1 .. k = (1 .. k - 1) \cup {k}
        BY <3>1
      <4> QED
        BY <4>1
    <3>6. r[k] = DropHeap(r[k - 1], seq[k])
      BY <1>3
    <3> HIDE DEF Left
    <3>7. r[k] \in Seq(HeapType) /\ Listed(Left(k), r[k])
      BY <3>2, <3>4, <3>5, <3>6, Dropped, DropKeepsListed
    <3> QED
      BY <3>7
  <2>3. S \in SUBSET (0 .. n)
    OBVIOUS
  <2> HIDE DEF S
  <2> QED
    BY <1>2, <2>1, <2>2, <2>3, Upwards
<1>5. r[n] \in Seq(HeapType) /\ Listed(Left(n), r[n])
  <2>1. n \in 0 .. n
    BY <1>2
  <2> QED
    BY <1>4, <2>1
<1>6. Left(n) = {}
  BY <1>2
<1>7. r[n] = <<>>
  <2> HIDE DEF Left
  <2>1. {r[n][i].table : i \in DOMAIN r[n]} = {}
    BY <1>5, <1>6 DEF Listed
  <2>2. DOMAIN r[n] = {}
    BY <2>1
  <2>3. PICK h \in Seq(HeapType) : h = r[n] /\ DOMAIN h = {}
    BY <1>5, <2>2
  <2>4. Len(h) \in Nat /\ DOMAIN h = 1 .. Len(h)
    BY <2>3
  <2>5. Len(h) = 0
    <3>1. PICK m \in Nat : m = Len(h) /\ 1 .. m = {}
      BY <2>3, <2>4
    <3>2. m # 0 => 1 \in 1 .. m
      OBVIOUS
    <3> QED
      BY <3>1, <3>2
  <2> QED
    BY <2>3, <2>5
<1> QED
  BY <1>3, <1>7

\* The heaps of a database of the file.
LEMMA TablesListed ==
    ASSUME NEW database \in DatabaseType,
           \A g, h \in database.tables : g.table = h.table => g = h
    PROVE  /\ Listed({h.table : h \in database.tables}, SetToSeq(database.tables))
           /\ ToSet(SetToSeq(database.tables)) = database.tables
<1>1. IsFiniteSet(database.tables)
  BY DEF DatabaseType
<1>2. PICK n, hs : n = Cardinality(database.tables) /\ hs = SetToSeq(database.tables)
  OBVIOUS
<1>3. /\ n \in Nat /\ hs \in [1 .. n -> database.tables]
      /\ \A i, j \in 1 .. n : hs[i] = hs[j] => i = j
      /\ \A x \in database.tables : \E i \in 1 .. n : hs[i] = x
  BY <1>1, <1>2, Enumerated
<1>4. DOMAIN hs = 1 .. n
  BY <1>3
<1>5. {h.table : h \in database.tables} = {hs[i].table : i \in DOMAIN hs}
  BY <1>3, <1>4
<1>6. \A i, j \in DOMAIN hs : hs[i].table = hs[j].table => i = j
  BY <1>3, <1>4
<1>7. ToSet(hs) = database.tables
  BY <1>3, <1>4 DEF ToSet
<1>8. Listed({h.table : h \in database.tables}, hs)
  BY <1>5, <1>6 DEF Listed
<1> QED
  BY <1>2, <1>7, <1>8

-----------------------------------------------------------------------------
(* Slots *)

LEMMA SlotsAreFinite ==
    /\ Slots \in SUBSET Nat /\ 0 \in Slots /\ -1 \notin Slots
    /\ IsFiniteSet(Slots) /\ Cardinality(Slots) = MaxDatabases
<1>1. PICK n \in Nat \ {0} : n = MaxDatabases
  BY SlotsAssumption
<1>2. n - 1 \in Int /\ 0 <= n - 1 /\ n - 1 - 0 + 1 = n
  BY <1>1
<1>3. IsFiniteSet(0 .. n - 1) /\ Cardinality(0 .. n - 1) = n
  BY <1>1, <1>2, FS_Interval
<1> QED
  BY <1>1, <1>2, <1>3 DEF Slots

\* findDatabase finds a slot in use with the name, if there is one.
LEMMA Found ==
    ASSUME NEW ns, NEW us, NEW name
    PROVE  \/ /\ FindDatabase(ns, us, name) = -1
              /\ \A d \in Slots : ~(us[d] /\ ns[d] = name)
           \/ /\ FindDatabase(ns, us, name) \in Slots
              /\ us[FindDatabase(ns, us, name)]
              /\ ns[FindDatabase(ns, us, name)] = name
<1> DEFINE at == {d \in Slots : us[d] /\ ns[d] = name}
<1>1. CASE at = {}
  BY <1>1 DEF FindDatabase
<1>2. CASE at # {}
  <2>1. at \in SUBSET Nat
    BY SlotsAreFinite
  <2>2. \E d \in at : \A e \in at : d <= e
    <3> HIDE DEF at
    <3> QED
      BY <1>2, <2>1, SmallestIs
  <2>3. FindDatabase(ns, us, name) \in at
    BY <1>2, <2>2 DEF FindDatabase
  <2> QED
    BY <2>3
<1> QED
  BY <1>1, <1>2

LEMMA FreeFound ==
    ASSUME NEW us, FreeSlots(us) # {}
    PROVE  FirstFree(us) \in Slots /\ ~us[FirstFree(us)]
<1>1. FreeSlots(us) \in SUBSET Nat
  BY SlotsAreFinite DEF FreeSlots
<1>2. \E d \in FreeSlots(us) : \A e \in FreeSlots(us) : d <= e
  BY <1>1, SmallestIs
<1>3. FirstFree(us) \in FreeSlots(us)
  BY <1>2 DEF FirstFree
<1> QED
  BY <1>3 DEF FreeSlots

\* No two databases share a name, and the default one is in slot 0.
Named(ns, us) ==
    /\ us[0] /\ ns[0] = Main
    /\ \A d, e \in Slots : us[d] /\ us[e] /\ ns[d] = ns[e] => d = e

\* The database dbs[i] of a file is in a slot, with its tables.
Loaded(ns, us, hs, database) ==
    \E d \in Slots : us[d] /\ ns[d] = database.name /\ ToSet(hs[d]) = database.tables

\* What a file has to be for loadDatabase to bring all of it back.
FileShape(dbs) ==
    /\ dbs \in Seq(DatabaseType) /\ Len(dbs) <= MaxDatabases
    /\ \A i, j \in DOMAIN dbs : dbs[i].name = dbs[j].name => i = j
    /\ \E i \in DOMAIN dbs : dbs[i].name = Main
    /\ \A i \in DOMAIN dbs : \A g, h \in dbs[i].tables : g.table = h.table => g = h

\* The file has the databases that the slots have, with their tables.
Agrees(dbs, ns, us, hs) ==
    /\ \A i \in DOMAIN dbs : Loaded(ns, us, hs, dbs[i])
    /\ \A d \in Slots : us[d] => \E i \in DOMAIN dbs : dbs[i].name = ns[d]

\* The slots after the first k databases of the file.
LoadedSoFar(slots, dbs, k) ==
    /\ slots \in SlotsType
    /\ Named(slots.names, slots.used)
    /\ \A d \in Slots : Listed(slots.catalog[d], slots.heaps[d])
    /\ \A i \in 1 .. k : Loaded(slots.names, slots.used, slots.heaps, dbs[i])
    /\ \A d \in Slots : slots.used[d] =>
         slots.names[d] = Main \/ \E i \in 1 .. k : dbs[i].name = slots.names[d]

\* There is a free slot for every database of the file that is not in one yet.
LEMMA Room ==
    ASSUME NEW dbs, FileShape(dbs), NEW k \in DOMAIN dbs, NEW slots,
           LoadedSoFar(slots, dbs, k - 1),
           \A d \in Slots : ~(slots.used[d] /\ slots.names[d] = dbs[k].name)
    PROVE  FreeSlots(slots.used) # {}
<1>1. PICK n \in Nat : n = Len(dbs) /\ DOMAIN dbs = 1 .. n /\ n <= MaxDatabases
  BY DEF FileShape
<1> DEFINE T == (1 .. n) \ {k}
<1>2. /\ IsFiniteSet(T) /\ Cardinality(T) = n - 1
  <2>1. n - 1 + 1 = n
    BY <1>1
  <2>2. IsFiniteSet(1 .. n) /\ Cardinality(1 .. n) = n
    <3>1. 1 \in Int /\ n \in Int /\ (1 > n => n = 0)
      BY <1>1
    <3> QED
      BY <2>1, <3>1, FS_Interval
  <2>3. k \in 1 .. n
    BY <1>1
  <2> QED
    BY <2>2, <2>3, FS_RemoveElement
<1> SUFFICES ASSUME \A d \in Slots : slots.used[d] PROVE FALSE
  BY DEF FreeSlots
<1>3. \A d \in Slots : \E i \in T : dbs[i].name = slots.names[d]
  <2> TAKE d \in Slots
  <2>1. \E i \in 1 .. n : dbs[i].name = slots.names[d]
    <3>1. CASE slots.names[d] = Main
      BY <1>1, <3>1 DEF FileShape
    <3>2. CASE \E i \in 1 .. k - 1 : dbs[i].name = slots.names[d]
      <4>1. \A i \in 1 .. k - 1 : i \in 1 .. n
        BY <1>1
      <4> QED
        BY <3>2, <4>1
    <3> QED
      BY <3>1, <3>2 DEF LoadedSoFar
  <2> QED
    BY <2>1
<1> DEFINE f == [d \in Slots |-> CHOOSE i \in T : dbs[i].name = slots.names[d]]
<1>4. \A d \in Slots : f[d] \in T /\ dbs[f[d]].name = slots.names[d]
  BY <1>3
<1>5. f \in [Slots -> T]
  BY <1>4
<1> HIDE DEF f, T
<1>6. Cardinality(T) < Cardinality(Slots)
  <2>1. PICK m \in Nat : m = MaxDatabases
    BY SlotsAssumption
  <2>2. n - 1 < m
    BY <1>1, <2>1
  <2> QED
    BY <1>2, <2>1, <2>2, SlotsAreFinite
<1>7. PICK d, e \in Slots : d # e /\ f[d] = f[e]
  BY <1>2, <1>5, <1>6, SlotsAreFinite, FS_PigeonHole
<1>8. slots.names[d] = slots.names[e]
  BY <1>4, <1>7
<1> QED
  BY <1>7, <1>8 DEF LoadedSoFar, Named

\* What one step of loadDatabase leaves alone, and what it puts in the slot.
LEMMA IntoSlot ==
    ASSUME NEW slots \in SlotsType, NEW database \in DatabaseType, NEW id \in Slots,
           NEW new, new = LoadInto(slots, id, database)
    PROVE  /\ \A d \in Slots \ {id} :
                /\ new.names[d] = slots.names[d] /\ new.used[d] = slots.used[d]
                /\ new.catalog[d] = slots.catalog[d] /\ new.heaps[d] = slots.heaps[d]
           /\ new.names[id] = database.name /\ new.used[id]
           /\ new.catalog[id] = {h.table : h \in database.tables}
           /\ new.heaps[id] = SetToSeq(database.tables)
<1>1. PICK hs, ts : hs = SetToSeq(database.tables) /\ ts = {h.table : h \in database.tables}
  OBVIOUS
<1>2. /\ new.names = [slots.names EXCEPT ![id] = database.name]
      /\ new.used = [slots.used EXCEPT ![id] = TRUE]
      /\ new.catalog = [slots.catalog EXCEPT ![id] = ts]
      /\ new.heaps = [slots.heaps EXCEPT ![id] = hs]
  BY <1>1 DEF LoadInto
<1>3. /\ DOMAIN slots.names = Slots /\ DOMAIN slots.used = Slots
      /\ DOMAIN slots.catalog = Slots /\ DOMAIN slots.heaps = Slots
  BY DEF SlotsType
<1> QED
  BY <1>1, <1>2, <1>3

\* loadDatabase finds the slot of the default database, and a free one for any
\* other.
LEMMA SlotIsThere ==
    ASSUME NEW dbs, FileShape(dbs), NEW k \in DOMAIN dbs, NEW slots,
           LoadedSoFar(slots, dbs, k - 1), NEW id, id = SlotToLoad(slots, dbs[k].name)
    PROVE  /\ id \in Slots
           /\ slots.used[id] => slots.names[id] = dbs[k].name
           /\ \A d \in Slots \ {id} : slots.used[d] => slots.names[d] # dbs[k].name
<1>1. PICK f : f = FindDatabase(slots.names, slots.used, dbs[k].name)
  OBVIOUS
<1>2. id = IF f >= 0 THEN f ELSE FirstFree(slots.used)
  BY <1>1 DEF SlotToLoad
<1>3. CASE f \in Slots /\ slots.used[f] /\ slots.names[f] = dbs[k].name
  <2>1. f >= 0
    BY <1>3, SlotsAreFinite
  <2> QED
    BY <1>2, <1>3, <2>1 DEF LoadedSoFar, Named
<1>4. CASE f = -1 /\ \A d \in Slots : ~(slots.used[d] /\ slots.names[d] = dbs[k].name)
  <2>1. ~(f >= 0)
    BY <1>4
  <2>2. FreeSlots(slots.used) # {}
    BY <1>4, Room
  <2>3. id \in Slots /\ ~slots.used[id]
    BY <1>2, <2>1, <2>2, FreeFound
  <2> QED
    BY <1>4, <2>3
<1> QED
  BY <1>1, <1>3, <1>4, Found

LEMMA LoadKeeps ==
    ASSUME NEW dbs, FileShape(dbs), NEW k \in DOMAIN dbs, NEW slots,
           LoadedSoFar(slots, dbs, k - 1), NEW new, new = LoadOne(slots, dbs[k])
    PROVE  LoadedSoFar(new, dbs, k)
<1>1. PICK n \in Nat : n = Len(dbs) /\ DOMAIN dbs = 1 .. n /\ k \in 1 .. n
  BY DEF FileShape
<1>2. PICK database \in DatabaseType : database = dbs[k]
  BY <1>1 DEF FileShape
<1>3. PICK id : id = SlotToLoad(slots, database.name)
  OBVIOUS
<1>4. /\ id \in Slots
      /\ slots.used[id] => slots.names[id] = database.name
      /\ \A d \in Slots \ {id} : slots.used[d] => slots.names[d] # database.name
  BY <1>2, <1>3, SlotIsThere
<1>5. new = LoadInto(slots, id, database)
  BY <1>2, <1>3 DEF LoadOne
<1>6. slots \in SlotsType /\ new \in SlotsType
  BY <1>2, LoadOneType DEF LoadedSoFar
<1>7. /\ \A d \in Slots \ {id} :
           /\ new.names[d] = slots.names[d] /\ new.used[d] = slots.used[d]
           /\ new.catalog[d] = slots.catalog[d] /\ new.heaps[d] = slots.heaps[d]
      /\ new.names[id] = database.name /\ new.used[id]
      /\ new.catalog[id] = {h.table : h \in database.tables}
      /\ new.heaps[id] = SetToSeq(database.tables)
  BY <1>4, <1>5, <1>6, IntoSlot
<1>8. Named(new.names, new.used)
  <2>1. new.used[0] /\ new.names[0] = Main
    BY <1>4, <1>7, SlotsAreFinite DEF LoadedSoFar, Named
  <2>2. ASSUME NEW d \in Slots, NEW e \in Slots, new.used[d], new.used[e],
               new.names[d] = new.names[e]
        PROVE  d = e
    BY <1>4, <1>7, <2>2 DEF LoadedSoFar, Named
  <2> QED
    BY <2>1, <2>2 DEF Named
<1>9. \A g, h \in database.tables : g.table = h.table => g = h
  BY <1>2 DEF FileShape
<1>10. ASSUME NEW d \in Slots PROVE Listed(new.catalog[d], new.heaps[d])
  <2>1. CASE d = id
    <3>1. Listed({h.table : h \in database.tables}, SetToSeq(database.tables))
      BY <1>9, TablesListed
    <3> QED
      BY <1>7, <2>1, <3>1
  <2>2. CASE d # id
    BY <1>7, <2>2 DEF LoadedSoFar
  <2> QED
    BY <2>1, <2>2
<1>11. ASSUME NEW i \in 1 .. k
       PROVE  Loaded(new.names, new.used, new.heaps, dbs[i])
  <2>1. CASE i = k
    <3>1. ToSet(new.heaps[id]) = database.tables
      BY <1>7, <1>9, TablesListed
    <3> QED
      BY <1>2, <1>4, <1>7, <2>1, <3>1 DEF Loaded
  <2>2. CASE i # k
    <3>1. i \in 1 .. k - 1 /\ i \in 1 .. n
      BY <1>1, <2>2
    <3>2. PICK d \in Slots : /\ slots.used[d] /\ slots.names[d] = dbs[i].name
                             /\ ToSet(slots.heaps[d]) = dbs[i].tables
      BY <3>1 DEF LoadedSoFar, Loaded
    <3>3. dbs[i].name # dbs[k].name
      BY <1>1, <2>2, <3>1 DEF FileShape
    <3>4. d # id
      BY <1>2, <1>4, <3>2, <3>3
    <3> QED
      BY <1>7, <3>2, <3>4 DEF Loaded
  <2> QED
    BY <2>1, <2>2
<1>12. ASSUME NEW d \in Slots, new.used[d]
       PROVE  new.names[d] = Main \/ \E i \in 1 .. k : dbs[i].name = new.names[d]
  <2>1. CASE d = id
    <3>1. k \in 1 .. k
      BY <1>1
    <3> QED
      BY <1>2, <1>7, <2>1, <3>1
  <2>2. CASE d # id
    <3>1. slots.used[d] /\ new.names[d] = slots.names[d]
      BY <1>7, <1>12, <2>2
    <3>2. slots.names[d] = Main \/ \E i \in 1 .. k - 1 : dbs[i].name = slots.names[d]
      BY <3>1 DEF LoadedSoFar
    <3>3. \A i \in 1 .. k - 1 : i \in 1 .. k
      BY <1>1
    <3> QED
      BY <3>1, <3>2, <3>3
  <2> QED
    BY <2>1, <2>2
<1> QED
  BY <1>6, <1>8, <1>10, <1>11, <1>12 DEF LoadedSoFar

LEMMA EmptyIsLoaded ==
    ASSUME NEW dbs PROVE LoadedSoFar(EmptySlots, dbs, 0)
<1>1. /\ EmptySlots.names = [d \in Slots |-> Main]
      /\ EmptySlots.used = [d \in Slots |-> d = 0]
      /\ EmptySlots.catalog = [d \in Slots |-> {}]
      /\ EmptySlots.heaps = [d \in Slots |-> <<>>]
  BY DEF EmptySlots
<1>2. Named(EmptySlots.names, EmptySlots.used)
  BY <1>1, SlotsAreFinite DEF Named
<1>3. Listed({}, <<>>)
  <2>1. DOMAIN <<>> = {}
    OBVIOUS
  <2> QED
    BY <2>1 DEF Listed
<1>4. \A d \in Slots : Listed(EmptySlots.catalog[d], EmptySlots.heaps[d])
  BY <1>1, <1>3
<1>5. 1 .. 0 = {}
  OBVIOUS
<1>6. \A d \in Slots : EmptySlots.names[d] = Main
  BY <1>1
<1> QED
  BY <1>2, <1>4, <1>5, <1>6, EmptySlotsType DEF LoadedSoFar

\* loadDatabase brings back what the file says, whatever slots it deals out.
LEMMA LoadBrings ==
    ASSUME NEW file, FileShape(file.databases), NEW slots, slots = LoadDatabase(file)
    PROVE  /\ slots \in SlotsType
           /\ Named(slots.names, slots.used)
           /\ \A d \in Slots : Listed(slots.catalog[d], slots.heaps[d])
           /\ Agrees(file.databases, slots.names, slots.used, slots.heaps)
<1>1. PICK dbs : dbs = file.databases /\ dbs \in Seq(DatabaseType) /\ FileShape(dbs)
  BY DEF FileShape
<1>2. PICK n \in Nat : n = Len(dbs) /\ DOMAIN dbs = 1 .. n
  BY <1>1
<1>3. PICK r : /\ r[0] = EmptySlots
               /\ \A k \in 1 .. n : r[k] = LoadOne(r[k - 1], dbs[k])
               /\ slots = r[n]
  BY <1>1, <1>2, LoadSteps
<1> DEFINE S == {k \in 0 .. n : ~LoadedSoFar(r[k], dbs, k)}
<1>4. S = {}
  <2>1. 0 \notin S
    BY <1>3, EmptyIsLoaded
  <2>2. ASSUME NEW k \in 1 .. n, k \in S PROVE k - 1 \in S
    <3>1. k - 1 \in 0 .. n
      BY <1>2
    <3>2. ~LoadedSoFar(r[k], dbs, k)
      BY <2>2
    <3>3. ~LoadedSoFar(r[k - 1], dbs, k - 1)
      BY <1>1, <1>2, <1>3, <3>2, LoadKeeps
    <3> QED
      BY <3>1, <3>3
  <2>3. S \in SUBSET (0 .. n)
    OBVIOUS
  <2> HIDE DEF S
  <2> QED
    BY <2>1, <2>2, <2>3, Upwards
<1>5. LoadedSoFar(slots, dbs, n)
  <2>1. n \in 0 .. n
    BY <1>2
  <2> QED
    BY <1>3, <1>4, <2>1
<1>6. Agrees(dbs, slots.names, slots.used, slots.heaps)
  BY <1>1, <1>2, <1>5 DEF LoadedSoFar, Agrees, FileShape
<1> QED
  BY <1>1, <1>5, <1>6 DEF LoadedSoFar

-----------------------------------------------------------------------------
(* Saving *)

\* A finite set of natural numbers can be put in ascending order: each goes to
\* the place that is the number of those that are not above it.
LEMMA Ascending ==
    ASSUME NEW U \in SUBSET Nat, IsFiniteSet(U), NEW n \in Nat, n = Cardinality(U)
    PROVE  \E f \in [1 .. n -> U] : \A i, j \in DOMAIN f : i < j => f[i] < f[j]
<1> DEFINE UpTo(d) == {e \in U : e <= d}
           rank == [d \in U |-> Cardinality(UpTo(d))]
<1>1. ASSUME NEW d \in U
      PROVE  IsFiniteSet(UpTo(d)) /\ rank[d] \in 1 .. n /\ rank[d] = Cardinality(UpTo(d))
  <2>1. UpTo(d) \in SUBSET U /\ d \in UpTo(d)
    OBVIOUS
  <2>2. IsFiniteSet(UpTo(d)) /\ Cardinality(UpTo(d)) <= n
    BY <2>1, FS_Subset
  <2>3. Cardinality(UpTo(d)) \in Nat /\ Cardinality(UpTo(d)) # 0
    <3> HIDE DEF UpTo
    <3> QED
      BY <2>1, <2>2, FS_CardinalityType, FS_EmptySet
  <2> QED
    BY <2>2, <2>3
<1>2. ASSUME NEW d \in U, NEW e \in U, d < e
      PROVE  rank[d] < rank[e]
  <2>1. UpTo(d) \in SUBSET UpTo(e) /\ e \in UpTo(e) /\ e \notin UpTo(d)
    <3>1. d \in Nat /\ e \in Nat /\ ~(e <= d)
      BY <1>2
    <3>2. ASSUME NEW x \in U, x <= d PROVE x <= e
      <4>1. x \in Nat
        OBVIOUS
      <4> QED
        BY <1>2, <3>1, <3>2, <4>1
    <3>3. UpTo(d) \in SUBSET UpTo(e)
      BY <3>2
    <3>4. e \in UpTo(e)
      BY <3>1
    <3>5. e \notin UpTo(d)
      BY <3>1
    <3> QED
      BY <3>3, <3>4, <3>5
  <2>2. UpTo(d) # UpTo(e)
    BY <2>1
  <2> HIDE DEF UpTo, rank
  <2>3. Cardinality(UpTo(d)) <= Cardinality(UpTo(e)) /\ Cardinality(UpTo(d)) # Cardinality(UpTo(e))
    BY <1>1, <2>1, <2>2, FS_Subset
  <2> QED
    BY <1>1, <2>3
<1> HIDE DEF UpTo
<1>3. \A d, e \in U : rank[d] = rank[e] => d = e
  <2> SUFFICES ASSUME NEW d \in U, NEW e \in U, rank[d] = rank[e], d # e PROVE FALSE
    OBVIOUS
  <2>1. d < e \/ e < d
    OBVIOUS
  <2>2. rank[d] \in Nat /\ rank[e] \in Nat
    BY <1>1
  <2> HIDE DEF rank
  <2> QED
    BY <1>2, <2>1, <2>2
<1>4. rank \in [U -> 1 .. n]
  BY <1>1
<1> HIDE DEF rank
<1>5. rank \in Injection(U, 1 .. n)
  BY <1>3, <1>4 DEF Injection, IsInjective
<1>6. IsFiniteSet(1 .. n) /\ Cardinality(1 .. n) = n
  BY FS_Interval
<1>7. rank \in Surjection(U, 1 .. n)
  BY <1>5, <1>6, FS_Injection
<1>8. \A i \in 1 .. n : \E d \in U : rank[d] = i
  BY <1>7 DEF Surjection
<1> DEFINE f == [i \in 1 .. n |-> CHOOSE d \in U : rank[d] = i]
<1>9. \A i \in 1 .. n : f[i] \in U /\ rank[f[i]] = i
  BY <1>8
<1>10. f \in [1 .. n -> U] /\ DOMAIN f = 1 .. n
  BY <1>9
<1> HIDE DEF f
<1>11. ASSUME NEW i \in 1 .. n, NEW j \in 1 .. n, i < j PROVE f[i] < f[j]
  <2>1. f[i] \in Nat /\ f[j] \in Nat
    BY <1>9
  <2>2. f[i] = f[j] \/ f[i] < f[j] \/ f[j] < f[i]
    BY <2>1
  <2>3. ~(f[j] < f[i])
    <3> SUFFICES ASSUME f[j] < f[i] PROVE FALSE
      OBVIOUS
    <3>1. rank[f[j]] < rank[f[i]]
      BY <1>2, <1>9
    <3> QED
      BY <1>9, <1>11, <3>1
  <2>4. f[i] # f[j]
    BY <1>9, <1>11
  <2> QED
    BY <2>2, <2>3, <2>4
<1> QED
  BY <1>10, <1>11

\* The slots in use are listed, each once.
LEMMA InUse ==
    ASSUME NEW us, NEW f, f = SlotsInUse(us)
    PROVE  \E n \in Nat : /\ n <= MaxDatabases /\ DOMAIN f = 1 .. n
                          /\ \A i \in 1 .. n : f[i] \in Slots /\ us[f[i]]
                          /\ \A i, j \in 1 .. n : f[i] = f[j] => i = j
                          /\ \A d \in Slots : us[d] => \E i \in 1 .. n : f[i] = d
<1> DEFINE U == {d \in Slots : us[d]}
           n == Cardinality(U)
           L == [1 .. n -> U]
<1>1. U \in SUBSET Slots /\ U \in SUBSET Nat
  BY SlotsAreFinite
<1>2. IsFiniteSet(U) /\ n <= MaxDatabases /\ n \in Nat
  BY <1>1, SlotsAreFinite, FS_Subset, FS_CardinalityType
<1>3. \E g \in L : \A i, j \in DOMAIN g : i < j => g[i] < g[j]
  <2> HIDE DEF U
  <2> QED
    BY <1>1, <1>2, Ascending
<1>4. f \in L /\ \A i, j \in DOMAIN f : i < j => f[i] < f[j]
  <2>1. f = CHOOSE g \in L : \A i, j \in DOMAIN g : i < j => g[i] < g[j]
    BY DEF SlotsInUse
  <2> HIDE DEF L
  <2> QED
    BY <1>3, <2>1
<1> HIDE DEF n
<1>5. DOMAIN f = 1 .. n /\ f \in [1 .. n -> U] /\ \A i \in 1 .. n : f[i] \in U
  BY <1>4
<1>6. ASSUME NEW i \in 1 .. n, NEW j \in 1 .. n, f[i] = f[j] PROVE i = j
  <2>1. i < j \/ j < i \/ i = j
    BY <1>2
  <2>2. f[i] \in Nat /\ f[j] \in Nat
    BY <1>1, <1>5
  <2> QED
    BY <1>4, <1>5, <1>6, <2>1, <2>2
<1>7. f \in Injection(1 .. n, U)
  BY <1>5, <1>6 DEF Injection, IsInjective
<1>8. IsFiniteSet(1 .. n) /\ Cardinality(1 .. n) = n
  BY <1>2, FS_Interval
<1>9. f \in Surjection(1 .. n, U)
  <2> HIDE DEF U
  <2>1. Cardinality(1 .. n) = Cardinality(U)
    BY <1>8 DEF n
  <2> QED
    BY <1>2, <1>7, <2>1, FS_Injection
<1>10. \A d \in U : \E i \in 1 .. n : f[i] = d
  BY <1>9 DEF Surjection
<1> QED
  BY <1>2, <1>5, <1>6, <1>10

\* What is saved of a slot's tables are their heaps.
SavedOf(hs, cat, home) == {SavedHeap(hs, t, home) : t \in cat}

LEMMA SavedTables ==
    ASSUME NEW hs \in Seq(HeapType), NEW cat, Listed(cat, hs), NEW home
    PROVE  /\ SavedOf(hs, cat, home) = ToSet(hs)
           /\ ToSet(hs) \in SUBSET HeapType /\ IsFiniteSet(ToSet(hs))
           /\ \A g, h \in ToSet(hs) : g.table = h.table => g = h
<1>1. PICK n \in Nat : n = Len(hs) /\ DOMAIN hs = 1 .. n
  OBVIOUS
<1>2. \A t \in cat : \E i \in DOMAIN hs : hs[i].table = t /\ SavedHeap(hs, t, home) = hs[i]
  <2> TAKE t \in cat
  <2>1. HeapAt(hs, t) \in DOMAIN hs /\ hs[HeapAt(hs, t)].table = t
    BY HeapFound
  <2>2. SavedHeap(hs, t, home) = hs[HeapAt(hs, t)]
    BY <2>1 DEF SavedHeap
  <2> QED
    BY <2>1, <2>2
<1>3. {SavedHeap(hs, t, home) : t \in cat} = ToSet(hs)
  <2>1. ASSUME NEW t \in cat PROVE SavedHeap(hs, t, home) \in ToSet(hs)
    BY <1>2 DEF ToSet
  <2>2. ASSUME NEW x \in ToSet(hs) PROVE \E t \in cat : SavedHeap(hs, t, home) = x
    <3>1. PICK i \in DOMAIN hs : x = hs[i]
      BY DEF ToSet
    <3>2. hs[i].table \in cat
      BY DEF Listed
    <3>3. PICK j \in DOMAIN hs : /\ hs[j].table = hs[i].table
                                 /\ SavedHeap(hs, hs[i].table, home) = hs[j]
      BY <1>2, <3>2
    <3>4. j = i
      BY <3>3 DEF Listed
    <3> QED
      BY <3>1, <3>2, <3>3, <3>4
  <2> QED
    BY <2>1, <2>2
<1>4. hs \in [1 .. n -> ToSet(hs)] /\ \A x \in ToSet(hs) : \E i \in 1 .. n : hs[i] = x
  BY <1>1 DEF ToSet
<1>5. hs \in Surjection(1 .. n, ToSet(hs))
  BY <1>4 DEF Surjection
<1>6. IsFiniteSet(ToSet(hs))
  <2>1. IsFiniteSet(1 .. n)
    BY <1>1, FS_Interval
  <2> QED
    BY <1>5, <2>1, FS_Surjection
<1>7. ToSet(hs) \in SUBSET HeapType
  BY <1>1 DEF ToSet
<1>8. ASSUME NEW g \in ToSet(hs), NEW h \in ToSet(hs), g.table = h.table PROVE g = h
  <2>1. PICK i \in DOMAIN hs : g = hs[i]
    BY DEF ToSet
  <2>2. PICK j \in DOMAIN hs : h = hs[j]
    BY DEF ToSet
  <2> QED
    BY <1>8, <2>1, <2>2 DEF Listed
<1> QED
  BY <1>3, <1>6, <1>7, <1>8 DEF SavedOf

\* saveDatabase writes what the slots have.
LEMMA SaveWrites ==
    ASSUME NEW s, NEW ns, NEW us, NEW cat, NEW hs, NEW cur, ns \in [Slots -> DbNames],
           hs \in [Slots -> Seq(HeapType)], Named(ns, us),
           \A d \in Slots : Listed(cat[d], hs[d]),
           NEW dbs, dbs = SaveCatalog(s, ns, us, cat, hs, cur).databases
    PROVE  FileShape(dbs) /\ Agrees(dbs, ns, us, hs)
<1>1. PICK f : f = SlotsInUse(us)
  OBVIOUS
<1>2. PICK n \in Nat : /\ n <= MaxDatabases /\ DOMAIN f = 1 .. n
                       /\ \A i \in 1 .. n : f[i] \in Slots /\ us[f[i]]
                       /\ \A i, j \in 1 .. n : f[i] = f[j] => i = j
                       /\ \A d \in Slots : us[d] => \E i \in 1 .. n : f[i] = d
  BY <1>1, InUse
<1>3. dbs = [i \in 1 .. n |->
               [name |-> ns[f[i]],
                tables |-> {SavedHeap(hs[f[i]], t, ns[f[i]]) : t \in cat[f[i]]}]]
  BY <1>1, <1>2 DEF SaveCatalog
<1>4. ASSUME NEW i \in 1 .. n
      PROVE  /\ dbs[i] \in DatabaseType
             /\ dbs[i].name = ns[f[i]] /\ dbs[i].tables = ToSet(hs[f[i]])
             /\ \A g, h \in dbs[i].tables : g.table = h.table => g = h
  <2>1. PICK d \in Slots : d = f[i]
    BY <1>2
  <2>2. PICK h \in Seq(HeapType), name \in DbNames : h = hs[d] /\ name = ns[d]
    OBVIOUS
  <2> DEFINE c == cat[d]
  <2>10. Listed(c, h)
    BY <2>2
  <2> HIDE DEF c
  <2>3. PICK T : T = ToSet(h)
    OBVIOUS
  <2>4. /\ SavedOf(h, c, name) = T
        /\ T \in SUBSET HeapType /\ IsFiniteSet(T)
        /\ \A x, y \in T : x.table = y.table => x = y
    BY <2>3, <2>10, SavedTables
  <2>5. dbs[i] = [name |-> ns[f[i]],
                  tables |-> {SavedHeap(hs[f[i]], t, ns[f[i]]) : t \in cat[f[i]]}]
    BY <1>3
  <2>6. dbs[i] = [name |-> name, tables |-> SavedOf(h, c, name)]
    BY <2>1, <2>2, <2>5 DEF c, SavedOf
  <2>7. dbs[i] = [name |-> name, tables |-> T]
    BY <2>4, <2>6
  <2>8. dbs[i] \in DatabaseType
    BY <2>4, <2>7 DEF DatabaseType
  <2>9. dbs[i].name = name /\ dbs[i].tables = T
    BY <2>7
  <2> QED
    BY <2>1, <2>2, <2>3, <2>4, <2>8, <2>9
<1>5. \A i \in 1 .. n : dbs[i] \in DatabaseType
  BY <1>4
<1>6. dbs = [i \in 1 .. n |-> dbs[i]]
  BY <1>3
<1>7. dbs \in Seq(DatabaseType) /\ DOMAIN dbs = 1 .. n /\ Len(dbs) = n
  <2>1. dbs \in [1 .. n -> DatabaseType]
    BY <1>5, <1>6
  <2> QED
    BY <2>1
<1>8. \A i \in 1 .. n : /\ dbs[i].name = ns[f[i]] /\ dbs[i].tables = ToSet(hs[f[i]])
  BY <1>4
<1>9. \A i, j \in 1 .. n : dbs[i].name = dbs[j].name => i = j
  <2> SUFFICES ASSUME NEW i \in 1 .. n, NEW j \in 1 .. n, dbs[i].name = dbs[j].name
               PROVE  i = j
    OBVIOUS
  <2>1. ns[f[i]] = ns[f[j]]
    BY <1>8
  <2>2. f[i] = f[j]
    BY <1>2, <2>1 DEF Named
  <2> QED
    BY <1>2, <2>2
<1>10. \E i \in 1 .. n : dbs[i].name = Main
  <2>1. PICK i \in 1 .. n : f[i] = 0
    BY <1>2, SlotsAreFinite DEF Named
  <2> QED
    BY <1>8, <2>1 DEF Named
<1>11. \A i \in 1 .. n : \A g, h \in dbs[i].tables : g.table = h.table => g = h
  BY <1>4
<1>12. FileShape(dbs)
  BY <1>2, <1>7, <1>9, <1>10, <1>11 DEF FileShape
<1>13. \A i \in 1 .. n : Loaded(ns, us, hs, dbs[i])
  <2> TAKE i \in 1 .. n
  <2>1. f[i] \in Slots /\ us[f[i]]
    BY <1>2
  <2>2. ns[f[i]] = dbs[i].name /\ ToSet(hs[f[i]]) = dbs[i].tables
    BY <1>8
  <2> QED
    BY <2>1, <2>2 DEF Loaded
<1>14. ASSUME NEW d \in Slots, us[d] PROVE \E i \in 1 .. n : dbs[i].name = ns[d]
  <2>1. PICK i \in 1 .. n : f[i] = d
    BY <1>2, <1>14
  <2>2. dbs[i].name = ns[f[i]]
    BY <1>8
  <2> QED
    BY <2>1, <2>2
<1> QED
  BY <1>7, <1>12, <1>13, <1>14 DEF Agrees

-----------------------------------------------------------------------------
(* The invariant *)

Types ==
    /\ names \in [Slots -> DbNames] /\ used \in [Slots -> BOOLEAN]
    /\ catalog \in [Slots -> SUBSET Tables] /\ heaps \in [Slots -> Seq(HeapType)]
    /\ current \in [Sessions -> Slots]
    /\ holder \in Sessions \cup {NoSession} /\ changed \in BOOLEAN

SlotsInv ==
    /\ Types
    /\ Named(names, used)
    /\ \A d \in Slots : Listed(catalog[d], heaps[d])

\* What is not in the file is only what an open transaction changed, and the flag
\* says so.
FileInv ==
    /\ FileShape(saved.databases)
    /\ holder = NoSession => ~changed
    /\ ~changed => Agrees(saved.databases, names, used, heaps)

DatabasesInv == SlotsInv /\ FileInv

\* A statement that changed the schema, outside a transaction or in one.
LEMMA ChangeIsKept ==
    ASSUME DatabasesInv, SlotsInv', NEW s \in Sessions, holder' = holder, FinishSchemaChange(s)
    PROVE  FileInv'
<1>1. CASE holder = NoSession
  <2>1. changed' = FALSE /\ saved' = SaveCatalog(s, names', used', catalog', heaps', current')
    BY <1>1 DEF FinishSchemaChange
  <2>2. PICK dbs : dbs = SaveCatalog(s, names', used', catalog', heaps', current').databases
    OBVIOUS
  <2>3. FileShape(dbs) /\ Agrees(dbs, names', used', heaps')
    BY <2>2, SaveWrites DEF SlotsInv, Types
  <2> QED
    BY <2>1, <2>2, <2>3 DEF FileInv
<1>2. CASE holder # NoSession
  <2>1. changed' = TRUE /\ saved' = saved
    BY <1>2 DEF FinishSchemaChange
  <2> QED
    BY <1>2, <2>1 DEF FileInv, DatabasesInv
<1> QED
  BY <1>1, <1>2

\* A save, or none, of slots that stay as they are.
LEMMA SaveIsKept ==
    ASSUME DatabasesInv, NEW s, NEW cur, UNCHANGED <<names, used, catalog, heaps>>,
           \/ saved' = SaveCatalog(s, names, used, catalog, heaps, cur)
           \/ saved' = saved /\ ~changed,
           changed' = FALSE
    PROVE  FileInv'
<1>1. CASE saved' = SaveCatalog(s, names, used, catalog, heaps, cur)
  <2>1. PICK dbs : dbs = SaveCatalog(s, names, used, catalog, heaps, cur).databases
    OBVIOUS
  <2>2. FileShape(dbs) /\ Agrees(dbs, names, used, heaps)
    BY <2>1, SaveWrites DEF DatabasesInv, SlotsInv, Types
  <2> QED
    BY <1>1, <2>1, <2>2 DEF FileInv
<1>2. CASE saved' = saved /\ ~changed
  BY <1>2 DEF FileInv, DatabasesInv
<1> QED
  BY <1>1, <1>2

\* The slots as the file has them.
LEMMA LoadIsKept ==
    ASSUME DatabasesInv, NEW slots, slots = LoadDatabase(saved),
           names' = slots.names, used' = slots.used, catalog' = slots.catalog,
           heaps' = slots.heaps, changed' = FALSE, saved' = saved,
           current' \in [Sessions -> Slots], holder' \in Sessions \cup {NoSession}
    PROVE  DatabasesInv'
<1>1. FileShape(saved.databases)
  BY DEF DatabasesInv, FileInv
<1>2. /\ slots \in SlotsType
      /\ Named(slots.names, slots.used)
      /\ \A d \in Slots : Listed(slots.catalog[d], slots.heaps[d])
      /\ Agrees(saved.databases, slots.names, slots.used, slots.heaps)
  BY <1>1, LoadBrings
<1>3. /\ slots.names \in [Slots -> DbNames] /\ slots.used \in [Slots -> BOOLEAN]
      /\ slots.catalog \in [Slots -> SUBSET Tables]
      /\ slots.heaps \in [Slots -> Seq(HeapType)]
  BY <1>2 DEF SlotsType
<1>4. Types'
  BY <1>3 DEF Types
<1>5. SlotsInv'
  BY <1>2, <1>4 DEF SlotsInv
<1>6. FileInv'
  BY <1>1, <1>2 DEF FileInv
<1> QED
  BY <1>5, <1>6 DEF DatabasesInv

LEMMA NothingListed == Listed({}, <<>>) /\ <<>> \in Seq(HeapType)
<1>1. DOMAIN <<>> = {}
  OBVIOUS
<1> QED
  BY <1>1 DEF Listed

LEMMA CreateDatabaseKeeps ==
    ASSUME DatabasesInv, NEW s \in Sessions, NEW name \in DbNames, CreateDatabase(s, name)
    PROVE  DatabasesInv'
<1>1. PICK id : id = FirstFree(used)
  OBVIOUS
<1>2. id \in Slots /\ ~used[id]
  BY <1>1, FreeFound DEF CreateDatabase
<1>3. \A d \in Slots : used[d] => names[d] # name
  BY Found, SlotsAreFinite DEF CreateDatabase
<1>4. /\ names' = [names EXCEPT ![id] = name] /\ used' = [used EXCEPT ![id] = TRUE]
      /\ UNCHANGED <<catalog, heaps, current, holder>> /\ FinishSchemaChange(s)
  BY <1>1 DEF CreateDatabase
<1>5. Types /\ Named(names, used)
  BY DEF DatabasesInv, SlotsInv
<1>6. changed' \in BOOLEAN
  BY <1>4 DEF FinishSchemaChange
<1>7. Types'
  <2>1. names' \in [Slots -> DbNames] /\ used' \in [Slots -> BOOLEAN]
    BY <1>4, <1>5 DEF Types
  <2> QED
    BY <1>4, <1>5, <1>6, <2>1 DEF Types
<1>8. /\ names'[id] = name /\ used'[id]
      /\ \A d \in Slots \ {id} : names'[d] = names[d] /\ used'[d] = used[d]
  BY <1>2, <1>4, <1>5 DEF Types
<1>9. Named(names', used')
  <2>1. used'[0] /\ names'[0] = Main
    BY <1>2, <1>5, <1>8, SlotsAreFinite DEF Named
  <2>2. ASSUME NEW d \in Slots, NEW e \in Slots, used'[d], used'[e], names'[d] = names'[e]
        PROVE  d = e
    BY <1>2, <1>3, <1>5, <1>8, <2>2 DEF Named
  <2> QED
    BY <2>1, <2>2 DEF Named
<1>10. SlotsInv'
  BY <1>4, <1>7, <1>9 DEF SlotsInv, DatabasesInv
<1> QED
  BY <1>4, <1>10, ChangeIsKept DEF DatabasesInv

LEMMA UseDatabaseKeeps ==
    ASSUME DatabasesInv, NEW s \in Sessions, NEW name \in DbNames, UseDatabase(s, name)
    PROVE  DatabasesInv'
<1>1. PICK id \in Slots : id = FindDatabase(names, used, name)
  BY Found DEF UseDatabase
<1>2. /\ UNCHANGED <<names, used, catalog, heaps, holder, changed>>
      /\ current' = [current EXCEPT ![s] = id]
  BY <1>1 DEF UseDatabase
<1>3. SlotsInv'
  BY <1>2 DEF SlotsInv, DatabasesInv, Types
<1>4. FileInv'
  <2>1. CASE holder = NoSession
    <3>1. ~changed
      BY <2>1 DEF DatabasesInv, FileInv
    <3>2. CommitIfDirty(s)
      BY <2>1 DEF UseDatabase
    <3>3. changed' = FALSE
      BY <1>2, <3>1 DEF DatabasesInv, SlotsInv, Types
    <3> QED
      BY <1>2, <3>1, <3>2, <3>3, SaveIsKept DEF CommitIfDirty
  <2>2. CASE holder # NoSession
    <3>1. saved' = saved
      BY <2>2 DEF UseDatabase
    <3> QED
      BY <1>2, <3>1 DEF FileInv, DatabasesInv
  <2> QED
    BY <2>1, <2>2
<1> QED
  BY <1>3, <1>4 DEF DatabasesInv

LEMMA DropDatabaseKeeps ==
    ASSUME DatabasesInv, NEW s \in Sessions, NEW name \in DbNames, DropDatabase(s, name)
    PROVE  DatabasesInv'
<1>1. PICK id : id = FindDatabase(names, used, name) /\ id > 0
  BY DEF DropDatabase
<1>2. id \in Slots /\ id # 0
  <2>1. id # -1 /\ id # 0
    BY <1>1
  <2> QED
    BY <1>1, <2>1, Found
<1>3. /\ used' = [used EXCEPT ![id] = FALSE]
      /\ catalog' = [catalog EXCEPT ![id] = {}]
      /\ heaps' = [heaps EXCEPT ![id] = DropTables(heaps[id], catalog[id])]
      /\ current' = LeaveDropped(s, id)
      /\ UNCHANGED <<names, holder>> /\ FinishSchemaChange(s)
  BY <1>1 DEF DropDatabase, DropTables
<1>4. Types /\ Named(names, used) /\ \A d \in Slots : Listed(catalog[d], heaps[d])
  BY DEF DatabasesInv, SlotsInv
<1>5. DropTables(heaps[id], catalog[id]) = <<>>
  <2>1. heaps[id] \in Seq(HeapType) /\ Listed(catalog[id], heaps[id])
    BY <1>2, <1>4 DEF Types
  <2> QED
    BY <2>1, AllDropped
<1>6. heaps' = [heaps EXCEPT ![id] = <<>>]
  BY <1>3, <1>5
<1>7. Types'
  <2>1. used' \in [Slots -> BOOLEAN] /\ catalog' \in [Slots -> SUBSET Tables]
    BY <1>3, <1>4 DEF Types
  <2>2. heaps' \in [Slots -> Seq(HeapType)]
    BY <1>4, <1>6, NothingListed DEF Types
  <2>3. current' \in [Sessions -> Slots]
    BY <1>3, <1>4, SlotsAreFinite DEF Types, LeaveDropped
  <2>4. changed' \in BOOLEAN
    BY <1>3 DEF FinishSchemaChange
  <2> QED
    BY <1>3, <1>4, <2>1, <2>2, <2>3, <2>4 DEF Types
<1>8. /\ ~used'[id] /\ catalog'[id] = {} /\ heaps'[id] = <<>>
      /\ \A d \in Slots \ {id} : /\ used'[d] = used[d] /\ catalog'[d] = catalog[d]
                                  /\ heaps'[d] = heaps[d]
  BY <1>2, <1>3, <1>4, <1>6 DEF Types
<1>9. Named(names', used')
  BY <1>2, <1>3, <1>4, <1>8, SlotsAreFinite DEF Named
<1>10. \A d \in Slots : Listed(catalog'[d], heaps'[d])
  BY <1>4, <1>8, NothingListed
<1>11. SlotsInv'
  BY <1>7, <1>9, <1>10 DEF SlotsInv
<1> QED
  BY <1>3, <1>11, ChangeIsKept DEF DatabasesInv

\* A statement that changes the tables of one slot, in both lists alike.
LEMMA TablesChange ==
    ASSUME DatabasesInv, NEW s \in Sessions, NEW d \in Slots,
           NEW cat \in SUBSET Tables, NEW hs \in Seq(HeapType), Listed(cat, hs),
           catalog' = [catalog EXCEPT ![d] = cat], heaps' = [heaps EXCEPT ![d] = hs],
           UNCHANGED <<names, used, current, holder>>, FinishSchemaChange(s)
    PROVE  DatabasesInv'
<1>1. Types /\ Named(names, used) /\ \A e \in Slots : Listed(catalog[e], heaps[e])
  BY DEF DatabasesInv, SlotsInv
<1>2. Types'
  <2>1. catalog' \in [Slots -> SUBSET Tables] /\ heaps' \in [Slots -> Seq(HeapType)]
    BY <1>1 DEF Types
  <2>2. changed' \in BOOLEAN
    BY DEF FinishSchemaChange
  <2> QED
    BY <1>1, <2>1, <2>2 DEF Types
<1>3. /\ catalog'[d] = cat /\ heaps'[d] = hs
      /\ \A e \in Slots \ {d} : catalog'[e] = catalog[e] /\ heaps'[e] = heaps[e]
  BY <1>1 DEF Types
<1>4. \A e \in Slots : Listed(catalog'[e], heaps'[e])
  BY <1>1, <1>3
<1>5. SlotsInv'
  BY <1>1, <1>2, <1>4 DEF SlotsInv
<1> QED
  BY <1>5, ChangeIsKept DEF DatabasesInv

LEMMA CreateTableKeeps ==
    ASSUME DatabasesInv, NEW s \in Sessions, NEW table \in Tables, CreateTable(s, table)
    PROVE  DatabasesInv'
<1>1. PICK d \in Slots : d = current[s]
  BY DEF DatabasesInv, SlotsInv, Types
<1>2. PICK h \in HeapType : h = Heap(table, names[d]) /\ h.table = table
  <2>1. PICK home \in DbNames : home = names[d]
    BY DEF DatabasesInv, SlotsInv, Types
  <2>2. PICK h : h = [table |-> table, home |-> home]
    OBVIOUS
  <2>3. h \in HeapType /\ h.table = table
    BY <2>2 DEF HeapType
  <2> QED
    BY <2>1, <2>2, <2>3 DEF Heap
<1>3. /\ catalog' = [catalog EXCEPT ![d] = catalog[d] \cup {table}]
      /\ heaps' = [heaps EXCEPT ![d] = Append(heaps[d], h)]
      /\ UNCHANGED <<names, used, current, holder>> /\ FinishSchemaChange(s)
      /\ table \notin catalog[d]
  BY <1>1, <1>2 DEF CreateTable
<1>4. PICK hs \in Seq(HeapType) : hs = heaps[d]
  BY DEF DatabasesInv, SlotsInv, Types
<1>5. Listed(catalog[d], hs)
  BY <1>4 DEF DatabasesInv, SlotsInv
<1>6. PICK n \in Nat : n = Len(hs) /\ DOMAIN hs = 1 .. n
  OBVIOUS
<1>7. PICK new \in Seq(HeapType) : /\ new = Append(hs, h) /\ DOMAIN new = 1 .. n + 1
                                   /\ new[n + 1] = h
                                   /\ \A i \in 1 .. n : new[i] = hs[i]
  <2>1. PICK new : new = Append(hs, h)
    OBVIOUS
  <2>2. new \in Seq(HeapType) /\ Len(new) = n + 1 /\ new[n + 1] = h
    BY <1>6, <2>1
  <2>3. \A i \in 1 .. n : new[i] = hs[i]
    BY <1>6, <2>1
  <2>4. DOMAIN new = 1 .. n + 1
    BY <2>2
  <2> QED
    BY <2>1, <2>2, <2>3, <2>4
<1>8. 1 .. n + 1 = (1 .. n) \cup {n + 1} /\ n + 1 \notin 1 .. n
  BY <1>6
<1>9. Listed(catalog[d] \cup {table}, new)
  <2>1. catalog[d] = {hs[i].table : i \in 1 .. n}
    BY <1>5, <1>6 DEF Listed
  <2>2. catalog[d] \cup {table} = {new[i].table : i \in 1 .. n + 1}
    BY <1>2, <1>7, <1>8, <2>1
  <2>3. \A i \in 1 .. n : new[i].table # table
    BY <1>3, <1>7, <2>1
  <2>4. ASSUME NEW i \in 1 .. n + 1, NEW j \in 1 .. n + 1, new[i].table = new[j].table
        PROVE  i = j
    <3>1. CASE i \in 1 .. n /\ j \in 1 .. n
      BY <1>5, <1>6, <1>7, <2>4, <3>1 DEF Listed
    <3> QED
      BY <1>2, <1>7, <1>8, <2>3, <2>4, <3>1
  <2> QED
    BY <1>7, <2>2, <2>4 DEF Listed
<1>10. catalog[d] \cup {table} \in SUBSET Tables
  BY DEF DatabasesInv, SlotsInv, Types
<1> QED
  BY <1>3, <1>4, <1>7, <1>9, <1>10, TablesChange

LEMMA DropTableKeeps ==
    ASSUME DatabasesInv, NEW s \in Sessions, NEW table \in Tables, DropTable(s, table)
    PROVE  DatabasesInv'
<1>1. PICK d \in Slots : d = current[s]
  BY DEF DatabasesInv, SlotsInv, Types
<1>2. /\ catalog' = [catalog EXCEPT ![d] = catalog[d] \ {table}]
      /\ heaps' = [heaps EXCEPT ![d] = DropHeap(heaps[d], table)]
      /\ UNCHANGED <<names, used, current, holder>> /\ FinishSchemaChange(s)
      /\ table \in catalog[d]
  BY <1>1 DEF DropTable
<1>3. heaps[d] \in Seq(HeapType) /\ Listed(catalog[d], heaps[d])
  BY DEF DatabasesInv, SlotsInv, Types
<1>4. DropHeap(heaps[d], table) \in Seq(HeapType)
  BY <1>3, Dropped
<1>5. Listed(catalog[d] \ {table}, DropHeap(heaps[d], table))
  BY <1>2, <1>3, DropKeepsListed
<1>6. catalog[d] \ {table} \in SUBSET Tables
  BY DEF DatabasesInv, SlotsInv, Types
<1> QED
  BY <1>2, <1>4, <1>5, <1>6, TablesChange

LEMMA RenameTableKeeps ==
    ASSUME DatabasesInv, NEW s \in Sessions, NEW from \in Tables, NEW to \in Tables,
           RenameTable(s, from, to)
    PROVE  DatabasesInv'
<1>1. PICK d \in Slots : d = current[s]
  BY DEF DatabasesInv, SlotsInv, Types
<1>2. /\ catalog' = [catalog EXCEPT ![d] = (catalog[d] \ {from}) \cup {to}]
      /\ heaps' = [heaps EXCEPT ![d] = RenameHeap(heaps[d], from, to)]
      /\ UNCHANGED <<names, used, current, holder>> /\ FinishSchemaChange(s)
      /\ from \in catalog[d] /\ to \notin catalog[d]
  BY <1>1 DEF RenameTable
<1>3. PICK hs \in Seq(HeapType) : hs = heaps[d] /\ Listed(catalog[d], hs)
  BY DEF DatabasesInv, SlotsInv, Types
<1>4. PICK n \in Nat : n = Len(hs) /\ DOMAIN hs = 1 .. n
  OBVIOUS
<1>5. PICK p \in 1 .. n : p = HeapAt(hs, from) /\ hs[p].table = from
  BY <1>2, <1>3, <1>4, HeapFound
<1> DEFINE new == [hs EXCEPT ![p].table = to]
<1>6. RenameHeap(hs, from, to) = new
  BY <1>5 DEF RenameHeap
<1>7. PICK h \in HeapType : h = [hs[p] EXCEPT !.table = to] /\ h.table = to
  <2>1. PICK g \in HeapType : g = hs[p]
    BY <1>4
  <2>2. PICK h : h = [g EXCEPT !.table = to]
    OBVIOUS
  <2>3. h \in HeapType /\ h.table = to
    BY <2>2 DEF HeapType
  <2> QED
    BY <2>1, <2>2, <2>3
<1>8. new \in Seq(HeapType)
  <2>1. new = [hs EXCEPT ![p] = h]
    BY <1>7
  <2> QED
    BY <1>4, <2>1
<1>9. /\ DOMAIN new = 1 .. n /\ new[p].table = to
      /\ \A i \in (1 .. n) \ {p} : new[i] = hs[i]
  BY <1>4, <1>5, <1>7
<1> HIDE DEF new
<1>10. catalog[d] = {hs[i].table : i \in 1 .. n}
  BY <1>3, <1>4 DEF Listed
<1>11. \A i \in (1 .. n) \ {p} : hs[i].table # from
  BY <1>3, <1>4, <1>5 DEF Listed
<1>12. (catalog[d] \ {from}) \cup {to} = {new[i].table : i \in 1 .. n}
  <2>1. ASSUME NEW t \in (catalog[d] \ {from}) \cup {to}
        PROVE  \E i \in 1 .. n : new[i].table = t
    <3>1. CASE t = to
      BY <1>9, <3>1
    <3>2. CASE t \in catalog[d] /\ t # from
      <4>1. PICK i \in 1 .. n : hs[i].table = t
        BY <1>10, <3>2
      <4>2. i # p
        BY <1>5, <3>2, <4>1
      <4> QED
        BY <1>9, <4>1, <4>2
    <3> QED
      BY <3>1, <3>2
  <2>2. ASSUME NEW i \in 1 .. n
        PROVE  new[i].table \in (catalog[d] \ {from}) \cup {to}
    BY <1>9, <1>10, <1>11
  <2> QED
    BY <2>1, <2>2
<1>13. ASSUME NEW i \in 1 .. n, NEW j \in 1 .. n, new[i].table = new[j].table
       PROVE  i = j
  <2>1. \A k \in (1 .. n) \ {p} : new[k].table # to
    BY <1>2, <1>9, <1>10
  <2>2. CASE i # p /\ j # p
    BY <1>3, <1>4, <1>9, <1>13, <2>2 DEF Listed
  <2> QED
    BY <1>9, <1>13, <2>1, <2>2
<1>14. Listed((catalog[d] \ {from}) \cup {to}, new)
  BY <1>9, <1>12, <1>13 DEF Listed
<1>15. (catalog[d] \ {from}) \cup {to} \in SUBSET Tables
  BY DEF DatabasesInv, SlotsInv, Types
<1> QED
  BY <1>2, <1>3, <1>6, <1>8, <1>14, <1>15, TablesChange

LEMMA WriteKeeps ==
    ASSUME DatabasesInv, NEW s \in Sessions, Write(s)
    PROVE  DatabasesInv'
<1>1. /\ UNCHANGED <<names, used, catalog, heaps, current, holder, changed>>
      /\ saved' = SaveCatalog(s, names, used, catalog, heaps, current)
      /\ holder = NoSession
  BY DEF Write
<1>2. SlotsInv'
  BY <1>1 DEF SlotsInv, DatabasesInv, Types
<1>3. changed' = FALSE
  BY <1>1 DEF DatabasesInv, FileInv, SlotsInv, Types
<1> QED
  BY <1>1, <1>2, <1>3, SaveIsKept DEF DatabasesInv

LEMMA BeginKeeps ==
    ASSUME DatabasesInv, NEW s \in Sessions, Begin(s)
    PROVE  DatabasesInv'
<1>1. /\ UNCHANGED <<names, used, catalog, heaps, current, changed, saved>> /\ holder' = s
  BY DEF Begin
<1>2. s # NoSession
  BY SessionsAssumption
<1>3. SlotsInv'
  BY <1>1 DEF SlotsInv, DatabasesInv, Types
<1>4. FileInv'
  BY <1>1, <1>2 DEF FileInv, DatabasesInv
<1> QED
  BY <1>3, <1>4 DEF DatabasesInv

LEMMA CommitKeeps ==
    ASSUME DatabasesInv, NEW s \in Sessions, Commit(s)
    PROVE  DatabasesInv'
<1>1. /\ UNCHANGED <<names, used, catalog, heaps, current>> /\ holder' = NoSession
      /\ changed' = FALSE
      /\ IF changed THEN saved' = SaveCatalog(s, names, used, catalog, heaps, current)
                    ELSE CommitIfDirty(s)
  BY DEF Commit
<1>2. SlotsInv'
  BY <1>1 DEF SlotsInv, DatabasesInv, Types
<1>3. \/ saved' = SaveCatalog(s, names, used, catalog, heaps, current)
      \/ saved' = saved /\ ~changed
  BY <1>1 DEF CommitIfDirty
<1> QED
  BY <1>1, <1>2, <1>3, SaveIsKept DEF DatabasesInv

LEMMA RollbackKeeps ==
    ASSUME DatabasesInv, NEW s \in Sessions, Rollback(s)
    PROVE  DatabasesInv'
<1>1. PICK slots : slots = LoadDatabase(saved)
  OBVIOUS
<1>2. PICK id : id = FindDatabase(slots.names, slots.used, saved.current)
  OBVIOUS
<1>3. /\ names' = slots.names /\ used' = slots.used /\ catalog' = slots.catalog
      /\ heaps' = slots.heaps /\ changed' = FALSE /\ saved' = saved /\ holder' = NoSession
      /\ current' = [current EXCEPT ![s] = IF id >= 0 THEN id ELSE 0]
  BY <1>1, <1>2 DEF Rollback, Reload
<1>4. (IF id >= 0 THEN id ELSE 0) \in Slots
  <2>1. id = -1 \/ id \in Slots
    BY <1>2, Found
  <2>2. ~(-1 >= 0)
    OBVIOUS
  <2> QED
    BY <2>1, <2>2, SlotsAreFinite
<1>5. current' \in [Sessions -> Slots]
  BY <1>3, <1>4 DEF DatabasesInv, SlotsInv, Types
<1> QED
  BY <1>1, <1>3, <1>5, LoadIsKept

LEMMA ReconnectKeeps ==
    ASSUME DatabasesInv, NEW s \in Sessions, Reconnect(s)
    PROVE  DatabasesInv'
<1>1. current' = [current EXCEPT ![s] = 0] /\ saved' = saved
  BY DEF Reconnect
<1>2. current' \in [Sessions -> Slots]
  BY <1>1, SlotsAreFinite DEF DatabasesInv, SlotsInv, Types
<1>3. CASE holder = s
  <2>1. PICK slots : slots = LoadDatabase(saved)
    OBVIOUS
  <2>2. /\ names' = slots.names /\ used' = slots.used /\ catalog' = slots.catalog
        /\ heaps' = slots.heaps /\ changed' = FALSE /\ holder' = NoSession
    BY <1>3, <2>1 DEF Reconnect
  <2> QED
    BY <1>1, <1>2, <2>1, <2>2, LoadIsKept
<1>4. CASE holder # s
  <2>1. UNCHANGED <<names, used, catalog, heaps, holder, changed>>
    BY <1>4 DEF Reconnect
  <2>2. SlotsInv'
    BY <1>2, <2>1 DEF SlotsInv, DatabasesInv, Types
  <2>3. FileInv'
    BY <1>1, <2>1 DEF FileInv, DatabasesInv
  <2> QED
    BY <2>2, <2>3 DEF DatabasesInv
<1> QED
  BY <1>3, <1>4

LEMMA RestartKeeps ==
    ASSUME DatabasesInv, Restart
    PROVE  DatabasesInv'
<1>1. PICK slots : slots = LoadDatabase(saved)
  OBVIOUS
<1>2. /\ names' = slots.names /\ used' = slots.used /\ catalog' = slots.catalog
      /\ heaps' = slots.heaps /\ changed' = FALSE /\ holder' = NoSession /\ saved' = saved
      /\ current' = [s \in Sessions |-> 0]
  BY <1>1 DEF Restart
<1>3. current' \in [Sessions -> Slots]
  BY <1>2, SlotsAreFinite
<1> QED
  BY <1>1, <1>2, <1>3, LoadIsKept

LEMMA InitIsGood == Init => DatabasesInv
<1> SUFFICES ASSUME Init PROVE DatabasesInv
  OBVIOUS
<1>1. /\ names = EmptySlots.names /\ used = EmptySlots.used
      /\ catalog = EmptySlots.catalog /\ heaps = EmptySlots.heaps
      /\ current = [s \in Sessions |-> 0] /\ holder = NoSession /\ changed = FALSE
      /\ saved.databases = <<[name |-> Main, tables |-> {}]>>
  BY DEF Init
<1>2. PICK main \in DatabaseType : main = [name |-> Main, tables |-> {}]
  BY MainAssumption, FS_EmptySet DEF DatabaseType
<1>3. main.name = Main /\ main.tables = {}
  BY <1>2
<1>4. PICK dbs \in Seq(DatabaseType) :
        dbs = saved.databases /\ Len(dbs) = 1 /\ DOMAIN dbs = {1} /\ dbs[1] = main
  <2>1. PICK dbs : dbs = <<main>>
    OBVIOUS
  <2>2. dbs \in Seq(DatabaseType) /\ Len(dbs) = 1 /\ dbs[1] = main
    BY <2>1
  <2>3. DOMAIN dbs = 1 .. 1 /\ 1 .. 1 = {1}
    BY <2>2
  <2>4. dbs = saved.databases
    BY <1>1, <1>2, <2>1
  <2> QED
    BY <2>2, <2>3, <2>4
<1>5. /\ EmptySlots \in SlotsType /\ Named(EmptySlots.names, EmptySlots.used)
      /\ \A d \in Slots : Listed(EmptySlots.catalog[d], EmptySlots.heaps[d])
  BY EmptySlotsType, EmptyIsLoaded DEF LoadedSoFar
<1>6. Types
  <2>1. /\ names \in [Slots -> DbNames] /\ used \in [Slots -> BOOLEAN]
        /\ catalog \in [Slots -> SUBSET Tables] /\ heaps \in [Slots -> Seq(HeapType)]
    BY <1>1, <1>5 DEF SlotsType
  <2>2. current \in [Sessions -> Slots]
    BY <1>1, SlotsAreFinite
  <2> QED
    BY <1>1, <2>1, <2>2 DEF Types
<1>7. FileShape(dbs)
  <2>1. Len(dbs) <= MaxDatabases
    <3>1. PICK m \in Nat \ {0} : m = MaxDatabases
      BY SlotsAssumption
    <3> QED
      BY <1>4, <3>1
  <2> QED
    BY <1>3, <1>4, <2>1 DEF FileShape
<1>8. Agrees(dbs, names, used, heaps)
  <2>1. used[0] /\ names[0] = Main /\ ToSet(heaps[0]) = {}
    <3>1. EmptySlots.heaps[0] = <<>>
      BY SlotsAreFinite DEF EmptySlots
    <3>2. ToSet(<<>>) = {}
      BY DEF ToSet
    <3> QED
      BY <1>1, <1>5, <3>1, <3>2 DEF Named
  <2>2. Loaded(names, used, heaps, main)
    BY <1>3, <2>1, SlotsAreFinite DEF Loaded
  <2>3. \A d \in Slots : names[d] = Main
    BY <1>1 DEF EmptySlots
  <2> QED
    BY <1>3, <1>4, <2>2, <2>3 DEF Agrees
<1> QED
  BY <1>1, <1>4, <1>5, <1>6, <1>7, <1>8 DEF DatabasesInv, SlotsInv, FileInv

LEMMA NextKeeps == DatabasesInv /\ [Next]_vars => DatabasesInv'
<1> SUFFICES ASSUME DatabasesInv, [Next]_vars PROVE DatabasesInv'
  OBVIOUS
<1>1. CASE \E s \in Sessions, n \in DbNames :
             CreateDatabase(s, n) \/ UseDatabase(s, n) \/ DropDatabase(s, n)
  BY <1>1, CreateDatabaseKeeps, UseDatabaseKeeps, DropDatabaseKeeps
<1>2. CASE \E s \in Sessions, t \in Tables : CreateTable(s, t) \/ DropTable(s, t)
  BY <1>2, CreateTableKeeps, DropTableKeeps
<1>3. CASE \E s \in Sessions, t, u \in Tables : RenameTable(s, t, u)
  BY <1>3, RenameTableKeeps
<1>4. CASE \E s \in Sessions :
             Write(s) \/ Begin(s) \/ Commit(s) \/ Rollback(s) \/ Reconnect(s)
  BY <1>4, WriteKeeps, BeginKeeps, CommitKeeps, RollbackKeeps, ReconnectKeeps
<1>5. CASE Restart
  BY <1>5, RestartKeeps
<1>6. CASE UNCHANGED vars
  BY <1>6 DEF vars, DatabasesInv, SlotsInv, Types, FileInv
<1> QED
  BY <1>1, <1>2, <1>3, <1>4, <1>5, <1>6 DEF Next

(* The invariant holds in every state. *)
THEOREM DatabasesInvariant == Spec => []DatabasesInv
<1>1. Init => DatabasesInv
  BY InitIsGood
<1>2. DatabasesInv /\ [Next]_vars => DatabasesInv'
  BY NextKeeps
<1> QED
  BY <1>1, <1>2, PTL DEF Spec

-----------------------------------------------------------------------------
(* What follows *)

(* The default database keeps slot 0, and no two databases share a name,    *)
(* whatever is created, dropped and loaded in whatever order               *)
(* (13_database.c, loadDatabase of 12_persist.c).                          *)
THEOREM NamesStayUnique == Spec => []NamesAreUnique
<1>1. DatabasesInv => NamesAreUnique
  BY DEF DatabasesInv, SlotsInv, Named, NamesAreUnique
<1> QED
  BY <1>1, DatabasesInvariant, PTL

(* In every slot the catalog and the heap array list the same tables, each  *)
(* once (02_catalog.c, dropHeap of 07_storage.c).                          *)
THEOREM ListsStayEqual == Spec => []CatalogMatchesHeaps
<1>1. DatabasesInv => CatalogMatchesHeaps
  <2> SUFFICES ASSUME DatabasesInv, NEW d \in Slots
               PROVE  /\ catalog[d] = {heaps[d][i].table : i \in DOMAIN heaps[d]}
                      /\ Cardinality(catalog[d]) = Len(heaps[d])
    BY DEF CatalogMatchesHeaps
  <2>1. PICK hs \in Seq(HeapType), cat \in {catalog[d]} : hs = heaps[d] /\ cat = catalog[d]
    BY DEF DatabasesInv, SlotsInv, Types
  <2>2. Listed(cat, hs)
    BY <2>1 DEF DatabasesInv, SlotsInv
  <2>3. Cardinality(cat) = Len(hs)
    BY <2>2, ListedCount
  <2>4. cat = {hs[i].table : i \in DOMAIN hs}
    BY <2>2 DEF Listed
  <2> QED
    BY <2>1, <2>3, <2>4
<1> QED
  BY <1>1, DatabasesInvariant, PTL

\* Two arrangements of slots that have the databases of one file have the same
\* contents.
LEMMA SameContents ==
    ASSUME NEW dbs, NEW ns, NEW us, NEW hs, NEW ms, NEW vs, NEW gs,
           Named(ns, us), Named(ms, vs), Agrees(dbs, ns, us, hs), Agrees(dbs, ms, vs, gs)
    PROVE  Contents(ns, us, hs) = Contents(ms, vs, gs)
<1> DEFINE A == {ns[d] : d \in {e \in Slots : us[e]}}
           B == {ms[d] : d \in {e \in Slots : vs[e]}}
           N == {dbs[i].name : i \in DOMAIN dbs}
           P(n) == CHOOSE d \in Slots : us[d] /\ ns[d] = n
           Q(n) == CHOOSE d \in Slots : vs[d] /\ ms[d] = n
<1>1. A = N
  BY DEF Agrees, Loaded
<1>2. B = N
  BY DEF Agrees, Loaded
<1>3. ASSUME NEW n \in N PROVE ToSet(hs[P(n)]) = ToSet(gs[Q(n)])
  <2>1. PICK i \in DOMAIN dbs : dbs[i].name = n
    OBVIOUS
  <2>2. PICK d \in Slots : us[d] /\ ns[d] = n /\ ToSet(hs[d]) = dbs[i].tables
    BY <2>1 DEF Agrees, Loaded
  <2>3. PICK e \in Slots : vs[e] /\ ms[e] = n /\ ToSet(gs[e]) = dbs[i].tables
    BY <2>1 DEF Agrees, Loaded
  <2>4. P(n) \in Slots /\ us[P(n)] /\ ns[P(n)] = n
    BY <2>2
  <2>5. Q(n) \in Slots /\ vs[Q(n)] /\ ms[Q(n)] = n
    BY <2>3
  <2> HIDE DEF P, Q
  <2>6. P(n) = d
    BY <2>2, <2>4 DEF Named
  <2>7. Q(n) = e
    BY <2>3, <2>5 DEF Named
  <2> QED
    BY <2>2, <2>3, <2>6, <2>7
<1>4. Contents(ns, us, hs) = [n \in A |-> ToSet(hs[P(n)])]
  BY DEF Contents
<1>5. Contents(ms, vs, gs) = [n \in B |-> ToSet(gs[Q(n)])]
  BY DEF Contents
<1> HIDE DEF A, B, N, P, Q
<1> QED
  BY <1>1, <1>2, <1>3, <1>4, <1>5

(* Outside a transaction loading the file brings back the databases in use  *)
(* with the tables they have: what was reported of one that exists is not  *)
(* lost by a restart or another's rollback (10_controller.c).  Of slots    *)
(* that are free it says nothing.                                          *)
THEOREM UsedSlotsStaySaved == Spec => []UsedSlotsAreSaved
<1>1. DatabasesInv => UsedSlotsAreSaved
  <2> SUFFICES ASSUME DatabasesInv, holder = NoSession, NEW slots, slots = LoadDatabase(saved)
               PROVE  Contents(slots.names, slots.used, slots.heaps) = Contents(names, used, heaps)
    BY DEF UsedSlotsAreSaved
  <2>1. Agrees(saved.databases, names, used, heaps) /\ Named(names, used)
    BY DEF DatabasesInv, SlotsInv, FileInv
  <2>2. /\ Named(slots.names, slots.used)
        /\ Agrees(saved.databases, slots.names, slots.used, slots.heaps)
    BY LoadBrings DEF DatabasesInv, FileInv
  <2> QED
    BY <2>1, <2>2, SameContents
<1> QED
  BY <1>1, DatabasesInvariant, PTL

\* What StandsSomewhere says of a session and a step.
StaysIn(s) ==
    used[current[s]] =>
       /\ last' = s => used'[current'[s]]
       /\ last' \notin {s, NoSession} /\ used'[current[s]] /\ (holder' = NoSession => holder = NoSession)
            => /\ current'[s] = current[s]
               /\ names'[current[s]] = names[current[s]]

\* Statements that move no session and rename no database.
LEMMA StillStanding ==
    ASSUME NEW s \in Sessions, UNCHANGED <<names, used, current>>
    PROVE  StaysIn(s)
  BY DEF StaysIn

LEMMA CreateLeavesSessions ==
    ASSUME DatabasesInv, NEW r \in Sessions, NEW s \in Sessions, NEW name,
           CreateDatabase(r, name)
    PROVE  StaysIn(s)
<1>1. PICK id : id = FirstFree(used)
  OBVIOUS
<1>2. id \in Slots /\ ~used[id]
  BY <1>1, FreeFound DEF CreateDatabase
<1>3. /\ names' = [names EXCEPT ![id] = name] /\ used' = [used EXCEPT ![id] = TRUE]
      /\ current' = current
  BY <1>1 DEF CreateDatabase
<1>4. Types /\ current[s] \in Slots
  BY DEF DatabasesInv, SlotsInv, Types
<1>5. \A d \in Slots \ {id} : names'[d] = names[d] /\ used'[d] = used[d]
  BY <1>2, <1>3, <1>4 DEF Types
<1>6. used[current[s]] => current[s] # id
  BY <1>2
<1> QED
  BY <1>3, <1>4, <1>5, <1>6 DEF StaysIn

LEMMA UseLeavesOthers ==
    ASSUME DatabasesInv, NEW r \in Sessions, NEW s \in Sessions, NEW name, UseDatabase(r, name)
    PROVE  StaysIn(s)
<1>1. PICK id : id = FindDatabase(names, used, name)
  OBVIOUS
<1>2. id \in Slots /\ used[id]
  BY <1>1, Found DEF UseDatabase
<1>3. /\ current' = [current EXCEPT ![r] = id] /\ last' = r
      /\ names' = names /\ used' = used
  BY <1>1 DEF UseDatabase
<1>4. current \in [Sessions -> Slots]
  BY DEF DatabasesInv, SlotsInv, Types
<1>5. current'[r] = id /\ (s # r => current'[s] = current[s])
  BY <1>3, <1>4
<1> QED
  BY <1>2, <1>3, <1>5 DEF StaysIn

LEMMA DropLeavesOthers ==
    ASSUME DatabasesInv, DatabasesInv', NEW r \in Sessions, NEW s \in Sessions, NEW name,
           DropDatabase(r, name)
    PROVE  StaysIn(s)
<1>1. PICK id : id = FindDatabase(names, used, name)
  OBVIOUS
<1>2. /\ used' = [used EXCEPT ![id] = FALSE] /\ names' = names /\ last' = r
      /\ current' = IF current[r] = id THEN [current EXCEPT ![r] = 0] ELSE current
  BY <1>1 DEF DropDatabase, LeaveDropped, FinishSchemaChange
<1>3. used \in [Slots -> BOOLEAN] /\ current \in [Sessions -> Slots] /\ used'[0]
  BY DEF DatabasesInv, SlotsInv, Types, Named
<1>4. CASE s = r
  <2>1. CASE current[r] = id
    BY <1>2, <1>3, <1>4, <2>1 DEF StaysIn
  <2>2. CASE current[r] # id
    <3>1. used'[current[s]] = used[current[s]] /\ current'[s] = current[s]
      BY <1>2, <1>3, <1>4, <2>2
    <3> QED
      BY <1>2, <1>4, <3>1 DEF StaysIn
  <2> QED
    BY <2>1, <2>2
<1>5. CASE s # r
  <2>1. current'[s] = current[s]
    BY <1>2, <1>3, <1>5
  <2> QED
    BY <1>2, <1>5, <2>1 DEF StaysIn
<1> QED
  BY <1>4, <1>5

LEMMA RollbackLeavesOthers ==
    ASSUME DatabasesInv, DatabasesInv', NEW r \in Sessions, NEW s \in Sessions, Rollback(r)
    PROVE  StaysIn(s)
<1>1. PICK slots : slots = LoadDatabase(saved)
  OBVIOUS
<1>2. PICK id : id = FindDatabase(slots.names, slots.used, saved.current)
  OBVIOUS
<1>3. /\ used' = slots.used /\ last' = r /\ holder = r /\ holder' = NoSession
      /\ current' = [current EXCEPT ![r] = IF id >= 0 THEN id ELSE 0]
  BY <1>1, <1>2 DEF Rollback, Reload
<1>4. used'[IF id >= 0 THEN id ELSE 0]
  <2>1. id = -1 \/ used'[id]
    BY <1>2, <1>3, Found
  <2>2. used'[0] /\ ~(-1 >= 0)
    BY DEF DatabasesInv, SlotsInv, Named
  <2> QED
    BY <2>1, <2>2
<1>5. r # NoSession
  BY SessionsAssumption
<1>6. current'[r] = IF id >= 0 THEN id ELSE 0
  BY <1>3 DEF DatabasesInv, SlotsInv, Types
<1> QED
  BY <1>3, <1>4, <1>5, <1>6 DEF StaysIn

LEMMA ReconnectLeavesOthers ==
    ASSUME DatabasesInv, DatabasesInv', NEW r \in Sessions, NEW s \in Sessions, Reconnect(r)
    PROVE  StaysIn(s)
<1>1. last' = r /\ current' = [current EXCEPT ![r] = 0]
  BY DEF Reconnect
<1>2. used'[0] /\ current \in [Sessions -> Slots] /\ r # NoSession
  BY SessionsAssumption DEF DatabasesInv, SlotsInv, Named, Types
<1>3. current'[r] = 0 /\ (s # r => current'[s] = current[s])
  BY <1>1, <1>2
<1>4. holder = r => holder' = NoSession
  BY DEF Reconnect
<1>5. holder # r => names' = names
  BY DEF Reconnect
<1> QED
  BY <1>1, <1>2, <1>3, <1>4, <1>5 DEF StaysIn

LEMMA StepsLeaveSessions ==
    ASSUME DatabasesInv, DatabasesInv', Next, NEW s \in Sessions
    PROVE  StaysIn(s)
<1>1. ASSUME NEW r \in Sessions, NEW n \in DbNames,
             CreateDatabase(r, n) \/ UseDatabase(r, n) \/ DropDatabase(r, n)
      PROVE  StaysIn(s)
  BY <1>1, CreateLeavesSessions, UseLeavesOthers, DropLeavesOthers
<1>2. ASSUME NEW r \in Sessions, NEW t \in Tables, CreateTable(r, t) \/ DropTable(r, t)
      PROVE  StaysIn(s)
  BY <1>2, StillStanding DEF CreateTable, DropTable
<1>3. ASSUME NEW r \in Sessions, NEW t \in Tables, NEW u \in Tables, RenameTable(r, t, u)
      PROVE  StaysIn(s)
  BY <1>3, StillStanding DEF RenameTable
<1>4. ASSUME NEW r \in Sessions, Write(r) \/ Begin(r) \/ Commit(r)
      PROVE  StaysIn(s)
  BY <1>4, StillStanding DEF Write, Begin, Commit
<1>5. ASSUME NEW r \in Sessions, Rollback(r) \/ Reconnect(r)
      PROVE  StaysIn(s)
  BY <1>5, RollbackLeavesOthers, ReconnectLeavesOthers
<1>6. ASSUME Restart PROVE StaysIn(s)
  <2>1. last' = NoSession /\ s # NoSession
    BY <1>6, SessionsAssumption DEF Restart
  <2> QED
    BY <2>1 DEF StaysIn
<1> QED
  BY <1>1, <1>2, <1>3, <1>4, <1>5, <1>6 DEF Next

(* A session's own statements leave it in a database that exists, and those *)
(* of others neither move it nor put another database in its slot, short of *)
(* ending a transaction (13_database.c).                                   *)
THEOREM SessionsStand == Spec => StandsSomewhere
<1>1. DatabasesInv /\ DatabasesInv' /\ [Next]_vars =>
        [\A s \in Sessions : StaysIn(s)]_vars
  BY StepsLeaveSessions
<1>2. DatabasesInv /\ DatabasesInv' /\ [Next]_vars =>
        [\A s \in Sessions : used[current[s]] =>
           /\ last' = s => used'[current'[s]]
           /\ last' \notin {s, NoSession} /\ used'[current[s]] /\ (holder' = NoSession => holder = NoSession)
                => /\ current'[s] = current[s]
                   /\ names'[current[s]] = names[current[s]]]_vars
  BY <1>1 DEF StaysIn
<1> QED
  BY <1>2, DatabasesInvariant, PTL DEF Spec, StandsSomewhere
=============================================================================
