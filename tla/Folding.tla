------------------------------ MODULE Folding ------------------------------
(***************************************************************************)
(* What FoldLeft of SequencesExt computes, whatever the operator Op that   *)
(* is folded: the state after each element follows from the one before it. *)
(* And that a function defined by recursion is one, whatever the Step of   *)
(* it: each value follows from values the recursion comes to earlier.  A   *)
(* module that folds or recurs instantiates this one with operators of its *)
(* own; Folded spells FoldLeft out, so that an instance is small.          *)
(***************************************************************************)
EXTENDS Integers, Folds, WellFoundedInduction

CONSTANTS Op(_, _), Step(_, _, _)

Greatest(S) == CHOOSE x \in S : \A y \in S : x >= y

Folded(base, seq) ==
    MapThenFoldSet(LAMBDA x, y : Op(y, x), base, LAMBDA i : seq[i],
                   LAMBDA S : Greatest(S), DOMAIN seq)

-----------------------------------------------------------------------------
(* Numbers *)

\* A set of natural numbers that is not empty has a least element.
LEMMA LeastIs ==
    ASSUME NEW S \in SUBSET Nat, S # {}
    PROVE  \E x \in S : \A y \in S : x <= y
<1>1. PICK x \in S : \A y \in S : ~(<<y, x>> \in OpToRel(<, Nat))
  BY WFMin, NatLessThanWellFounded
<1>2. ASSUME NEW y \in S PROVE x <= y
  <2>1. y \in Nat /\ x \in Nat
    OBVIOUS
  <2>2. SUFFICES ASSUME y < x PROVE FALSE
    BY <2>1
  <2>3. <<y, x>> \in Nat \X Nat /\ <<y, x>>[1] < <<y, x>>[2]
    BY <2>1, <2>2
  <2>4. <<y, x>> \in {ss \in Nat \X Nat : ss[1] < ss[2]}
    BY <2>3
  <2> QED
    BY <1>1, <2>4 DEF OpToRel
<1> QED
  BY <1>2

\* What is not of 0, and of a number only if it is of the one before, is of
\* none up to n.
LEMMA Climb ==
    ASSUME NEW n \in Nat, NEW S \in SUBSET (0 .. n), 0 \notin S,
           \A k \in 1 .. n : k \in S => k - 1 \in S
    PROVE  S = {}
<1> SUFFICES ASSUME S # {} PROVE FALSE
  OBVIOUS
<1>1. S \in SUBSET Nat
  OBVIOUS
<1>2. PICK k \in S : \A m \in S : k <= m
  BY <1>1, LeastIs
<1>3. k \in 0 .. n /\ k # 0
  OBVIOUS
<1>4. k - 1 \in S /\ ~(k <= k - 1)
  BY <1>3
<1> QED
  BY <1>2, <1>4

\* It is the greatest of a set of positions.
LEMMA GreatestIs ==
    ASSUME NEW n \in Nat, NEW s \in SUBSET (1 .. n), s # {}
    PROVE  Greatest(s) \in s /\ \A y \in s : Greatest(s) >= y
<1> DEFINE Below == {n - x : x \in s}
<1>1. Below \in SUBSET Nat /\ Below # {}
  <2>1. ASSUME NEW x \in s PROVE n - x \in Nat
    <3>1. x \in 1 .. n
      OBVIOUS
    <3> QED
      BY <3>1
  <2> QED
    BY <2>1
<1>2. PICK d \in Below : \A e \in Below : d <= e
  BY <1>1, LeastIs
<1>3. PICK x \in s : d = n - x
  BY <1>2
<1>4. ASSUME NEW y \in s PROVE x >= y
  <2>1. n - y \in Below /\ y \in 1 .. n /\ x \in 1 .. n
    OBVIOUS
  <2> QED
    BY <1>2, <1>3, <2>1
<1> QED
  BY <1>3, <1>4 DEF Greatest

LEMMA FirstPositions ==
    ASSUME NEW n \in Nat, NEW k \in 1 .. n
    PROVE  /\ 1 .. k \in SUBSET (1 .. n) /\ 1 .. k # {}
           /\ (1 .. k) \ {k} = 1 .. k - 1
           /\ Greatest(1 .. k) = k
<1>1. k \in Nat /\ 1 <= k /\ k <= n /\ k \in 1 .. k
  OBVIOUS
<1>2. \A i \in 1 .. k : i \in 1 .. n
  BY <1>1
<1>3. (1 .. k) \ {k} = 1 .. k - 1
  BY <1>1
<1>4. PICK s \in SUBSET (1 .. k) : s = 1 .. k /\ s # {}
  BY <1>1
<1>5. PICK m \in 1 .. k : m = Greatest(1 .. k) /\ m >= k
  BY <1>1, <1>4, GreatestIs
<1>6. m = k
  BY <1>1, <1>5
<1> QED
  BY <1>1, <1>2, <1>3, <1>5, <1>6

-----------------------------------------------------------------------------
(* Folds *)

\* The function a fold defines by recursion over the sets of the positions it
\* has come to
Rule(iter, m, base, seq) ==
    [s \in SUBSET (1 .. m) |->
       IF s = {} THEN base ELSE Op(iter[s \ {Greatest(s)}], seq[Greatest(s)])]

LEMMA RuleIsMet ==
    ASSUME NEW n \in Nat, NEW base, NEW seq
    PROVE  \E iter : iter = Rule(iter, n, base, seq)
<1> DEFINE S == {m \in 0 .. n : ~ \E iter : iter = Rule(iter, m, base, seq)}
<1>1. 0 \notin S
  <2> DEFINE iter == [s \in SUBSET (1 .. 0) |-> base]
  <2>1. \A s \in SUBSET (1 .. 0) : s = {}
    OBVIOUS
  <2>2. iter = Rule(iter, 0, base, seq)
    BY <2>1 DEF Rule
  <2> QED
    BY <2>2
<1>2. ASSUME NEW m \in 1 .. n, m - 1 \notin S
      PROVE  m \notin S
  <2>1. m \in Nat /\ m - 1 \in 0 .. n
    OBVIOUS
  <2>2. PICK before : before = Rule(before, m - 1, base, seq)
    BY <1>2, <2>1
  <2> DEFINE after == [s \in SUBSET (1 .. m) |->
                         IF m \in s THEN Op(before[s \ {m}], seq[m]) ELSE before[s]]
  <2>3. ASSUME NEW s \in SUBSET (1 .. m), m \notin s
        PROVE  s \in SUBSET (1 .. m - 1)
    BY <2>1, <2>3
  <2>4. ASSUME NEW s \in SUBSET (1 .. m)
        PROVE  after[s] = IF s = {} THEN base ELSE Op(after[s \ {Greatest(s)}], seq[Greatest(s)])
    <3>1. CASE m \in s
      <4>1. Greatest(s) \in 1 .. m /\ Greatest(s) >= m
        BY <2>1, <3>1, GreatestIs
      <4>2. Greatest(s) = m
        BY <2>1, <4>1
      <4>3. s \ {m} \in SUBSET (1 .. m) /\ m \notin s \ {m}
        OBVIOUS
      <4>4. after[s \ {m}] = before[s \ {m}]
        BY <4>3
      <4>5. after[s] = Op(before[s \ {m}], seq[m])
        BY <3>1
      <4> HIDE DEF after
      <4> QED
        BY <3>1, <4>2, <4>4, <4>5
    <3>2. CASE m \notin s
      <4>1. s \in SUBSET (1 .. m - 1)
        BY <2>3, <3>2
      <4>2. before[s] = IF s = {} THEN base ELSE Op(before[s \ {Greatest(s)}], seq[Greatest(s)])
        BY <2>2, <4>1 DEF Rule
      <4>3. after[s] = before[s]
        BY <3>2
      <4>4. s \ {Greatest(s)} \in SUBSET (1 .. m) /\ m \notin s \ {Greatest(s)}
        BY <3>2
      <4>5. after[s \ {Greatest(s)}] = before[s \ {Greatest(s)}]
        BY <4>4
      <4> HIDE DEF after
      <4> QED
        BY <4>2, <4>3, <4>5
    <3> QED
      BY <3>1, <3>2
  <2>5. after = Rule(after, m, base, seq)
    BY <2>4 DEF Rule
  <2> QED
    BY <2>5
<1>3. S \in SUBSET (0 .. n) /\ n \in 0 .. n
  OBVIOUS
<1>4. S = {}
  <2> HIDE DEF S
  <2> QED
    BY <1>1, <1>2, <1>3, Climb
<1> QED
  BY <1>3, <1>4

\* What the fold has after each element
Stages(r, base, n, seq) ==
    /\ r[0] = base
    /\ \A k \in 1 .. n : r[k] = Op(r[k - 1], seq[k])
    /\ r[n] = Folded(base, seq)

\* A fold from the left goes through the elements in order.
THEOREM FoldSteps ==
    ASSUME NEW base, NEW n \in Nat, NEW seq, DOMAIN seq = 1 .. n
    PROVE  \E r : Stages(r, base, n, seq)
<1> DEFINE G == CHOOSE iter : iter = Rule(iter, n, base, seq)
<1>1. Folded(base, seq) = G[1 .. n]
  BY DEF Folded, MapThenFoldSet, Rule
<1>2. G = Rule(G, n, base, seq)
  BY RuleIsMet
<1> HIDE DEF G
<1>3. ASSUME NEW s \in SUBSET (1 .. n)
      PROVE  G[s] = IF s = {} THEN base ELSE Op(G[s \ {Greatest(s)}], seq[Greatest(s)])
  BY <1>2 DEF Rule
<1> DEFINE r == [k \in 0 .. n |-> G[1 .. k]]
<1>4. r[0] = base
  <2>1. 1 .. 0 = {} /\ 1 .. 0 \in SUBSET (1 .. n)
    OBVIOUS
  <2>2. G[1 .. 0] = base
    BY <1>3, <2>1
  <2> QED
    BY <2>2
<1>5. ASSUME NEW k \in 1 .. n
      PROVE  r[k] = Op(r[k - 1], seq[k])
  <2>1. k \in 0 .. n /\ k - 1 \in 0 .. n
    OBVIOUS
  <2>2. r[k] = G[1 .. k] /\ r[k - 1] = G[1 .. k - 1]
    BY <2>1
  <2>3. 1 .. k \in SUBSET (1 .. n) /\ 1 .. k # {} /\ (1 .. k) \ {k} = 1 .. k - 1 /\ Greatest(1 .. k) = k
    BY FirstPositions
  <2>4. G[1 .. k] = Op(G[(1 .. k) \ {Greatest(1 .. k)}], seq[Greatest(1 .. k)])
    BY <1>3, <2>3
  <2> HIDE DEF r
  <2> QED
    BY <2>2, <2>3, <2>4
<1>6. r[n] = Folded(base, seq)
  BY <1>1
<1> HIDE DEF r
<1>7. Stages(r, base, n, seq)
  BY <1>4, <1>5, <1>6 DEF Stages
<1> QED
  BY <1>7

\* Over nothing it is where it started.
THEOREM FoldOfNothing ==
    ASSUME NEW base, NEW seq, DOMAIN seq = 1 .. 0
    PROVE  Folded(base, seq) = base
BY FoldSteps DEF Stages

\* The last element is folded last.
THEOREM FoldLast ==
    ASSUME NEW base, NEW n \in Nat, n # 0, NEW seq, DOMAIN seq = 1 .. n,
           NEW front, DOMAIN front = 1 .. n - 1, \A i \in 1 .. n - 1 : front[i] = seq[i]
    PROVE  Folded(base, seq) = Op(Folded(base, front), seq[n])
<1>1. n - 1 \in Nat /\ n \in 1 .. n
  OBVIOUS
<1>2. PICK r : Stages(r, base, n, seq)
  BY FoldSteps
<1>3. PICK f : Stages(f, base, n - 1, front)
  <2>1. PICK m \in Nat : m = n - 1
    BY <1>1
  <2>2. DOMAIN front = 1 .. m
    BY <2>1
  <2>3. \E f : Stages(f, base, m, front)
    BY <2>2, FoldSteps
  <2> QED
    BY <2>1, <2>3
<1> DEFINE S == {k \in 0 .. n - 1 : r[k] # f[k]}
<1>4. 0 \notin S
  BY <1>2, <1>3 DEF Stages
<1>5. ASSUME NEW k \in 1 .. n - 1, k \in S
      PROVE  k - 1 \in S
  <2>1. k - 1 \in 0 .. n - 1 /\ k \in 1 .. n
    OBVIOUS
  <2> QED
    BY <1>2, <1>3, <1>5, <2>1 DEF Stages
<1>6. S = {}
  <2>1. S \in SUBSET (0 .. n - 1)
    OBVIOUS
  <2> HIDE DEF S
  <2> QED
    BY <1>1, <1>4, <1>5, <2>1, Climb
<1>7. r[n - 1] = f[n - 1]
  BY <1>1, <1>6
<1> QED
  BY <1>1, <1>2, <1>3, <1>7 DEF Stages

-----------------------------------------------------------------------------
(* Recursion *)

\* f is the function on S that Step defines by recursion, given a context
Solves(f, context, S) == f = [x \in S |-> Step(context, f, x)]

\* Step asks only for values of less depth.
Descends(context, S, depth) ==
    \A x \in S : \A f, g :
        (\A y \in S : depth[y] < depth[x] => f[y] = g[y]) => Step(context, f, x) = Step(context, g, x)

\* A recursion that goes down in depth defines a function.
THEOREM Recursion ==
    ASSUME NEW context, NEW S, NEW n \in Nat, NEW depth \in [S -> 0 .. n],
           Descends(context, S, depth)
    PROVE  \E f : Solves(f, context, S)
<1> DEFINE Known(m) == \E f : \A x \in S : depth[x] < m => f[x] = Step(context, f, x)
<1> DEFINE M == {m \in 0 .. n + 1 : ~Known(m)}
<1>1. 0 \notin M
  <2>1. \A x \in S : ~(depth[x] < 0)
    OBVIOUS
  <2> QED
    BY <2>1
<1>2. ASSUME NEW m \in 1 .. n + 1, m - 1 \notin M
      PROVE  m \notin M
  <2>1. PICK l \in 0 .. n : l = m - 1
    OBVIOUS
  <2>2. PICK f : \A x \in S : depth[x] < l => f[x] = Step(context, f, x)
    BY <1>2, <2>1
  <2> DEFINE g == [x \in S |-> IF depth[x] < l THEN f[x] ELSE Step(context, f, x)]
  <2>3. ASSUME NEW x \in S, depth[x] < m
        PROVE  g[x] = Step(context, g, x)
    <3>1. \A y \in S : depth[y] < depth[x] => f[y] = g[y]
      <4>1. ASSUME NEW y \in S, depth[y] < depth[x] PROVE depth[y] < l
        BY <2>1, <2>3, <4>1
      <4> QED
        BY <4>1
    <3> HIDE DEF g
    <3>2. Step(context, f, x) = Step(context, g, x)
      BY <3>1 DEF Descends
    <3>3. g[x] = IF depth[x] < l THEN f[x] ELSE Step(context, f, x)
      BY DEF g
    <3> QED
      BY <2>2, <3>2, <3>3
  <2> HIDE DEF g
  <2>4. Known(m)
    BY <2>3
  <2> QED
    BY <2>4
<1>3. M = {}
  <2>1. M \in SUBSET (0 .. n + 1) /\ n + 1 \in Nat
    OBVIOUS
  <2>2. PICK k \in Nat : k = n + 1
    OBVIOUS
  <2>3. \A m \in 1 .. k : m \in M => m - 1 \in M
    BY <1>2, <2>2
  <2> HIDE DEF M
  <2> QED
    BY <1>1, <2>1, <2>2, <2>3, Climb
<1>4. PICK f : \A x \in S : depth[x] < n + 1 => f[x] = Step(context, f, x)
  BY <1>3
<1> DEFINE h == [x \in S |-> f[x]]
<1>5. ASSUME NEW x \in S PROVE h[x] = Step(context, h, x)
  <2>1. f[x] = Step(context, f, x)
    <3>1. depth[x] < n + 1
      OBVIOUS
    <3> QED
      BY <1>4, <3>1
  <2>2. \A y \in S : depth[y] < depth[x] => f[y] = h[y]
    OBVIOUS
  <2>3. Step(context, f, x) = Step(context, h, x)
    <3> HIDE DEF h
    <3> QED
      BY <2>2 DEF Descends
  <2> QED
    BY <2>1, <2>3
<1>6. h = [x \in S |-> Step(context, h, x)]
  <2>1. h = [x \in S |-> h[x]]
    OBVIOUS
  <2> HIDE DEF h
  <2> QED
    BY <1>5, <2>1
<1> QED
  <2> HIDE DEF h
  <2> QED
    BY <1>6 DEF Solves
=============================================================================
