----------------------------- MODULE PoolProofs -----------------------------
(***************************************************************************)
(* What Pool.tla guarantees for every number of threads, frames and pages.  *)
(***************************************************************************)
EXTENDS Pool, FiniteSetTheorems, WellFoundedInduction, TLAPS

Owned == tables \cup UNION {scratch[t] : t \in Thread}

\* The frames the hand passes, in the order of the loop's steps.
At(step) == (hand + step - 1) % FrameCount

SweepStart == [victim |-> Nowhere,
               referenced |-> {i \in DOMAIN frames : frames[i].referenced}]

SweepStep(sofar, i) ==
    IF sofar.victim # Nowhere \/ ~(IsFree(i) \/ Evictable(i))
       THEN sofar
    ELSE IF ~IsFree(i) /\ i \in sofar.referenced
       THEN [sofar EXCEPT !.referenced = @ \ {i}]
       ELSE [sofar EXCEPT !.victim = i]

\* The function that Sweep defines by recursion, over the first n steps.
IsSweep(after, n) ==
    after = [steps \in 0 .. n |-> IF steps = 0 THEN SweepStart
                                  ELSE SweepStep(after[steps - 1], At(steps))]

\* What is so of the sweep after n steps: it stopped at a frame that may be had;
\* or none of the frames it passed was free, and those it could have had, it
\* passed in the first round, taking their reference bit.
SweptSoFar(sofar, n) ==
    /\ sofar \in [victim : DOMAIN frames \cup {Nowhere},
                  referenced : SUBSET DOMAIN frames]
    /\ sofar.victim # Nowhere => IsFree(sofar.victim) \/ Evictable(sofar.victim)
    /\ sofar.victim = Nowhere =>
         \A s \in 1 .. n :
             /\ ~IsFree(At(s))
             /\ Evictable(At(s)) => At(s) \notin sofar.referenced /\ s <= FrameCount

\* All of a frame but its reference bit.
SameFrame(f, g) ==
    /\ f.pageId = g.pageId /\ f.pins = g.pins
    /\ f.dirty = g.dirty /\ f.logged = g.logged /\ f.current = g.current

\* What acquireFrame promises of the frame it returns: nobody points into it, and
\* the page it held, which the directory has forgotten, is in the file.  It wrote
\* no other page, none that was not in the log, and made room only when it had to.
Promised(a) ==
    /\ DOMAIN frames \subseteq DOMAIN a.frames
    /\ \E n \in 1 .. MaxFrames : DOMAIN a.frames = 0 .. n - 1
    /\ a.frames \in [DOMAIN a.frames -> FrameType]
    /\ a.frame \in DOMAIN a.frames /\ a.hand \in DOMAIN a.frames
    /\ \A i \in DOMAIN frames \ {a.frame} : SameFrame(a.frames[i], frames[i])
    /\ \A i \in DOMAIN a.frames \ DOMAIN frames : a.frames[i] = FreeFrame
    /\ a.pageFrame = [p \in Page |-> IF pageFrame[p] = a.frame THEN Nowhere
                                                               ELSE pageFrame[p]]
    /\ inFile \subseteq a.inFile
    /\ \A p \in a.inFile : p \notin inFile => p \in inLog /\ pageFrame[p] = a.frame
    /\ a.inFile \subseteq Page
    /\ \A p \in Page : pageFrame[p] = a.frame => p \in a.inFile
    /\ \A t \in Thread : \A h \in held[t] : h.frame # a.frame
    /\ DOMAIN a.frames # DOMAIN frames =>
         \A i \in DOMAIN frames : ~IsFree(i) /\ ~Evictable(i)

\* The acquired frame has this content now, and the directory forgets the page it
\* held; q is the page it holds now, if it holds one, and was nowhere before.
\* Only of q do the file and the log know anything new.
Refilled(a, q, content) ==
    /\ content \in FrameType /\ content.pageId = q
    /\ q \in Page => pageFrame[q] = Nowhere
    /\ frames' = [a.frames EXCEPT ![a.frame] = content]
    /\ hand' = a.hand
    /\ pageFrame' = [p \in Page |-> IF p = q THEN a.frame
                                    ELSE IF pageFrame[p] = a.frame THEN Nowhere
                                    ELSE pageFrame[p]]
    /\ \A p \in Page \ {q} : /\ p \in inFile' <=> p \in a.inFile
                             /\ p \in inLog' <=> p \in inLog

Holders(i) == {t \in Thread : \E h \in held[t] : h.frame = i}

\* No thread has written to the page through a pointer it still holds.
Untouched(p) == \A t \in Thread : \A h \in held[t] : h.page = p => ~h.wrote

-----------------------------------------------------------------------------
(* The inductive invariant. *)

\* The engine lock: a writer is alone, and a thread between statements has
\* given every page back.
Alone ==
    /\ \A t, u \in Thread : mode[t] = "write" /\ u # t => mode[u] = "idle"
    /\ \A t \in Thread : mode[t] = "idle" => held[t] = {}

\* A page has one owner, an id in use is not free, and only pages with an owner
\* are resident.
Separate ==
    /\ \A t \in Thread : \A p \in scratch[t] :
         /\ p \notin tables
         /\ \A u \in Thread : p \in scratch[u] => u = t
    /\ \A p \in Owned : p < pageCount /\ p \notin freeIds
    /\ \A p \in freeIds : p < pageCount
    /\ \A p \in Page : pageFrame[p] # Nowhere => p \in Owned

\* A thread has at most one pointer to a page, it is one the thread may use, and
\* the directory says the same of it.
Pointers ==
    /\ \A t \in Thread : \A h \in held[t] :
         /\ h.page \in tables \cup scratch[t]
         /\ pageFrame[h.page] = h.frame
         /\ \A g \in held[t] : g.page = h.page => g = h
    /\ \A i \in DOMAIN frames : frames[i].pins = Cardinality(Holders(i))

\* A free frame is clean.  A resident page is the one last written; unless
\* somebody is writing to it, the file has it when its frame is clean, and the
\* log when the frame says so.
Copies ==
    /\ \A i \in DOMAIN frames : IsFree(i) => ~frames[i].dirty
    /\ \A p \in Page : pageFrame[p] # Nowhere =>
         LET frame == frames[pageFrame[p]] IN
         /\ frame.current
         /\ Untouched(p) => /\ ~frame.dirty => p \in inFile
                            /\ frame.logged => p \in inLog

\* A page that is not resident is in the file.
Away ==
    \A p \in Owned : pageFrame[p] = Nowhere => p \in inFile

PoolInv == TypeOK /\ DirectoryAgrees /\ Alone /\ Separate /\ Pointers /\ Copies /\ Away

-----------------------------------------------------------------------------
(* Numbers, and the sweep of the CLOCK hand. *)

\* The remainder of a number below three times the divisor.
LEMMA Remainder ==
    ASSUME NEW n \in Nat \ {0}, NEW a \in Nat
    PROVE  /\ a % n \in 0 .. n - 1
           /\ a < n => a % n = a
           /\ a >= n /\ a < 2 * n => a % n = a - n
           /\ a >= 2 * n /\ a < 3 * n => a % n = a - 2 * n
  OBVIOUS

\* A set of naturals that is not empty has a smallest element.
LEMMA SmallestIs ==
    ASSUME NEW S \in SUBSET Nat, S # {}
    PROVE  \E x \in S : \A y \in S : x <= y
<1>1. PICK x \in S : \A y \in S : ~(<<y, x>> \in OpToRel(<, Nat))
  BY WFMin, NatLessThanWellFounded
<1>2. \A y \in S : x <= y
  <2> TAKE y \in S
  <2>1. y \in Nat /\ x \in Nat
    OBVIOUS
  <2>2. ~(y < x)
    <3> SUFFICES ASSUME y < x PROVE FALSE
      OBVIOUS
    <3>1. <<y, x>> \in Nat \X Nat /\ <<y, x>>[1] < <<y, x>>[2]
      BY <2>1
    <3>2. <<y, x>> \in {ss \in Nat \X Nat : ss[1] < ss[2]}
      BY <3>1
    <3> QED
      BY <3>2, <1>1 DEF OpToRel
  <2> QED
    BY <2>1, <2>2
<1> QED
  BY <1>2

\* The frames are numbered 0 .. FrameCount - 1, and the hand is at one of them.
LEMMA FrameFacts ==
    ASSUME TypeOK
    PROVE  /\ FrameCount \in Nat
           /\ DOMAIN frames = 0 .. FrameCount - 1
           /\ FrameCount # 0 => hand \in DOMAIN frames
           /\ hand \in Nat
           /\ \A p \in Page : p \in Nat /\ p # Nowhere
           /\ \A i \in DOMAIN frames : frames[i] \in FrameType
  BY PoolAssumption DEF TypeOK, Page, Nowhere

\* Where the hand is after some of the at most two rounds, and that the second
\* round passes every frame.
LEMMA HandFacts ==
    ASSUME TypeOK, FrameCount # 0
    PROVE  /\ \A s \in Nat \ {0} : At(s) \in DOMAIN frames
           /\ \A s \in FrameCount + 1 .. 2 * FrameCount : At(s) = At(s - FrameCount)
           /\ \A i \in DOMAIN frames : \E s \in 1 .. 2 * FrameCount : At(s) = i /\ s > FrameCount
<1>1. /\ FrameCount \in Nat \ {0} /\ DOMAIN frames = 0 .. FrameCount - 1
      /\ hand \in 0 .. FrameCount - 1
  BY FrameFacts
<1>2. \A s \in Nat \ {0} : At(s) \in DOMAIN frames
  <2> TAKE s \in Nat \ {0}
  <2>1. hand + s - 1 \in Nat
    BY <1>1
  <2> QED
    BY <2>1, <1>1, Remainder DEF At
<1>3. \A s \in FrameCount + 1 .. 2 * FrameCount : At(s) = At(s - FrameCount)
  <2> TAKE s \in FrameCount + 1 .. 2 * FrameCount
  <2> DEFINE n == FrameCount
  <2>1. PICK x \in Nat : x = hand + s - 1 /\ n <= x /\ x < 3 * n
    BY <1>1
  <2>2. PICK y \in Nat : y = hand + (s - n) - 1 /\ y = x - n
    BY <1>1, <2>1
  <2>3. At(s) = x % n /\ At(s - n) = y % n
    BY <2>1, <2>2 DEF At
  <2>4. n \in Nat \ {0}
    BY <1>1
  <2> HIDE DEF n
  <2>5. y < 2 * n
    BY <2>1, <2>2, <2>4
  <2>6. x % n = y % n
    <3>1. CASE y < n
      <4>1. x >= n /\ x < 2 * n
        BY <2>1, <2>2, <2>4, <3>1
      <4>2. x % n = x - n
        BY <2>1, <2>4, <4>1, Remainder
      <4>3. y % n = y
        BY <2>2, <2>4, <3>1, Remainder
      <4> QED
        BY <2>2, <4>2, <4>3
    <3>2. CASE ~(y < n)
      <4>1. x >= 2 * n /\ x < 3 * n /\ y >= n /\ x - 2 * n = y - n
        BY <2>1, <2>2, <2>4, <3>2
      <4>2. x % n = x - 2 * n
        BY <2>1, <2>4, <4>1, Remainder
      <4>3. y % n = y - n
        BY <2>2, <2>4, <2>5, <4>1, Remainder
      <4> QED
        BY <4>1, <4>2, <4>3
    <3> QED
      BY <3>1, <3>2
  <2> QED
    BY <2>3, <2>6 DEF n
<1>4. \A i \in DOMAIN frames :
        \E s \in 1 .. 2 * FrameCount : At(s) = i /\ s > FrameCount
  <2> TAKE i \in DOMAIN frames
  <2> DEFINE s == IF i >= hand THEN FrameCount + (i - hand) + 1
                               ELSE 2 * FrameCount + (i - hand) + 1
  <2>1. s \in 1 .. 2 * FrameCount /\ s > FrameCount
    BY <1>1
  <2>2. PICK x \in Nat : x = hand + s - 1 /\ x \in {FrameCount + i, 2 * FrameCount + i}
    BY <1>1
  <2> HIDE DEF s
  <2> DEFINE n == FrameCount
  <2>3. At(s) = x % n
    BY <2>2 DEF At
  <2>4. n \in Nat \ {0} /\ i \in 0 .. n - 1 /\ x \in {n + i, 2 * n + i}
    BY <1>1, <2>2
  <2> HIDE DEF n
  <2>5. x % n = i
    <3>1. CASE x = n + i
      <4>1. x >= n /\ x < 2 * n /\ x - n = i
        BY <2>4, <3>1
      <4> QED
        BY <2>2, <2>4, <4>1, Remainder
    <3>2. CASE x = 2 * n + i
      <4>1. x >= 2 * n /\ x < 3 * n /\ x - 2 * n = i
        BY <2>4, <3>2
      <4> QED
        BY <2>2, <2>4, <4>1, Remainder
    <3> QED
      BY <2>4, <3>1, <3>2
  <2> QED
    BY <2>1, <2>3, <2>5
<1> QED
  BY <1>2, <1>3, <1>4


\* The recursion of Sweep defines a function, for any number of steps.
LEMMA SweepExists ==
    \A n \in Nat : \E after : IsSweep(after, n)
<1> DEFINE S == {n \in Nat : ~ \E after : IsSweep(after, n)}
<1> SUFFICES ASSUME S # {} PROVE FALSE
  OBVIOUS
<1>1. PICK n \in S : \A m \in S : n <= m
  BY SmallestIs
<1>2. n # 0
  <2>1. IsSweep([steps \in 0 .. 0 |-> SweepStart], 0)
    BY DEF IsSweep
  <2> QED
    BY <2>1
<1>3. n - 1 \in Nat /\ n - 1 \notin S
  BY <1>1, <1>2
<1>4. PICK before : IsSweep(before, n - 1)
  BY <1>3
<1> DEFINE after == [steps \in 0 .. n |->
                       IF steps = n THEN SweepStep(before[n - 1], At(n))
                                    ELSE before[steps]]
<1>5. \A steps \in 0 .. n : after[steps] =
        IF steps = 0 THEN SweepStart ELSE SweepStep(after[steps - 1], At(steps))
  <2> TAKE steps \in 0 .. n
  <2>1. CASE steps = n
    BY <2>1, <1>2, <1>3
  <2>2. CASE steps # n
    <3>1. /\ steps \in 0 .. n - 1 /\ after[steps] = before[steps]
          /\ steps # 0 => steps - 1 \in 0 .. n /\ steps - 1 # n
      BY <2>2, <1>3
    <3>2. steps # 0 => after[steps - 1] = before[steps - 1]
      BY <3>1
    <3>3. before[steps] = IF steps = 0 THEN SweepStart
                          ELSE SweepStep(before[steps - 1], At(steps))
      BY <3>1, <1>4 DEF IsSweep
    <3> QED
      BY <3>1, <3>2, <3>3
  <2> QED
    BY <2>1, <2>2
<1>6. IsSweep(after, n)
  BY <1>5 DEF IsSweep
<1> QED
  BY <1>1, <1>6

\* Sweep is the last value of that function.
LEMMA SweepIsTheLast ==
    ASSUME FrameCount \in Nat
    PROVE  \E after : IsSweep(after, 2 * FrameCount) /\ Sweep = after[2 * FrameCount]
<1> DEFINE
      n == 2 * FrameCount
      F(after) ==
        [steps \in 0 .. n |->
            IF steps = 0
               THEN [victim |-> Nowhere,
                     referenced |-> {i \in DOMAIN frames : frames[i].referenced}]
               ELSE LET sofar == after[steps - 1]
                        i == (hand + steps - 1) % FrameCount
                    IN  IF sofar.victim # Nowhere \/ ~(IsFree(i) \/ Evictable(i))
                           THEN sofar
                        ELSE IF ~IsFree(i) /\ i \in sofar.referenced
                           THEN [sofar EXCEPT !.referenced = @ \ {i}]
                           ELSE [sofar EXCEPT !.victim = i]]
      G == CHOOSE after : after = F(after)
<1>1. Sweep = G[n]
  BY DEF Sweep
<1>2. \A after : F(after) = [steps \in 0 .. n |->
                               IF steps = 0 THEN SweepStart
                               ELSE SweepStep(after[steps - 1], At(steps))]
  BY DEF SweepStart, SweepStep, At
<1> HIDE DEF F
<1>3. \E after : after = F(after)
  <2>1. n \in Nat
    OBVIOUS
  <2>2. PICK after : IsSweep(after, n)
    BY <2>1, SweepExists
  <2>3. after = F(after)
    BY <2>2, <1>2 DEF IsSweep
  <2> QED
    BY <2>3
<1>4. G = F(G)
  BY <1>3
<1> HIDE DEF G
<1>5. IsSweep(G, n)
  BY <1>2, <1>4 DEF IsSweep
<1> QED
  BY <1>1, <1>5

\* After any number of steps.
LEMMA SweepInvariant ==
    ASSUME TypeOK, NEW after, NEW n \in Nat, IsSweep(after, n), n <= 2 * FrameCount
    PROVE  \A s \in 0 .. n : SweptSoFar(after[s], s)
<1> DEFINE S == {s \in 0 .. n : ~SweptSoFar(after[s], s)}
<1> SUFFICES ASSUME S # {} PROVE FALSE
  OBVIOUS
<1>1. PICK s \in S : \A r \in S : s <= r
  <2>1. S \in SUBSET Nat
    OBVIOUS
  <2> QED
    BY <2>1, SmallestIs
<1>2. s \in 0 .. n /\ ~SweptSoFar(after[s], s)
  OBVIOUS
<1>3. /\ FrameCount \in Nat /\ DOMAIN frames = 0 .. FrameCount - 1
      /\ \A i \in DOMAIN frames : i # Nowhere
  BY FrameFacts DEF Nowhere
<1>4. s # 0
  <2>1. SweptSoFar(SweepStart, 0)
    BY DEF SweptSoFar, SweepStart
  <2>2. after[0] = SweepStart
    BY DEF IsSweep
  <2> QED
    BY <2>1, <2>2, <1>2
<1> DEFINE sofar == after[s - 1]
           i == At(s)
<1>5. SweptSoFar(sofar, s - 1)
  <2>1. s - 1 \in 0 .. n /\ ~(s <= s - 1)
    BY <1>2, <1>4
  <2> QED
    BY <2>1, <1>1
<1>6. after[s] = SweepStep(sofar, i)
  BY <1>2, <1>4 DEF IsSweep
<1>7. FrameCount # 0
  BY <1>2, <1>3, <1>4
<1>8. i \in DOMAIN frames
  <2>1. s \in Nat \ {0}
    BY <1>2, <1>4
  <2> QED
    BY <2>1, <1>7, HandFacts
<1> HIDE DEF sofar, i
<1>9. CASE sofar.victim # Nowhere
  BY <1>2, <1>5, <1>6, <1>9 DEF SweepStep, SweptSoFar
<1>10. CASE sofar.victim = Nowhere /\ ~(IsFree(i) \/ Evictable(i))
  <2>1. after[s] = sofar
    BY <1>6, <1>10 DEF SweepStep
  <2> QED
    BY <2>1, <1>2, <1>5, <1>10 DEF SweptSoFar, i
<1>11. CASE sofar.victim = Nowhere /\ Evictable(i) /\ ~IsFree(i) /\ i \in sofar.referenced
  <2>1. after[s] = [sofar EXCEPT !.referenced = @ \ {i}]
    BY <1>6, <1>11 DEF SweepStep
  <2>2. /\ sofar \in [victim : DOMAIN frames \cup {Nowhere},
                      referenced : SUBSET DOMAIN frames]
        /\ \A r \in 1 .. s - 1 :
             /\ ~IsFree(At(r))
             /\ Evictable(At(r)) => At(r) \notin sofar.referenced /\ r <= FrameCount
    <3>1. sofar.victim = Nowhere
      BY <1>11
    <3> QED
      BY <1>5, <3>1, Zenon DEF SweptSoFar
  <2>3. s <= FrameCount
    <3> SUFFICES ASSUME ~(s <= FrameCount) PROVE FALSE
      OBVIOUS
    <3>1. s \in FrameCount + 1 .. 2 * FrameCount /\ s - FrameCount \in 1 .. s - 1
      BY <1>2, <1>3, <1>7
    <3>2. At(s - FrameCount) = i
      BY <3>1, <1>7, HandFacts DEF i
    <3> QED
      BY <3>1, <3>2, <2>2, <1>11
  <2>4. \A r \in 1 .. s : r \in 1 .. s - 1 \/ r = s
    BY <1>2
  <2>5. /\ after[s] \in [victim : DOMAIN frames \cup {Nowhere},
                         referenced : SUBSET DOMAIN frames]
        /\ after[s].victim = Nowhere
        /\ after[s].referenced = sofar.referenced \ {i}
    BY <2>1, <2>2, <1>11
  <2>6. \A r \in 1 .. s :
          /\ ~IsFree(At(r))
          /\ Evictable(At(r)) => At(r) \notin after[s].referenced /\ r <= FrameCount
    BY <2>2, <2>3, <2>4, <2>5, <1>11 DEF i
  <2> QED
    BY <2>5, <2>6, <1>2 DEF SweptSoFar
<1>12. CASE /\ sofar.victim = Nowhere
            /\ IsFree(i) \/ Evictable(i)
            /\ IsFree(i) \/ i \notin sofar.referenced
  <2>1. after[s] = [sofar EXCEPT !.victim = i]
    BY <1>6, <1>12 DEF SweepStep
  <2> QED
    BY <2>1, <1>2, <1>3, <1>5, <1>8, <1>12 DEF SweptSoFar
<1> QED
  BY <1>9, <1>10, <1>11, <1>12

\* "Two sweeps at most": the loop of acquireFrame stops at a frame that is free
\* or may be evicted, and when it stops at none there is none.
LEMMA SweepFinds ==
    ASSUME TypeOK
    PROVE  /\ Sweep.victim \in DOMAIN frames \cup {Nowhere}
           /\ Sweep.victim # Nowhere => IsFree(Sweep.victim) \/ Evictable(Sweep.victim)
           /\ Sweep.victim = Nowhere =>
                \A i \in DOMAIN frames : ~IsFree(i) /\ ~Evictable(i)
<1>1. FrameCount \in Nat /\ DOMAIN frames = 0 .. FrameCount - 1
  BY FrameFacts
<1> DEFINE n == 2 * FrameCount
<1>2. PICK after : IsSweep(after, n) /\ Sweep = after[n]
  BY <1>1, SweepIsTheLast
<1>3. SweptSoFar(Sweep, n)
  <2>1. n \in Nat /\ n <= 2 * FrameCount /\ n \in 0 .. n
    BY <1>1
  <2> QED
    BY <2>1, <1>2, SweepInvariant
<1>4. ASSUME Sweep.victim = Nowhere, NEW i \in DOMAIN frames
      PROVE  ~IsFree(i) /\ ~Evictable(i)
  <2>1. FrameCount # 0
    BY <1>1
  <2>2. PICK s \in 1 .. n : At(s) = i /\ s > FrameCount
    BY <2>1, HandFacts
  <2>3. ~(s <= FrameCount)
    BY <2>2, <1>1
  <2>4. ~IsFree(At(s)) /\ (Evictable(At(s)) => s <= FrameCount)
    BY <2>2, <1>3, <1>4, Zenon DEF SweptSoFar
  <2> QED
    BY <2>2, <2>3, <2>4
<1> QED
  BY <1>3, <1>4 DEF SweptSoFar


-----------------------------------------------------------------------------
(* A frame to spare. *)

\* A pointer's frame is one of the frames, it holds the pointer's page, and it is
\* pinned.
LEMMA PointedFrame ==
    ASSUME PoolInv, NEW t \in Thread, NEW h \in held[t]
    PROVE  /\ h \in Pointer
           /\ h.frame \in DOMAIN frames
           /\ pageFrame[h.page] = h.frame
           /\ frames[h.frame].pageId = h.page
           /\ ~IsFree(h.frame)
           /\ frames[h.frame].pins # 0
<1>1. h \in Pointer /\ h.page \in Page /\ h.frame \in Nat
  BY DEF PoolInv, TypeOK, Pointer
<1>2. pageFrame[h.page] = h.frame
  BY DEF PoolInv, Pointers
<1>3. h.frame \in DOMAIN frames
  <2>1. pageFrame[h.page] \in DOMAIN frames \cup {Nowhere}
    BY <1>1 DEF PoolInv, TypeOK
  <2> QED
    BY <2>1, <1>1, <1>2 DEF Nowhere
<1>4. frames[h.frame].pageId = h.page
  BY <1>1, <1>2, <1>3 DEF PoolInv, DirectoryAgrees
<1>5. ~IsFree(h.frame)
  BY <1>1, <1>4 DEF IsFree, Nowhere, Page
<1>6. frames[h.frame].pins # 0
  <2>1. frames[h.frame].pins = Cardinality(Holders(h.frame))
    BY <1>3 DEF PoolInv, Pointers
  <2>2. IsFiniteSet(Holders(h.frame))
    <3>1. Holders(h.frame) \subseteq Thread
      BY DEF Holders
    <3> QED
      BY <3>1, PoolAssumption, FS_Subset
  <2>3. Holders(h.frame) # {}
    <3>1. t \in Holders(h.frame)
      BY DEF Holders
    <3> QED
      BY <3>1
  <2> QED
    BY <2>1, <2>2, <2>3, FS_EmptySet
<1> QED
  BY <1>1, <1>2, <1>3, <1>4, <1>5, <1>6

\* A frame that is free or may be evicted has nobody's pointer in it.
LEMMA NobodyPoints ==
    ASSUME PoolInv, NEW i \in DOMAIN frames, IsFree(i) \/ Evictable(i),
           NEW t \in Thread, NEW h \in held[t]
    PROVE  h.frame # i
  BY PointedFrame DEF Evictable

\* A page in a frame nobody points into is in the file when the frame is clean,
\* and in the log when the frame says so.
LEMMA UntouchedPage ==
    ASSUME PoolInv, NEW p \in Page, pageFrame[p] # Nowhere,
           \A t \in Thread : \A h \in held[t] : h.frame # pageFrame[p]
    PROVE  /\ frames[pageFrame[p]].current
           /\ ~frames[pageFrame[p]].dirty => p \in inFile
           /\ frames[pageFrame[p]].logged => p \in inLog
<1>1. Untouched(p)
  BY PointedFrame DEF Untouched
<1> QED
  BY <1>1 DEF PoolInv, Copies

\* acquireFrame keeps its promise, with the frame of a page it evicts ...
LEMMA EvictionIsPromised ==
    ASSUME PoolInv, NEW a \in Acquired, Sweep.victim # Nowhere
    PROVE  Promised(a)
<1> DEFINE i == Sweep.victim
           page == frames[i].pageId
<1>1. /\ TypeOK /\ DirectoryAgrees
      /\ FrameCount \in Nat /\ DOMAIN frames = 0 .. FrameCount - 1
      /\ \A j \in DOMAIN frames : frames[j] \in FrameType
  BY FrameFacts DEF PoolInv
<1>2. i \in DOMAIN frames /\ (IsFree(i) \/ Evictable(i))
  BY <1>1, SweepFinds
<1> HIDE DEF i
<1>3. a = [frame |-> i,
           frames |-> [j \in DOMAIN frames |->
                          IF j = i THEN [frames[j] EXCEPT !.dirty = FALSE,
                                                          !.logged = FALSE,
                                                          !.referenced = FALSE]
                          ELSE [frames[j] EXCEPT !.referenced = j \in Sweep.referenced]],
           pageFrame |-> [p \in Page |-> IF p = page THEN Nowhere ELSE pageFrame[p]],
           hand |-> (i + 1) % FrameCount,
           inFile |-> IF frames[i].dirty /\ frames[i].current
                         THEN inFile \cup {page} ELSE inFile]
  BY DEF Acquired, i
<1>4. \A p \in Page : p = page <=> pageFrame[p] = i
  BY <1>1, <1>2 DEF DirectoryAgrees
<1>5. DOMAIN a.frames = DOMAIN frames /\ a.frame = i
  BY <1>3
<1>6. \E n \in 1 .. MaxFrames : DOMAIN a.frames = 0 .. n - 1
  <2>1. FrameCount \in 1 .. MaxFrames
    BY <1>1, <1>2, PoolAssumption DEF TypeOK
  <2> QED
    BY <2>1, <1>1, <1>5
<1>7. \A j \in DOMAIN frames :
        /\ a.frames[j] \in FrameType
        /\ j # i => SameFrame(a.frames[j], frames[j])
  <2> TAKE j \in DOMAIN frames
  <2>1. CASE j = i
    <3>1. a.frames[j] = [frames[j] EXCEPT !.dirty = FALSE, !.logged = FALSE,
                                          !.referenced = FALSE]
      BY <1>3, <2>1
    <3> QED
      BY <3>1, <2>1, <1>1 DEF FrameType
  <2>2. CASE j # i
    <3>1. \E b \in BOOLEAN : a.frames[j] = [frames[j] EXCEPT !.referenced = b]
      <4>1. a.frames[j] = [frames[j] EXCEPT !.referenced = j \in Sweep.referenced]
        BY <1>3, <2>2
      <4>2. (j \in Sweep.referenced) \in BOOLEAN
        OBVIOUS
      <4> QED
        BY <4>1, <4>2, Zenon
    <3>2. frames[j] \in FrameType
      BY <1>1
    <3> QED
      BY <3>1, <3>2 DEF FrameType, SameFrame
  <2> QED
    BY <2>1, <2>2
<1>8. a.frames \in [DOMAIN a.frames -> FrameType]
  <2>1. a.frames = [j \in DOMAIN frames |-> a.frames[j]]
    BY <1>3
  <2> QED
    BY <2>1, <1>5, <1>7
<1>9. a.hand \in DOMAIN a.frames
  <2>1. FrameCount \in Nat \ {0} /\ i + 1 \in Nat
    BY <1>1, <1>2
  <2> QED
    BY <2>1, <1>1, <1>3, <1>5, Remainder
<1>10. a.pageFrame = [p \in Page |-> IF pageFrame[p] = a.frame THEN Nowhere
                                                               ELSE pageFrame[p]]
  BY <1>3, <1>4, <1>5
<1>11. \A t \in Thread : \A h \in held[t] : h.frame # i
  BY <1>2, NobodyPoints
<1>12. ASSUME ~IsFree(i)
       PROVE  /\ page \in Page /\ pageFrame[page] = i
              /\ frames[i].dirty => page \in inLog
              /\ frames[i].current
              /\ ~frames[i].dirty => page \in inFile
  <2>1. page \in Page /\ pageFrame[page] = i
    BY <1>1, <1>2, <1>4, <1>12 DEF FrameType, IsFree
  <2>2. i # Nowhere
    BY <1>1, <1>2 DEF Nowhere
  <2>3. /\ frames[i].current
        /\ ~frames[i].dirty => page \in inFile
        /\ frames[i].logged => page \in inLog
    BY <2>1, <2>2, <1>11, UntouchedPage
  <2> QED
    BY <2>1, <2>3, <1>2, <1>12 DEF Evictable
<1>13. IsFree(i) => ~frames[i].dirty
  BY <1>2 DEF PoolInv, Copies
<1>14. /\ inFile \subseteq a.inFile
       /\ \A p \in a.inFile : p \notin inFile => p \in inLog /\ pageFrame[p] = a.frame
       /\ a.inFile \subseteq Page
       /\ \A p \in Page : pageFrame[p] = a.frame => p \in a.inFile
  <2>1. a.inFile = IF frames[i].dirty /\ frames[i].current THEN inFile \cup {page}
                                                           ELSE inFile
    BY <1>3
  <2>2. inFile \subseteq Page
    BY <1>1 DEF TypeOK
  <2>3. CASE IsFree(i)
    <3>1. \A p \in Page : pageFrame[p] # i
      BY <1>4, <2>3 DEF IsFree, Nowhere, Page
    <3> QED
      BY <2>1, <2>2, <2>3, <3>1, <1>13, <1>5
  <2>4. CASE ~IsFree(i)
    BY <2>1, <2>2, <2>4, <1>4, <1>5, <1>12
  <2> QED
    BY <2>3, <2>4
<1> QED
  BY <1>2, <1>5, <1>6, <1>7, <1>8, <1>9, <1>10, <1>11, <1>14 DEF Promised

\* ... and with the first of the new ones.
LEMMA GrowthIsPromised ==
    ASSUME PoolInv, NEW a \in Acquired, Sweep.victim = Nowhere
    PROVE  Promised(a)
<1>1. /\ TypeOK /\ FrameCount \in Nat /\ DOMAIN frames = 0 .. FrameCount - 1
      /\ \A j \in DOMAIN frames : frames[j] \in FrameType
  BY FrameFacts DEF PoolInv
<1> DEFINE grown == IF FrameCount = 0 THEN InitialFrames ELSE 2 * FrameCount
<1>2. grown \in Nat
  BY <1>1, PoolAssumption
<1>3. PICK n \in {m \in FrameCount + 1 .. grown : m <= MaxFrames} :
        a = [frame |-> FrameCount,
             frames |-> [j \in 0 .. n - 1 |-> IF j < FrameCount THEN frames[j]
                                                                ELSE FreeFrame],
             pageFrame |-> pageFrame,
             hand |-> 0,
             inFile |-> inFile]
  BY DEF Acquired
<1> HIDE DEF grown
<1>4. n \in 1 .. MaxFrames /\ FrameCount < n
  BY <1>1, <1>2, <1>3, PoolAssumption
<1>5. DOMAIN a.frames = 0 .. n - 1 /\ a.frame = FrameCount
  BY <1>3
<1>6. FreeFrame \in FrameType
  BY DEF FreeFrame, FrameType
<1>7. \A j \in DOMAIN a.frames : a.frames[j] = IF j \in DOMAIN frames THEN frames[j]
                                                                      ELSE FreeFrame
  BY <1>1, <1>3, <1>4
<1>8. a.frames \in [DOMAIN a.frames -> FrameType]
  <2>1. a.frames = [j \in DOMAIN a.frames |-> a.frames[j]]
    BY <1>3
  <2> QED
    BY <2>1, <1>1, <1>6, <1>7
<1>9. /\ \A p \in Page : pageFrame[p] # FrameCount
      /\ pageFrame = [p \in Page |-> pageFrame[p]]
      /\ inFile \subseteq Page
  BY <1>1 DEF TypeOK, Nowhere
<1>10. \A t \in Thread : \A h \in held[t] : h.frame # FrameCount
  BY <1>1, PointedFrame
<1>11. \A i \in DOMAIN frames : ~IsFree(i) /\ ~Evictable(i)
  BY <1>1, SweepFinds
<1>12. /\ DOMAIN frames \subseteq DOMAIN a.frames
       /\ a.frame \in DOMAIN a.frames /\ a.hand \in DOMAIN a.frames
  BY <1>1, <1>3, <1>4, <1>5
<1>13. a.pageFrame = [p \in Page |-> IF pageFrame[p] = a.frame THEN Nowhere
                                                               ELSE pageFrame[p]]
  BY <1>3, <1>5, <1>9
<1>14. \A i \in DOMAIN frames \ {a.frame} : SameFrame(a.frames[i], frames[i])
  BY <1>7, <1>12 DEF SameFrame
<1>15. \A i \in DOMAIN a.frames \ DOMAIN frames : a.frames[i] = FreeFrame
  BY <1>7
<1>16. a.inFile = inFile
  BY <1>3
<1> QED
  BY <1>4, <1>5, <1>8, <1>9, <1>10, <1>11, <1>12, <1>13, <1>14, <1>15, <1>16
  DEF Promised

LEMMA AcquiredIsPromised ==
    ASSUME PoolInv, NEW a \in Acquired
    PROVE  Promised(a)
  BY EvictionIsPromised, GrowthIsPromised


-----------------------------------------------------------------------------
(* Every step keeps the invariant. *)

\* A thread that comes to point into a frame, or no longer does, counts for one.
LEMMA HolderCounts ==
    ASSUME NEW S \in SUBSET Thread, NEW t \in Thread
    PROVE  /\ Cardinality(S) \in Nat
           /\ t \notin S => Cardinality(S \cup {t}) = Cardinality(S) + 1
           /\ t \in S => Cardinality(S \ {t}) = Cardinality(S) - 1
<1>1. IsFiniteSet(S)
  BY PoolAssumption, FS_Subset
<1> QED
  BY <1>1, FS_CardinalityType, FS_AddElement, FS_RemoveElement

\* Frames that differ in their pins and marks.
LEMMA FrameUpdates ==
    ASSUME NEW f \in FrameType, NEW pins \in Nat, NEW referenced \in BOOLEAN,
           NEW dirty \in BOOLEAN, NEW logged \in BOOLEAN, NEW current \in BOOLEAN
    PROVE  /\ [f EXCEPT !.pins = pins, !.referenced = referenced] \in FrameType
           /\ [f EXCEPT !.pins = pins, !.dirty = dirty, !.logged = logged] \in FrameType
           /\ [f EXCEPT !.dirty = dirty, !.logged = logged] \in FrameType
           /\ [f EXCEPT !.logged = logged] \in FrameType
           /\ [f EXCEPT !.current = current] \in FrameType
  BY DEF FrameType

LEMMA InitKeeps ==
    ASSUME Init
    PROVE  PoolInv
<1>1. DOMAIN frames = {} /\ FrameCount = 0
  <2>1. DOMAIN frames = {}
    BY DEF Init
  <2> QED
    BY <2>1, FS_EmptySet DEF FrameCount
<1>2. frames \in [0 .. FrameCount - 1 -> FrameType]
  <2>1. 0 .. FrameCount - 1 = {}
    BY <1>1
  <2> QED
    BY <2>1 DEF Init
<1>3. TypeOK
  BY <1>1, <1>2, PoolAssumption DEF Init, TypeOK, Nowhere
<1>4. Owned = {}
  BY DEF Init, Owned
<1> QED
  BY <1>1, <1>3, <1>4 DEF Init, PoolInv, DirectoryAgrees, Nowhere, Alone, Separate,
                          Pointers, Copies, Away

\* Only what a thread may do has changed.
LEMMA ModeKeeps ==
    ASSUME PoolInv, UNCHANGED <<frameVars, fileVars, idVars, held, ownerVars>>,
           mode' \in [Thread -> {"idle", "read", "write"}], Alone'
    PROVE  PoolInv'
<1> USE DEF PoolInv, frameVars, fileVars, idVars, ownerVars
<1>1. TypeOK'
  BY DEF TypeOK, FrameCount
<1>2. DirectoryAgrees'
  BY DEF DirectoryAgrees
<1>3. Owned' = Owned
  BY DEF Owned
<1>4. Separate'
  BY <1>3 DEF Separate
<1>5. Pointers'
  <2>1. \A i : Holders(i)' = Holders(i)
    BY DEF Holders
  <2> QED
    BY <2>1 DEF Pointers
<1>6. Copies'
  BY DEF Copies, IsFree, Untouched
<1>7. Away'
  BY <1>3 DEF Away
<1> QED
  BY <1>1, <1>2, <1>4, <1>5, <1>6, <1>7

LEMMA StartReadKeeps ==
    ASSUME PoolInv, NEW t \in Thread, StartRead(t)
    PROVE  PoolInv'
<1>1. mode' \in [Thread -> {"idle", "read", "write"}] /\ Alone'
  BY DEF PoolInv, TypeOK, Alone, StartRead
<1> QED
  BY <1>1, ModeKeeps DEF StartRead

LEMMA StartWriteKeeps ==
    ASSUME PoolInv, NEW t \in Thread, StartWrite(t)
    PROVE  PoolInv'
<1>1. mode' \in [Thread -> {"idle", "read", "write"}] /\ Alone'
  BY DEF PoolInv, TypeOK, Alone, StartWrite
<1> QED
  BY <1>1, ModeKeeps DEF StartWrite

LEMMA EndStatementKeeps ==
    ASSUME PoolInv, NEW t \in Thread, EndStatement(t)
    PROVE  PoolInv'
<1>1. mode' \in [Thread -> {"idle", "read", "write"}] /\ Alone'
  BY DEF PoolInv, TypeOK, Alone, EndStatement
<1> QED
  BY <1>1, ModeKeeps DEF EndStatement

LEMMA StutterKeeps ==
    ASSUME PoolInv, UNCHANGED poolVars
    PROVE  PoolInv'
<1>1. mode' \in [Thread -> {"idle", "read", "write"}] /\ Alone'
  BY DEF PoolInv, TypeOK, Alone, poolVars
<1> QED
  BY <1>1, ModeKeeps DEF poolVars

LEMMA PinHitKeeps ==
    ASSUME PoolInv, NEW t \in Thread, NEW p \in Page, PinHit(t, p)
    PROVE  PoolInv'
<1> DEFINE i == pageFrame[p]
           h == [page |-> p, frame |-> i, wrote |-> FALSE]
<1>1. /\ TypeOK /\ FrameCount \in Nat /\ DOMAIN frames = 0 .. FrameCount - 1
      /\ \A j \in DOMAIN frames : frames[j] \in FrameType
  BY FrameFacts DEF PoolInv
<1>2. i \in DOMAIN frames /\ h \in Pointer
  BY <1>1 DEF TypeOK, PinHit, Pointer
<1>3. /\ DOMAIN frames' = DOMAIN frames
      /\ frames'[i] = [frames[i] EXCEPT !.pins = @ + 1, !.referenced = TRUE]
      /\ \A j \in DOMAIN frames \ {i} : frames'[j] = frames[j]
      /\ frames' \in [0 .. FrameCount - 1 -> FrameType]
  <2>1. frames' = [frames EXCEPT ![i] = [frames[i] EXCEPT !.pins = @ + 1,
                                                          !.referenced = TRUE]]
    <3>1. frames' = [frames EXCEPT ![i].pins = @ + 1, ![i].referenced = TRUE]
      BY DEF PinHit
    <3> QED
      BY <3>1, <1>1, <1>2 DEF TypeOK
  <2>2. [frames[i] EXCEPT !.pins = @ + 1, !.referenced = TRUE] \in FrameType
    <3>1. frames[i] \in FrameType
      BY <1>1, <1>2
    <3>2. frames[i].pins + 1 \in Nat
      BY <3>1 DEF FrameType
    <3> QED
      BY <3>1, <3>2, FrameUpdates
  <2> QED
    BY <2>1, <2>2, <1>1, <1>2 DEF TypeOK
<1>4. \A j \in DOMAIN frames :
        /\ frames'[j].pageId = frames[j].pageId
        /\ frames'[j].dirty = frames[j].dirty
        /\ frames'[j].logged = frames[j].logged
        /\ frames'[j].current = frames[j].current
  <2> TAKE j \in DOMAIN frames
  <2>1. CASE j = i
    <3>1. frames[i] \in FrameType
      BY <1>1, <1>2
    <3> QED
      BY <2>1, <3>1, <1>3 DEF FrameType
  <2>2. CASE j # i
    BY <2>2, <1>3
  <2> QED
    BY <2>1, <2>2
<1>5. /\ held' = [held EXCEPT ![t] = @ \cup {h}]
      /\ held[t] \subseteq Pointer /\ held \in [Thread -> SUBSET Pointer]
      /\ UNCHANGED <<pageFrame, hand, inFile, inLog, pageCount, freeIds, mode,
                     tables, scratch>>
  BY <1>1 DEF PinHit, Point, TypeOK, fileVars, idVars, ownerVars
<1>6. /\ mode[t] # "idle" /\ p \in tables \cup scratch[t]
      /\ \A g \in held[t] : g.page # p
  BY DEF PinHit, MayUse
<1>7. /\ held'[t] = held[t] \cup {h}
      /\ \A u \in Thread \ {t} : held'[u] = held[u]
  BY <1>5
<1> HIDE DEF h
<1>8. TypeOK'
  <2>1. FrameCount' = FrameCount
    BY <1>3 DEF FrameCount
  <2>2. held' \in [Thread -> SUBSET Pointer]
    BY <1>2, <1>5
  <2> QED
    BY <2>1, <2>2, <1>1, <1>3, <1>5 DEF TypeOK
<1>9. DirectoryAgrees'
  BY <1>3, <1>4, <1>5 DEF PoolInv, DirectoryAgrees
<1>10. Alone'
  BY <1>5, <1>6, <1>7 DEF PoolInv, Alone
<1>11. Owned' = Owned
  BY <1>5 DEF Owned
<1>12. Separate'
  BY <1>5, <1>11 DEF PoolInv, Separate
<1>13. Pointers'
  <2>1. ASSUME NEW u \in Thread, NEW g \in held'[u]
        PROVE  /\ g.page \in tables' \cup scratch'[u]
               /\ pageFrame'[g.page] = g.frame
               /\ \A f \in held'[u] : f.page = g.page => f = g
    <3>1. \A f \in held'[u] : f \in held[u] \/ (u = t /\ f = h)
      BY <2>1, <1>7
    <3>2. h.page = p /\ h.frame = pageFrame[p]
      BY DEF h
    <3>3. CASE g \in held[u]
      <4>1. /\ g.page \in tables \cup scratch[u] /\ pageFrame[g.page] = g.frame
            /\ \A f \in held[u] : f.page = g.page => f = g
        BY <3>3 DEF PoolInv, Pointers
      <4>2. u = t => g.page # p
        BY <3>3, <1>6
      <4> QED
        BY <4>1, <4>2, <3>1, <3>2, <1>5
    <3>4. CASE u = t /\ g = h
      BY <3>1, <3>2, <3>4, <1>5, <1>6
    <3> QED
      BY <3>1, <3>3, <3>4
  <2>2. ASSUME NEW j \in DOMAIN frames' PROVE frames'[j].pins = Cardinality(Holders(j)')
    <3>1. j \in DOMAIN frames /\ frames[j].pins = Cardinality(Holders(j))
      BY <2>2, <1>3 DEF PoolInv, Pointers
    <3>2. CASE j = i
      <4>1. frames'[j].pins = frames[j].pins + 1
        BY <3>1, <3>2, <1>1, <1>3 DEF FrameType
      <4>2. t \notin Holders(j)
        <5> SUFFICES ASSUME NEW g \in held[t], g.frame = i PROVE FALSE
          BY <3>2 DEF Holders
        <5>1. frames[i].pageId = g.page
          BY PointedFrame
        <5>2. frames[i].pageId = p
          BY <1>2 DEF PoolInv, DirectoryAgrees
        <5> QED
          BY <5>1, <5>2, <1>6
      <4>3. Holders(j)' = Holders(j) \cup {t}
        <5>1. h \in held'[t] /\ h.frame = j
          BY <3>2, <1>7 DEF h
        <5>2. \A u \in Thread : u # t =>
                ((\E g \in held'[u] : g.frame = j) <=> (\E g \in held[u] : g.frame = j))
          BY <1>7
        <5> QED
          BY <5>1, <5>2 DEF Holders
      <4>4. Holders(j) \in SUBSET Thread
        BY DEF Holders
      <4> QED
        BY <3>1, <4>1, <4>2, <4>3, <4>4, HolderCounts
    <3>3. CASE j # i
      <4>1. Holders(j)' = Holders(j)
        BY <3>3, <1>7 DEF Holders, h
      <4> QED
        BY <3>1, <3>3, <4>1, <1>3
    <3> QED
      BY <3>2, <3>3
  <2> QED
    BY <2>1, <2>2 DEF Pointers
<1>14. Copies'
  <2>1. \A q \in Page : Untouched(q)' => Untouched(q)
    BY <1>7 DEF Untouched
  <2>2. \A q \in Page : pageFrame[q] \in DOMAIN frames \cup {Nowhere}
    BY <1>1 DEF TypeOK
  <2> QED
    BY <2>1, <2>2, <1>3, <1>4, <1>5 DEF PoolInv, Copies, IsFree
<1>15. Away'
  BY <1>5, <1>11 DEF PoolInv, Away
<1> QED
  BY <1>8, <1>9, <1>10, <1>12, <1>13, <1>14, <1>15 DEF PoolInv


\* What a frame that is refilled leaves as it was: the other frames and pages.
LEMMA RefilledTypes ==
    ASSUME PoolInv, NEW a \in Acquired, NEW q, NEW content, Refilled(a, q, content)
    PROVE  /\ DOMAIN frames \subseteq DOMAIN frames'
           /\ frames' \in [0 .. FrameCount' - 1 -> FrameType]
           /\ FrameCount' \in 0 .. MaxFrames
           /\ pageFrame' \in [Page -> DOMAIN frames' \cup {Nowhere}]
           /\ hand' \in DOMAIN frames'
           /\ a.frame \in DOMAIN frames' /\ frames'[a.frame] = content
           /\ \A i \in DOMAIN frames' \ {a.frame} :
                IF i \in DOMAIN frames THEN SameFrame(frames'[i], frames[i])
                                       ELSE frames'[i] = FreeFrame
<1>1. Promised(a)
  BY AcquiredIsPromised
<1>2. PICK n \in 1 .. MaxFrames : DOMAIN a.frames = 0 .. n - 1
  BY <1>1 DEF Promised
<1>3. /\ frames' = [a.frames EXCEPT ![a.frame] = content]
      /\ content \in FrameType /\ a.frame \in DOMAIN a.frames
      /\ a.frames \in [DOMAIN a.frames -> FrameType]
      /\ hand' \in DOMAIN a.frames
  BY <1>1 DEF Promised, Refilled
<1>4. /\ DOMAIN frames' = DOMAIN a.frames /\ frames'[a.frame] = content
      /\ \A i \in DOMAIN a.frames \ {a.frame} : frames'[i] = a.frames[i]
      /\ frames' \in [DOMAIN a.frames -> FrameType]
  BY <1>3
<1>5. FrameCount' = n
  <2>1. Cardinality(0 .. n - 1) = n
    BY <1>2, FS_Interval
  <2> QED
    BY <2>1, <1>2, <1>4 DEF FrameCount
<1>6. DOMAIN frames \subseteq DOMAIN frames'
  BY <1>1, <1>4 DEF Promised
<1>7. pageFrame' \in [Page -> DOMAIN frames' \cup {Nowhere}]
  <2>1. pageFrame \in [Page -> DOMAIN frames \cup {Nowhere}]
    BY DEF PoolInv, TypeOK
  <2> QED
    BY <2>1, <1>3, <1>4, <1>6 DEF Refilled
<1>8. \A i \in DOMAIN frames' \ {a.frame} :
        IF i \in DOMAIN frames THEN SameFrame(frames'[i], frames[i])
                               ELSE frames'[i] = FreeFrame
  BY <1>1, <1>4 DEF Promised
<1> QED
  BY <1>2, <1>3, <1>4, <1>5, <1>6, <1>7, <1>8, PoolAssumption

\* The directory still agrees.
LEMMA RefilledAgrees ==
    ASSUME PoolInv, NEW a \in Acquired, NEW q, NEW content, Refilled(a, q, content)
    PROVE  DirectoryAgrees'
<1> SUFFICES ASSUME NEW i \in DOMAIN frames', NEW p \in Page
             PROVE  frames'[i].pageId = p <=> pageFrame'[p] = i
  BY DEF DirectoryAgrees
<1>1. /\ a.frame \in DOMAIN frames' /\ frames'[a.frame].pageId = q
      /\ i # a.frame => IF i \in DOMAIN frames THEN SameFrame(frames'[i], frames[i])
                                               ELSE frames'[i] = FreeFrame
      /\ i \in Nat /\ a.frame \in Nat
  BY RefilledTypes DEF Refilled
<1>2. /\ pageFrame'[p] = IF p = q THEN a.frame
                         ELSE IF pageFrame[p] = a.frame THEN Nowhere
                         ELSE pageFrame[p]
      /\ p = q => pageFrame[p] = Nowhere
      /\ pageFrame[p] \in DOMAIN frames \cup {Nowhere}
      /\ i # Nowhere /\ p # Nowhere
  BY <1>1 DEF Refilled, PoolInv, TypeOK, Nowhere, Page
<1>3. CASE i = a.frame
  BY <1>1, <1>2, <1>3
<1>4. CASE i # a.frame /\ i \in DOMAIN frames
  <2>1. frames'[i].pageId = frames[i].pageId
    BY <1>1, <1>4 DEF SameFrame
  <2>2. frames[i].pageId = p <=> pageFrame[p] = i
    BY <1>4 DEF PoolInv, DirectoryAgrees
  <2> QED
    BY <2>1, <2>2, <1>2, <1>4
<1>5. CASE i # a.frame /\ i \notin DOMAIN frames
  BY <1>1, <1>2, <1>5 DEF FreeFrame
<1> QED
  BY <1>3, <1>4, <1>5

\* The other pages are where they were, or in the file.
LEMMA RefilledCopies ==
    ASSUME PoolInv, NEW a \in Acquired, NEW q, NEW content, Refilled(a, q, content),
           \A p \in Page \ {q} : Untouched(p)' => Untouched(p)
    PROVE  /\ \A i \in DOMAIN frames' \ {a.frame} : IsFree(i)' => ~frames'[i].dirty
           /\ \A p \in Page \ {q} : pageFrame'[p] # Nowhere =>
                /\ pageFrame[p] # Nowhere
                /\ frames'[pageFrame'[p]].current
                /\ Untouched(p)' => /\ ~frames'[pageFrame'[p]].dirty => p \in inFile'
                                    /\ frames'[pageFrame'[p]].logged => p \in inLog'
           /\ \A p \in Owned \ {q} : pageFrame'[p] = Nowhere => p \in inFile'
<1>1. /\ \A i \in DOMAIN frames' \ {a.frame} :
           IF i \in DOMAIN frames THEN SameFrame(frames'[i], frames[i])
                                  ELSE frames'[i] = FreeFrame
      /\ DOMAIN frames \subseteq DOMAIN frames'
      /\ Promised(a)
  BY RefilledTypes, AcquiredIsPromised
<1>2. ASSUME NEW i \in DOMAIN frames' \ {a.frame}, IsFree(i)'
      PROVE  ~frames'[i].dirty
  <2>1. CASE i \in DOMAIN frames
    <3>1. SameFrame(frames'[i], frames[i])
      BY <1>1, <2>1
    <3>2. IsFree(i)
      BY <3>1, <1>2 DEF IsFree, SameFrame
    <3> QED
      BY <2>1, <3>1, <3>2 DEF SameFrame, PoolInv, Copies
  <2>2. CASE i \notin DOMAIN frames
    BY <2>2, <1>1 DEF FreeFrame
  <2> QED
    BY <2>1, <2>2
<1>3. ASSUME NEW p \in Page, p # q
      PROVE  /\ pageFrame'[p] = IF pageFrame[p] = a.frame THEN Nowhere ELSE pageFrame[p]
             /\ pageFrame[p] \in DOMAIN frames \cup {Nowhere}
             /\ p \in inFile => p \in inFile'
             /\ p \in inLog => p \in inLog'
             /\ pageFrame[p] = a.frame => p \in inFile'
  BY <1>1, <1>3 DEF Refilled, Promised, PoolInv, TypeOK
<1>4. ASSUME NEW p \in Page, p # q, pageFrame'[p] # Nowhere
      PROVE  /\ pageFrame[p] # Nowhere
             /\ frames'[pageFrame'[p]].current
             /\ Untouched(p)' => /\ ~frames'[pageFrame'[p]].dirty => p \in inFile'
                                 /\ frames'[pageFrame'[p]].logged => p \in inLog'
  <2>1. /\ pageFrame'[p] = pageFrame[p] /\ pageFrame[p] # a.frame
        /\ pageFrame[p] \in DOMAIN frames
    BY <1>3, <1>4
  <2>2. SameFrame(frames'[pageFrame[p]], frames[pageFrame[p]])
    BY <2>1, <1>1
  <2>3. pageFrame[p] # Nowhere
    BY <2>1, <1>4
  <2>4. /\ frames[pageFrame[p]].current
        /\ Untouched(p) => /\ ~frames[pageFrame[p]].dirty => p \in inFile
                           /\ frames[pageFrame[p]].logged => p \in inLog
    BY <2>3 DEF PoolInv, Copies
  <2> QED
    BY <2>1, <2>2, <2>3, <2>4, <1>3, <1>4 DEF SameFrame
<1>5. ASSUME NEW p \in Owned, p # q, pageFrame'[p] = Nowhere
      PROVE  p \in inFile'
  <2>1. p \in Page
    BY DEF Owned, PoolInv, TypeOK
  <2> QED
    BY <2>1, <1>3, <1>5 DEF PoolInv, Away
<1> QED
  BY <1>2, <1>4, <1>5


\* Nobody points into the frame that is refilled, nor into a new one.
LEMMA RefilledPins ==
    ASSUME PoolInv, NEW a \in Acquired, NEW q, NEW content, Refilled(a, q, content)
    PROVE  /\ Holders(a.frame) = {}
           /\ \A i \in DOMAIN frames' \ {a.frame} :
                frames'[i].pins = Cardinality(Holders(i))
<1>1. Promised(a)
  BY AcquiredIsPromised
<1>2. Holders(a.frame) = {}
  BY <1>1 DEF Promised, Holders
<1>3. ASSUME NEW i \in DOMAIN frames' \ {a.frame}
      PROVE  frames'[i].pins = Cardinality(Holders(i))
  <2>1. IF i \in DOMAIN frames THEN SameFrame(frames'[i], frames[i])
                               ELSE frames'[i] = FreeFrame
    BY RefilledTypes
  <2>2. CASE i \in DOMAIN frames
    BY <2>1, <2>2 DEF SameFrame, PoolInv, Pointers
  <2>3. CASE i \notin DOMAIN frames
    <3>1. Holders(i) = {}
      BY <2>3, PointedFrame DEF Holders
    <3> QED
      BY <3>1, <2>1, <2>3, FS_EmptySet DEF FreeFrame
  <2> QED
    BY <2>2, <2>3
<1> QED
  BY <1>2, <1>3

\* The frame was made free for nothing.
LEMMA PinFailsKeeps ==
    ASSUME PoolInv, NEW t \in Thread, NEW p \in Page, PinFails(t, p)
    PROVE  PoolInv'
<1>1. PICK a \in Acquired :
        /\ frames' = [a.frames EXCEPT ![a.frame] = FreeFrame]
        /\ pageFrame' = a.pageFrame
        /\ hand' = a.hand
        /\ inFile' = a.inFile
  BY DEF PinFails
<1>2. UNCHANGED <<inLog, pageCount, freeIds, mode, held, tables, scratch>>
  BY DEF PinFails, idVars, ownerVars
<1>3. Promised(a)
  BY AcquiredIsPromised
<1>4. Refilled(a, Nowhere, FreeFrame)
  <2>1. FreeFrame \in FrameType /\ FreeFrame.pageId = Nowhere /\ FreeFrame.pins = 0
    BY DEF FreeFrame, FrameType
  <2>2. \A q \in Page : q # Nowhere
    BY DEF Page, Nowhere
  <2> QED
    BY <2>1, <2>2, <1>1, <1>2, <1>3 DEF Refilled, Promised
<1>5. Owned' = Owned
  BY <1>2 DEF Owned
<1>6. \A q \in Page : q # Nowhere /\ (Untouched(q)' => Untouched(q))
  BY <1>2 DEF Untouched, Page, Nowhere
<1>7. TypeOK'
  <2>1. inFile' \subseteq Page
    BY <1>1, <1>3 DEF Promised
  <2> QED
    BY <2>1, <1>2, <1>4, RefilledTypes DEF PoolInv, TypeOK
<1>8. DirectoryAgrees'
  BY <1>4, RefilledAgrees
<1>9. Alone'
  BY <1>2 DEF PoolInv, Alone
<1>10. /\ \A i \in DOMAIN frames' \ {a.frame} : IsFree(i)' => ~frames'[i].dirty
       /\ \A q \in Page \ {Nowhere} : pageFrame'[q] # Nowhere =>
            /\ pageFrame[q] # Nowhere
            /\ frames'[pageFrame'[q]].current
            /\ Untouched(q)' => /\ ~frames'[pageFrame'[q]].dirty => q \in inFile'
                                /\ frames'[pageFrame'[q]].logged => q \in inLog'
       /\ \A q \in Owned \ {Nowhere} : pageFrame'[q] = Nowhere => q \in inFile'
  <2>1. \A q \in Page \ {Nowhere} : Untouched(q)' => Untouched(q)
    BY <1>6
  <2> QED
    BY <2>1, <1>4, RefilledCopies
<1>11. frames'[a.frame] = FreeFrame /\ ~FreeFrame.dirty /\ FreeFrame.pins = 0
  BY <1>4, RefilledTypes DEF FreeFrame
<1>12. Separate'
  BY <1>2, <1>5, <1>6, <1>10 DEF PoolInv, Separate
<1>13. Pointers'
  <2>1. ASSUME NEW u \in Thread, NEW g \in held'[u]
        PROVE  /\ g.page \in tables' \cup scratch'[u]
               /\ pageFrame'[g.page] = g.frame
               /\ \A f \in held'[u] : f.page = g.page => f = g
    <3>1. g \in held[u] /\ g.page \in Page /\ g.frame # a.frame
      BY <1>2, <1>3 DEF Promised, PoolInv, TypeOK, Pointer
    <3>2. pageFrame'[g.page] = pageFrame[g.page]
      BY <3>1, <1>1, <1>3 DEF Promised, PoolInv, Pointers
    <3> QED
      BY <3>1, <3>2, <1>2 DEF PoolInv, Pointers
  <2>2. \A i : Holders(i)' = Holders(i)
    BY <1>2 DEF Holders
  <2>3. \A i \in DOMAIN frames' : frames'[i].pins = Cardinality(Holders(i)')
    BY <2>2, <1>4, <1>11, RefilledPins, FS_EmptySet
  <2> QED
    BY <2>1, <2>3 DEF Pointers
<1>14. Copies'
  BY <1>6, <1>10, <1>11 DEF Copies
<1>15. Away'
  <2>1. Owned \subseteq Page
    BY DEF Owned, PoolInv, TypeOK
  <2> QED
    BY <2>1, <1>5, <1>6, <1>10 DEF Away
<1> QED
  BY <1>7, <1>8, <1>9, <1>12, <1>13, <1>14, <1>15 DEF PoolInv


LEMMA PinMissKeeps ==
    ASSUME PoolInv, NEW t \in Thread, NEW p \in Page, PinMiss(t, p)
    PROVE  PoolInv'
<1>1. PICK a \in Acquired :
        /\ Place(a, p, [FreeFrame EXCEPT !.pageId = p, !.pins = 1,
                                         !.current = p \in a.inFile])
        /\ inFile' = a.inFile
        /\ Point(t, p, a.frame)
  BY DEF PinMiss
<1> DEFINE content == [FreeFrame EXCEPT !.pageId = p, !.pins = 1,
                                        !.current = p \in a.inFile]
           h == [page |-> p, frame |-> a.frame, wrote |-> FALSE]
<1>2. /\ UNCHANGED <<inLog, pageCount, freeIds, mode, tables, scratch>>
      /\ held' = [held EXCEPT ![t] = @ \cup {h}]
      /\ frames' = [a.frames EXCEPT ![a.frame] = content]
      /\ pageFrame' = [a.pageFrame EXCEPT ![p] = a.frame]
      /\ hand' = a.hand /\ inFile' = a.inFile
      /\ pageFrame[p] = Nowhere
  BY <1>1 DEF PinMiss, Place, Point, idVars, ownerVars
<1>3. /\ mode[t] # "idle" /\ p \in tables \cup scratch[t] /\ p \in Owned
      /\ \A g \in held[t] : g.page # p
  BY DEF PinMiss, MayUse, Owned
<1>4. /\ Promised(a) /\ TypeOK /\ a.frame \in DOMAIN a.frames
      /\ held \in [Thread -> SUBSET Pointer] /\ p # Nowhere
  <2>1. Promised(a)
    BY AcquiredIsPromised
  <2>2. a.frame \in DOMAIN a.frames
    BY <2>1 DEF Promised
  <2>3. TypeOK /\ held \in [Thread -> SUBSET Pointer]
    BY DEF PoolInv, TypeOK
  <2>4. p # Nowhere
    BY DEF Page, Nowhere
  <2> QED
    BY <2>1, <2>2, <2>3, <2>4
<1>5. /\ content \in FrameType /\ content.pageId = p /\ content.pins = 1
      /\ ~content.dirty /\ ~content.logged
      /\ p \in a.inFile => content.current
  <2>1. (p \in a.inFile) \in BOOLEAN
    OBVIOUS
  <2>2. \A b \in BOOLEAN :
          LET c == [FreeFrame EXCEPT !.pageId = p, !.pins = 1, !.current = b] IN
          /\ c \in FrameType /\ c.pageId = p /\ c.pins = 1
          /\ ~c.dirty /\ ~c.logged /\ c.current = b
    BY DEF FreeFrame, FrameType
  <2>3. /\ content \in FrameType /\ content.pageId = p /\ content.pins = 1
        /\ ~content.dirty /\ ~content.logged
        /\ content.current = (p \in a.inFile)
    BY <2>1, <2>2, Zenon
  <2> QED
    BY <2>3
<1> HIDE DEF content
<1>6. p \in a.inFile
  BY <1>2, <1>3, <1>4 DEF Promised, PoolInv, Away
<1>7. Refilled(a, p, content)
  BY <1>2, <1>4, <1>5 DEF Refilled, Promised
<1>8. Owned' = Owned
  BY <1>2 DEF Owned
<1>9. /\ held'[t] = held[t] \cup {h}
      /\ \A u \in Thread \ {t} : held'[u] = held[u]
  BY <1>2, <1>4
<1>10. h \in Pointer /\ h.page = p /\ h.frame = a.frame
  BY <1>4 DEF Promised, Pointer
<1> HIDE DEF h
<1>11. /\ frames'[a.frame] = content /\ a.frame \in DOMAIN frames'
       /\ pageFrame'[p] = a.frame
  BY <1>7, RefilledTypes DEF Refilled
<1>12. TypeOK'
  <2>1. inFile' \subseteq Page
    BY <1>2, <1>4 DEF Promised
  <2>2. held' \in [Thread -> SUBSET Pointer]
    BY <1>2, <1>4, <1>10
  <2> QED
    BY <2>1, <2>2, <1>2, <1>7, RefilledTypes DEF PoolInv, TypeOK
<1>13. DirectoryAgrees'
  BY <1>7, RefilledAgrees
<1>14. Alone'
  BY <1>2, <1>3, <1>9 DEF PoolInv, Alone
<1>15. \A q \in Page \ {p} : Untouched(q)' => Untouched(q)
  BY <1>9 DEF Untouched
<1>16. /\ \A i \in DOMAIN frames' \ {a.frame} : IsFree(i)' => ~frames'[i].dirty
       /\ \A q \in Page \ {p} : pageFrame'[q] # Nowhere =>
            /\ pageFrame[q] # Nowhere
            /\ frames'[pageFrame'[q]].current
            /\ Untouched(q)' => /\ ~frames'[pageFrame'[q]].dirty => q \in inFile'
                                /\ frames'[pageFrame'[q]].logged => q \in inLog'
       /\ \A q \in Owned \ {p} : pageFrame'[q] = Nowhere => q \in inFile'
  BY <1>7, <1>15, RefilledCopies
<1>17. Separate'
  BY <1>2, <1>3, <1>8, <1>16 DEF PoolInv, Separate
<1>18. Pointers'
  <2>1. ASSUME NEW u \in Thread, NEW g \in held'[u]
        PROVE  /\ g.page \in tables' \cup scratch'[u]
               /\ pageFrame'[g.page] = g.frame
               /\ \A f \in held'[u] : f.page = g.page => f = g
    <3>1. \A f \in held'[u] : f \in held[u] \/ (u = t /\ f = h)
      BY <2>1, <1>9
    <3>2. CASE g \in held[u]
      <4>1. /\ g.page \in tables \cup scratch[u] /\ pageFrame[g.page] = g.frame
            /\ g.page \in Page /\ g.frame # Nowhere /\ g.frame # a.frame
            /\ \A f \in held[u] : f.page = g.page => f = g
        <5>1. /\ g.page \in tables \cup scratch[u] /\ pageFrame[g.page] = g.frame
              /\ \A f \in held[u] : f.page = g.page => f = g
          BY <3>2 DEF PoolInv, Pointers
        <5>2. g.page \in Page /\ g.frame \in Nat
          BY <3>2, PointedFrame DEF Pointer
        <5>3. g.frame # a.frame
          BY <3>2, <1>4 DEF Promised
        <5> QED
          BY <5>1, <5>2, <5>3 DEF Nowhere
      <4>2. g.page # p
        BY <4>1, <1>2
      <4>3. pageFrame'[g.page] = pageFrame[g.page]
        BY <4>1, <4>2, <1>7 DEF Refilled
      <4> QED
        BY <4>1, <4>2, <4>3, <3>1, <1>2, <1>10
    <3>3. CASE u = t /\ g = h
      BY <3>1, <3>3, <1>2, <1>3, <1>10, <1>11
    <3> QED
      BY <3>1, <3>2, <3>3
  <2>2. ASSUME NEW j \in DOMAIN frames' PROVE frames'[j].pins = Cardinality(Holders(j)')
    <3>1. Holders(a.frame) = {}
      BY <1>7, RefilledPins
    <3>2. CASE j = a.frame
      <4>1. Holders(j)' = Holders(j) \cup {t}
        <5>1. h \in held'[t] /\ h.frame = j
          BY <3>2, <1>9, <1>10
        <5>2. \A u \in Thread : u # t =>
                ((\E g \in held'[u] : g.frame = j) <=> (\E g \in held[u] : g.frame = j))
          BY <1>9
        <5> QED
          BY <5>1, <5>2 DEF Holders
      <4>2. Holders(j)' = {t}
        BY <4>1, <3>1, <3>2
      <4> QED
        BY <4>2, <3>2, <1>5, <1>11, FS_Singleton
    <3>3. CASE j # a.frame
      <4>1. Holders(j)' = Holders(j)
        BY <3>3, <1>9, <1>10 DEF Holders
      <4>2. frames'[j].pins = Cardinality(Holders(j))
        BY <3>3, <2>2, <1>7, RefilledPins
      <4> QED
        BY <4>1, <4>2
    <3> QED
      BY <3>2, <3>3
  <2> QED
    BY <2>1, <2>2 DEF Pointers
<1>19. Copies'
  <2>1. \A i \in DOMAIN frames' : IsFree(i)' => ~frames'[i].dirty
    BY <1>5, <1>11, <1>16
  <2>2. ASSUME NEW q \in Page, pageFrame'[q] # Nowhere
        PROVE  /\ frames'[pageFrame'[q]].current
               /\ Untouched(q)' => /\ ~frames'[pageFrame'[q]].dirty => q \in inFile'
                                   /\ frames'[pageFrame'[q]].logged => q \in inLog'
    <3>1. CASE q = p
      BY <3>1, <1>2, <1>5, <1>6, <1>11
    <3>2. CASE q # p
      BY <3>2, <2>2, <1>16
    <3> QED
      BY <3>1, <3>2
  <2> QED
    BY <2>1, <2>2 DEF Copies
<1>20. Away'
  <2>1. a.frame # Nowhere
    BY <1>4 DEF Promised, Nowhere
  <2> QED
    BY <2>1, <1>8, <1>11, <1>16 DEF Away
<1> QED
  BY <1>12, <1>13, <1>14, <1>17, <1>18, <1>19, <1>20 DEF PoolInv


\* An id that may be given out is nobody's.
LEMMA NextIdIsNew ==
    ASSUME PoolInv, NEW p \in NextIds
    PROVE  /\ p \in Page /\ p \notin Owned /\ pageFrame[p] = Nowhere
           /\ freeIds = {} => p = pageCount
           /\ freeIds # {} => p \in freeIds
<1>1. /\ freeIds = {} => p = pageCount /\ p \in Page
      /\ freeIds # {} => p \in freeIds
  BY DEF NextIds
<1>2. freeIds \subseteq Page /\ pageCount \in Nat
  BY PoolAssumption DEF PoolInv, TypeOK
<1>3. p \in Page
  BY <1>1, <1>2
<1>4. p \notin Owned
  BY <1>1, <1>2 DEF PoolInv, Separate
<1> QED
  BY <1>1, <1>3, <1>4 DEF PoolInv, Separate

LEMMA AllocateKeeps ==
    ASSUME PoolInv, NEW t \in Thread, NEW p \in Page, Allocate(t, p)
    PROVE  PoolInv'
<1> DEFINE content == [FreeFrame EXCEPT !.pageId = p, !.dirty = TRUE,
                                        !.referenced = TRUE, !.current = TRUE]
<1>1. PICK a \in Acquired :
        /\ Place(a, p, content)
        /\ inFile' = a.inFile \ {p}
        /\ inLog' = inLog \ {p}
  BY DEF Allocate
<1>2. /\ mode[t] # "idle" /\ p \in NextIds /\ UNCHANGED <<mode, held>>
      /\ freeIds' = freeIds \ {p}
      /\ pageCount' = IF freeIds = {} THEN pageCount + 1 ELSE pageCount
  BY DEF Allocate, TakeId
<1>3. \/ tables' = tables \cup {p} /\ UNCHANGED scratch
      \/ scratch' = [scratch EXCEPT ![t] = @ \cup {p}] /\ UNCHANGED tables
  BY DEF Allocate
<1>4. /\ frames' = [a.frames EXCEPT ![a.frame] = content]
      /\ pageFrame' = [a.pageFrame EXCEPT ![p] = a.frame]
      /\ hand' = a.hand
  BY <1>1 DEF Place
<1>5. /\ p \notin Owned /\ pageFrame[p] = Nowhere
      /\ freeIds = {} => p = pageCount
      /\ freeIds # {} => p \in freeIds
  BY <1>2, NextIdIsNew
<1>6. /\ content \in FrameType /\ content.pageId = p /\ content.pins = 0
      /\ content.dirty /\ ~content.logged /\ content.current
  BY DEF FreeFrame, FrameType
<1> HIDE DEF content
<1>7. Promised(a)
  BY AcquiredIsPromised
<1>8. Refilled(a, p, content)
  BY <1>1, <1>4, <1>5, <1>6, <1>7 DEF Refilled, Promised
<1>9. /\ frames'[a.frame] = content /\ a.frame \in DOMAIN frames'
      /\ pageFrame'[p] = a.frame
  BY <1>8, RefilledTypes DEF Refilled
<1>10. /\ scratch \in [Thread -> SUBSET Page] /\ tables \subseteq Page
       /\ freeIds \subseteq Page /\ pageCount \in 0 .. MaxPages /\ MaxPages \in Nat
       /\ inLog \subseteq Page
  BY PoolAssumption DEF PoolInv, TypeOK
<1>11. /\ tables \subseteq tables' /\ tables' \subseteq tables \cup {p}
       /\ scratch' \in [Thread -> SUBSET Page]
       /\ \A u \in Thread : /\ scratch[u] \subseteq scratch'[u]
                            /\ scratch'[u] \subseteq scratch[u] \cup {p}
                            /\ p \in scratch'[u] => u = t /\ p \notin tables'
  <2>1. p \notin tables /\ \A u \in Thread : p \notin scratch[u]
    BY <1>5 DEF Owned
  <2>2. CASE tables' = tables \cup {p} /\ UNCHANGED scratch
    BY <2>1, <2>2, <1>10
  <2>3. CASE scratch' = [scratch EXCEPT ![t] = @ \cup {p}] /\ UNCHANGED tables
    BY <2>1, <2>3, <1>10
  <2> QED
    BY <1>3, <2>2, <2>3
<1>12. Owned' = Owned \cup {p}
  <2>1. p \in Owned'
    <3>1. p \in tables' \/ p \in scratch'[t]
      BY <1>3, <1>10
    <3> QED
      BY <3>1 DEF Owned
  <2>2. \A q : q \in Owned => q \in Owned'
    BY <1>11 DEF Owned
  <2>3. \A q : q \in Owned' => q \in Owned \/ q = p
    BY <1>11 DEF Owned
  <2> QED
    BY <2>1, <2>2, <2>3
<1>13. pageCount' \in 0 .. MaxPages /\ pageCount <= pageCount' /\ p < pageCount'
  <2>1. CASE freeIds = {}
    BY <2>1, <1>2, <1>5, <1>10 DEF Page
  <2>2. CASE freeIds # {}
    BY <2>2, <1>2, <1>5, <1>10 DEF PoolInv, Separate
  <2> QED
    BY <2>1, <2>2
<1>14. TypeOK'
  <2>1. inFile' \subseteq Page
    BY <1>1, <1>7 DEF Promised
  <2>2. /\ tables' \subseteq Page /\ freeIds' \subseteq Page /\ inLog' \subseteq Page
    BY <1>1, <1>2, <1>10, <1>11
  <2> QED
    BY <2>1, <2>2, <1>2, <1>8, <1>11, <1>13, RefilledTypes DEF PoolInv, TypeOK
<1>15. DirectoryAgrees'
  BY <1>8, RefilledAgrees
<1>16. Alone'
  BY <1>2 DEF PoolInv, Alone
<1>17. \A q \in Page \ {p} : Untouched(q)' => Untouched(q)
  BY <1>2 DEF Untouched
<1>18. /\ \A i \in DOMAIN frames' \ {a.frame} : IsFree(i)' => ~frames'[i].dirty
       /\ \A q \in Page \ {p} : pageFrame'[q] # Nowhere =>
            /\ pageFrame[q] # Nowhere
            /\ frames'[pageFrame'[q]].current
            /\ Untouched(q)' => /\ ~frames'[pageFrame'[q]].dirty => q \in inFile'
                                /\ frames'[pageFrame'[q]].logged => q \in inLog'
       /\ \A q \in Owned \ {p} : pageFrame'[q] = Nowhere => q \in inFile'
  BY <1>8, <1>17, RefilledCopies
<1>19. Separate'
  <2>1. ASSUME NEW u \in Thread, NEW q \in scratch'[u]
        PROVE  /\ q \notin tables'
               /\ \A v \in Thread : q \in scratch'[v] => v = u
    <3>1. CASE q = p
      BY <2>1, <3>1, <1>11
    <3>2. CASE q # p
      <4>1. q \in scratch[u] /\ \A v \in Thread : q \in scratch'[v] => q \in scratch[v]
        BY <2>1, <3>2, <1>11
      <4>2. q \notin tables /\ \A v \in Thread : q \in scratch[v] => v = u
        BY <4>1 DEF PoolInv, Separate
      <4> QED
        BY <4>1, <4>2, <3>2, <1>11
    <3> QED
      BY <3>1, <3>2
  <2>2. \A q \in Owned : q \in Page /\ q < pageCount /\ q \notin freeIds
    BY <1>10 DEF PoolInv, Separate, Owned
  <2>3. \A q \in Owned' : q < pageCount' /\ q \notin freeIds'
    BY <2>2, <1>2, <1>10, <1>12, <1>13 DEF Page
  <2>4. \A q \in freeIds' : q < pageCount'
    <3> TAKE q \in freeIds'
    <3>1. q \in freeIds /\ q \in Int
      BY <1>2, <1>10 DEF Page
    <3>2. q < pageCount
      BY <3>1 DEF PoolInv, Separate
    <3> QED
      BY <3>1, <3>2, <1>10, <1>13
  <2>5. \A q \in Page : pageFrame'[q] # Nowhere => q \in Owned'
    BY <1>12, <1>18 DEF PoolInv, Separate
  <2> QED
    BY <2>1, <2>3, <2>4, <2>5 DEF Separate
<1>20. Pointers'
  <2>1. ASSUME NEW u \in Thread, NEW g \in held'[u]
        PROVE  /\ g.page \in tables' \cup scratch'[u]
               /\ pageFrame'[g.page] = g.frame
               /\ \A f \in held'[u] : f.page = g.page => f = g
    <3>1. g \in held[u] /\ g.page \in Page /\ g.frame \in Nat
      BY <2>1, <1>2, PointedFrame DEF Pointer
    <3>2. /\ g.page \in tables \cup scratch[u] /\ pageFrame[g.page] = g.frame
          /\ \A f \in held[u] : f.page = g.page => f = g
      BY <3>1 DEF PoolInv, Pointers
    <3>3. g.frame # a.frame
      BY <3>1, <1>7 DEF Promised
    <3>4. g.page # p
      BY <3>1, <3>2, <1>5 DEF Nowhere
    <3>5. pageFrame'[g.page] = pageFrame[g.page]
      BY <3>1, <3>2, <3>3, <3>4, <1>8 DEF Refilled
    <3> QED
      BY <3>2, <3>5, <1>2, <1>11
  <2>2. \A i : Holders(i)' = Holders(i)
    BY <1>2 DEF Holders
  <2>3. \A i \in DOMAIN frames' : frames'[i].pins = Cardinality(Holders(i)')
    BY <2>2, <1>6, <1>8, <1>9, RefilledPins, FS_EmptySet
  <2> QED
    BY <2>1, <2>3 DEF Pointers
<1>21. Copies'
  <2>1. \A i \in DOMAIN frames' : IsFree(i)' => ~frames'[i].dirty
    <3>1. ~IsFree(a.frame)'
      BY <1>6, <1>9 DEF IsFree, Page, Nowhere
    <3> QED
      BY <3>1, <1>18
  <2>2. ASSUME NEW q \in Page, pageFrame'[q] # Nowhere
        PROVE  /\ frames'[pageFrame'[q]].current
               /\ Untouched(q)' => /\ ~frames'[pageFrame'[q]].dirty => q \in inFile'
                                   /\ frames'[pageFrame'[q]].logged => q \in inLog'
    <3>1. CASE q = p
      BY <3>1, <1>6, <1>9
    <3>2. CASE q # p
      BY <3>2, <2>2, <1>18
    <3> QED
      BY <3>1, <3>2
  <2> QED
    BY <2>1, <2>2 DEF Copies
<1>22. Away'
  <2>1. a.frame # Nowhere
    BY <1>7 DEF Promised, Nowhere
  <2> QED
    BY <2>1, <1>9, <1>12, <1>18 DEF Away
<1> QED
  BY <1>14, <1>15, <1>16, <1>19, <1>20, <1>21, <1>22 DEF PoolInv


\* Nobody uses the page that is freed: not its thread, and no other may.
LEMMA FreeKeeps ==
    ASSUME PoolInv, NEW t \in Thread, NEW p \in Page, Free(t, p)
    PROVE  PoolInv'
<1> DEFINE i == pageFrame[p]
<1>1. /\ TypeOK /\ FrameCount \in Nat /\ DOMAIN frames = 0 .. FrameCount - 1
      /\ \A j \in DOMAIN frames : frames[j] \in FrameType
      /\ pageFrame \in [Page -> DOMAIN frames \cup {Nowhere}]
      /\ scratch \in [Thread -> SUBSET Page] /\ tables \subseteq Page
      /\ frames \in [DOMAIN frames -> FrameType]
  BY FrameFacts DEF PoolInv, TypeOK
<1>2. /\ (mode[t] = "write" /\ p \in tables) \/ (mode[t] # "idle" /\ p \in scratch[t])
      /\ \A g \in held[t] : g.page # p
      /\ frames' = IF i = Nowhere THEN frames ELSE [frames EXCEPT ![i] = FreeFrame]
      /\ pageFrame' = [pageFrame EXCEPT ![p] = Nowhere]
      /\ freeIds' \in {freeIds, freeIds \cup {p}}
      /\ tables' = tables \ {p} /\ scratch' = [scratch EXCEPT ![t] = @ \ {p}]
      /\ UNCHANGED <<hand, inFile, inLog, pageCount, mode, held>>
  BY DEF Free, fileVars
<1>3. ASSUME NEW u \in Thread, NEW g \in held[u]
      PROVE  g.page # p
  <2> SUFFICES ASSUME g.page = p, u # t PROVE FALSE
    BY <1>2
  <2>1. p \in tables \cup scratch[u]
    BY DEF PoolInv, Pointers
  <2>2. CASE mode[t] = "write"
    BY <2>2 DEF PoolInv, Alone
  <2>3. CASE p \in scratch[t]
    BY <2>1, <2>3 DEF PoolInv, Separate
  <2> QED
    BY <1>2, <2>2, <2>3
<1>4. p \in Owned /\ Owned' = Owned \ {p}
  <2>1. CASE p \in tables
    <3>1. \A u \in Thread : p \notin scratch[u]
      BY <2>1 DEF PoolInv, Separate
    <3>2. \A q : q \in Owned' <=> q \in Owned /\ q # p
      BY <3>1, <1>1, <1>2 DEF Owned
    <3> QED
      BY <3>2, <2>1 DEF Owned
  <2>2. CASE p \in scratch[t]
    <3>1. p \notin tables /\ \A u \in Thread : p \in scratch[u] => u = t
      BY <2>2 DEF PoolInv, Separate
    <3>2. /\ scratch'[t] = scratch[t] \ {p}
          /\ \A u \in Thread : u # t => scratch'[u] = scratch[u]
      BY <1>1, <1>2
    <3>3. \A u \in Thread : \A q : q \in scratch'[u] <=> q \in scratch[u] /\ q # p
      BY <3>1, <3>2
    <3>4. \A q : q \in Owned' <=> q \in Owned /\ q # p
      BY <3>3, <1>2 DEF Owned
    <3> QED
      BY <3>4, <2>2 DEF Owned
  <2> QED
    BY <1>2, <2>1, <2>2
<1>5. /\ DOMAIN frames' = DOMAIN frames
      /\ i \in DOMAIN frames => frames'[i] = FreeFrame
      /\ \A j \in DOMAIN frames : j # i => frames'[j] = frames[j]
      /\ frames' \in [DOMAIN frames -> FrameType]
  <2>1. FreeFrame \in FrameType
    BY DEF FreeFrame, FrameType
  <2>2. i \in DOMAIN frames => i # Nowhere
    BY <1>1 DEF Nowhere
  <2>3. i \in DOMAIN frames \/ i = Nowhere
    BY <1>1
  <2> HIDE DEF i
  <2> QED
    BY <2>1, <2>2, <2>3, <1>1, <1>2
<1>6. /\ pageFrame'[p] = Nowhere
      /\ \A q \in Page : q # p => pageFrame'[q] = pageFrame[q]
      /\ pageFrame' \in [Page -> DOMAIN frames \cup {Nowhere}]
  BY <1>1, <1>2
<1>7. TypeOK'
  <2>1. FrameCount' = FrameCount
    BY <1>5 DEF FrameCount
  <2>2. scratch' \in [Thread -> SUBSET Page] /\ tables' \subseteq Page
    BY <1>1, <1>2
  <2>3. freeIds' \subseteq Page
    BY <1>1, <1>2 DEF TypeOK
  <2> QED
    BY <2>1, <2>2, <2>3, <1>1, <1>2, <1>5, <1>6 DEF TypeOK
<1>8. DirectoryAgrees'
  <2> SUFFICES ASSUME NEW j \in DOMAIN frames', NEW q \in Page
               PROVE  frames'[j].pageId = q <=> pageFrame'[q] = j
    BY DEF DirectoryAgrees
  <2>1. /\ j \in DOMAIN frames /\ j # Nowhere /\ q # Nowhere
        /\ frames[j].pageId = q <=> pageFrame[q] = j
    BY <1>1, <1>5 DEF PoolInv, DirectoryAgrees, Page, Nowhere
  <2>2. CASE j = i
    <3>1. frames'[j].pageId = Nowhere
      BY <2>1, <2>2, <1>5 DEF FreeFrame
    <3>2. pageFrame[q] = j => q = p
      BY <2>1, <2>2 DEF PoolInv, DirectoryAgrees
    <3> QED
      BY <3>1, <3>2, <2>1, <1>6
  <2>3. CASE j # i
    BY <2>1, <2>3, <1>5, <1>6
  <2> QED
    BY <2>2, <2>3
<1>9. Alone'
  BY <1>2 DEF PoolInv, Alone
<1>10. Separate'
  <2>1. \A u \in Thread : scratch'[u] \subseteq scratch[u]
    BY <1>1, <1>2
  <2>2. \A u \in Thread : \A q \in scratch'[u] :
          /\ q \notin tables'
          /\ \A v \in Thread : q \in scratch'[v] => v = u
    BY <2>1, <1>2 DEF PoolInv, Separate
  <2>3. \A q \in Owned' : q < pageCount' /\ q \notin freeIds'
    BY <1>2, <1>4 DEF PoolInv, Separate
  <2>4. \A q \in freeIds' : q < pageCount'
    BY <1>2, <1>4 DEF PoolInv, Separate
  <2>5. \A q \in Page : pageFrame'[q] # Nowhere => q \in Owned'
    BY <1>4, <1>6 DEF PoolInv, Separate
  <2> QED
    BY <2>2, <2>3, <2>4, <2>5 DEF Separate
<1>11. Pointers'
  <2>1. ASSUME NEW u \in Thread, NEW g \in held'[u]
        PROVE  /\ g.page \in tables' \cup scratch'[u]
               /\ pageFrame'[g.page] = g.frame
               /\ \A f \in held'[u] : f.page = g.page => f = g
    <3>1. g \in held[u] /\ g.page \in Page /\ g.page # p
      BY <2>1, <1>2, <1>3, PointedFrame DEF Pointer
    <3>2. /\ g.page \in tables \cup scratch[u] /\ pageFrame[g.page] = g.frame
          /\ \A f \in held[u] : f.page = g.page => f = g
      BY <3>1 DEF PoolInv, Pointers
    <3>3. g.page \in tables' \cup scratch'[u]
      BY <3>1, <3>2, <1>1, <1>2
    <3> QED
      BY <3>1, <3>2, <3>3, <1>2, <1>6
  <2>2. ASSUME NEW j \in DOMAIN frames' PROVE frames'[j].pins = Cardinality(Holders(j)')
    <3>1. Holders(j)' = Holders(j)
      BY <1>2 DEF Holders
    <3>2. CASE j = i
      <4>1. frames[i].pageId = p
        BY <2>2, <3>2, <1>5 DEF PoolInv, DirectoryAgrees
      <4>2. Holders(j) = {}
        BY <4>1, <3>2, <1>3, PointedFrame DEF Holders
      <4> QED
        BY <4>2, <3>1, <3>2, <2>2, <1>5, FS_EmptySet DEF FreeFrame
    <3>3. CASE j # i
      BY <3>1, <3>3, <2>2, <1>5 DEF PoolInv, Pointers
    <3> QED
      BY <3>2, <3>3
  <2> QED
    BY <2>1, <2>2 DEF Pointers
<1>12. Copies'
  <2>1. \A j \in DOMAIN frames' : IsFree(j)' => ~frames'[j].dirty
    <3> TAKE j \in DOMAIN frames'
    <3>1. CASE j = i
      BY <3>1, <1>5 DEF FreeFrame
    <3>2. CASE j # i
      BY <3>2, <1>5 DEF PoolInv, Copies, IsFree
    <3> QED
      BY <3>1, <3>2
  <2>2. ASSUME NEW q \in Page, pageFrame'[q] # Nowhere
        PROVE  /\ frames'[pageFrame'[q]].current
               /\ Untouched(q)' => /\ ~frames'[pageFrame'[q]].dirty => q \in inFile'
                                   /\ frames'[pageFrame'[q]].logged => q \in inLog'
    <3>1. q # p /\ pageFrame'[q] = pageFrame[q] /\ pageFrame[q] # Nowhere
      BY <2>2, <1>6
    <3>2. pageFrame[q] \in DOMAIN frames
      BY <3>1, <1>1
    <3>3. pageFrame[q] # i
      BY <3>1, <3>2 DEF PoolInv, DirectoryAgrees
    <3>4. frames'[pageFrame[q]] = frames[pageFrame[q]]
      BY <3>2, <3>3, <1>5
    <3>5. Untouched(q)' => Untouched(q)
      BY <1>2 DEF Untouched
    <3> QED
      BY <3>1, <3>4, <3>5, <1>2 DEF PoolInv, Copies
  <2> QED
    BY <2>1, <2>2 DEF Copies
<1>13. Away'
  <2>1. Owned \subseteq Page
    BY <1>1 DEF Owned
  <2> QED
    BY <2>1, <1>2, <1>4, <1>6 DEF PoolInv, Away
<1> QED
  BY <1>7, <1>8, <1>9, <1>10, <1>11, <1>12, <1>13 DEF PoolInv


\* The frame a thread writes into still holds the page it means.
LEMMA WriteThroughKeeps ==
    ASSUME PoolInv, NEW t \in Thread, NEW h \in held[t], WriteThrough(t, h)
    PROVE  PoolInv'
<1> DEFINE p == h.page
           g == [h EXCEPT !.wrote = TRUE]
<1>1. /\ TypeOK /\ FrameCount \in Nat /\ DOMAIN frames = 0 .. FrameCount - 1
      /\ \A j \in DOMAIN frames : frames[j] \in FrameType
      /\ held \in [Thread -> SUBSET Pointer]
      /\ pageFrame \in [Page -> DOMAIN frames \cup {Nowhere}]
  BY FrameFacts DEF PoolInv, TypeOK
<1>2. /\ h \in Pointer /\ p \in Page /\ h.frame \in DOMAIN frames
      /\ pageFrame[p] = h.frame /\ frames[h.frame].pageId = p
  BY PointedFrame DEF Pointer
<1>3. g \in Pointer /\ g.page = p /\ g.frame = h.frame /\ g.wrote
  BY <1>2 DEF Pointer
<1>4. /\ frames' = [i \in DOMAIN frames |->
                      IF i = h.frame THEN [frames[i] EXCEPT !.current =
                                             frames[i].pageId = h.page]
                      ELSE IF frames[i].pageId = h.page
                         THEN [frames[i] EXCEPT !.current = FALSE]
                      ELSE frames[i]]
      /\ inFile' = inFile \ {p} /\ inLog' = inLog \ {p}
      /\ held' = [held EXCEPT ![t] = (@ \ {h}) \cup {g}]
      /\ UNCHANGED <<pageFrame, hand, pageCount, freeIds, mode, tables, scratch>>
  BY DEF WriteThrough, idVars, ownerVars
<1> HIDE DEF g
<1>5. \A i \in DOMAIN frames : frames[i].pageId = p <=> i = h.frame
  BY <1>2 DEF PoolInv, DirectoryAgrees
<1>6. /\ DOMAIN frames' = DOMAIN frames
      /\ \A i \in DOMAIN frames : i # h.frame => frames'[i] = frames[i]
      /\ frames'[h.frame] = [frames[h.frame] EXCEPT !.current = TRUE]
  <2>1. (frames[h.frame].pageId = h.page) = TRUE
    BY <1>2
  <2>2. frames'[h.frame] = [frames[h.frame] EXCEPT !.current =
                              frames[h.frame].pageId = h.page]
    BY <1>2, <1>4
  <2>3. frames'[h.frame] = [frames[h.frame] EXCEPT !.current = TRUE]
    BY <2>1, <2>2, Zenon
  <2> QED
    BY <2>3, <1>4, <1>5
<1>7. \A i \in DOMAIN frames :
        /\ frames'[i] \in FrameType
        /\ frames'[i].pageId = frames[i].pageId
        /\ frames'[i].pins = frames[i].pins
        /\ frames'[i].dirty = frames[i].dirty
        /\ frames'[i].logged = frames[i].logged
        /\ frames[i].current => frames'[i].current
  <2> TAKE i \in DOMAIN frames
  <2>1. frames[i] \in FrameType
    BY <1>1
  <2>2. CASE i = h.frame
    BY <2>1, <2>2, <1>6 DEF FrameType
  <2>3. CASE i # h.frame
    BY <2>1, <2>3, <1>6
  <2> QED
    BY <2>2, <2>3
<1>8. /\ held'[t] = (held[t] \ {h}) \cup {g}
      /\ \A u \in Thread : u # t => held'[u] = held[u]
  BY <1>1, <1>4
<1>9. TypeOK'
  <2>1. FrameCount' = FrameCount
    BY <1>6 DEF FrameCount
  <2>2. held' \in [Thread -> SUBSET Pointer]
    BY <1>1, <1>3, <1>4
  <2>3. frames' \in [DOMAIN frames -> FrameType]
    <3>1. frames' = [i \in DOMAIN frames |-> frames'[i]]
      BY <1>4
    <3> QED
      BY <3>1, <1>7
  <2>4. inFile' \subseteq Page /\ inLog' \subseteq Page
    BY <1>1, <1>4 DEF TypeOK
  <2> QED
    BY <2>1, <2>2, <2>3, <2>4, <1>1, <1>4, <1>6 DEF TypeOK
<1>10. DirectoryAgrees'
  BY <1>4, <1>6, <1>7 DEF PoolInv, DirectoryAgrees
<1>11. Alone'
  <2>1. mode[t] # "idle"
    BY DEF PoolInv, Alone
  <2> QED
    BY <2>1, <1>4, <1>8 DEF PoolInv, Alone
<1>12. Owned' = Owned
  BY <1>4 DEF Owned
<1>13. Separate'
  BY <1>4, <1>12 DEF PoolInv, Separate
<1>14. Pointers'
  <2>1. ASSUME NEW u \in Thread, NEW f \in held'[u]
        PROVE  /\ f.page \in tables' \cup scratch'[u]
               /\ pageFrame'[f.page] = f.frame
               /\ \A k \in held'[u] : k.page = f.page => k = f
    <3>1. /\ h.page \in tables \cup scratch[t] /\ pageFrame[h.page] = h.frame
          /\ \A k \in held[t] : k.page = h.page => k = h
      BY DEF PoolInv, Pointers
    <3>2. \A k \in held'[u] : (k \in held[u] /\ (u = t => k # h)) \/ (u = t /\ k = g)
      BY <1>8
    <3>3. CASE f \in held[u] /\ (u = t => f # h)
      <4>1. /\ f.page \in tables \cup scratch[u] /\ pageFrame[f.page] = f.frame
            /\ \A k \in held[u] : k.page = f.page => k = f
        BY <3>3 DEF PoolInv, Pointers
      <4>2. u = t => f.page # h.page
        BY <3>1, <3>3
      <4> QED
        BY <4>1, <4>2, <3>2, <1>3, <1>4
    <3>4. CASE u = t /\ f = g
      BY <3>1, <3>2, <3>4, <1>3, <1>4
    <3> QED
      BY <3>2, <3>3, <3>4
  <2>2. ASSUME NEW j \in DOMAIN frames' PROVE frames'[j].pins = Cardinality(Holders(j)')
    <3>1. \A u \in Thread :
            (\E f \in held'[u] : f.frame = j) <=> (\E f \in held[u] : f.frame = j)
      <4> TAKE u \in Thread
      <4>1. CASE u = t
        <5>1. ASSUME NEW f \in held'[t], f.frame = j PROVE \E k \in held[t] : k.frame = j
          BY <5>1, <1>3, <1>8
        <5>2. ASSUME NEW f \in held[t], f.frame = j PROVE \E k \in held'[t] : k.frame = j
          <6>1. CASE f = h
            BY <5>2, <6>1, <1>3, <1>8
          <6>2. CASE f # h
            BY <5>2, <6>2, <1>8
          <6> QED
            BY <6>1, <6>2
        <5> QED
          BY <4>1, <5>1, <5>2
      <4>2. CASE u # t
        BY <4>2, <1>8
      <4> QED
        BY <4>1, <4>2
    <3>2. Holders(j)' = Holders(j)
      BY <3>1 DEF Holders
    <3> QED
      BY <3>2, <2>2, <1>6, <1>7 DEF PoolInv, Pointers
  <2> QED
    BY <2>1, <2>2 DEF Pointers
<1>15. Copies'
  <2>1. \A i \in DOMAIN frames' : IsFree(i)' => ~frames'[i].dirty
    BY <1>6, <1>7 DEF PoolInv, Copies, IsFree
  <2>2. ASSUME NEW q \in Page, pageFrame'[q] # Nowhere
        PROVE  /\ frames'[pageFrame'[q]].current
               /\ Untouched(q)' => /\ ~frames'[pageFrame'[q]].dirty => q \in inFile'
                                   /\ frames'[pageFrame'[q]].logged => q \in inLog'
    <3>1. pageFrame'[q] = pageFrame[q] /\ pageFrame[q] \in DOMAIN frames
      BY <2>2, <1>1, <1>4
    <3>2. frames'[pageFrame'[q]].current
      BY <3>1, <2>2, <1>4, <1>7 DEF PoolInv, Copies
    <3>3. CASE q = p
      <4>1. ~Untouched(q)'
        BY <3>3, <1>3, <1>8 DEF Untouched
      <4> QED
        BY <3>2, <4>1
    <3>4. CASE q # p
      <4>1. Untouched(q)' => Untouched(q)
        <5> SUFFICES ASSUME Untouched(q)', NEW u \in Thread, NEW f \in held[u], f.page = q
                     PROVE  ~f.wrote
          BY DEF Untouched
        <5>1. f \in held'[u]
          BY <3>4, <1>8
        <5> QED
          BY <5>1 DEF Untouched
      <4> QED
        BY <3>1, <3>2, <3>4, <4>1, <2>2, <1>4, <1>7 DEF PoolInv, Copies
    <3> QED
      BY <3>3, <3>4
  <2> QED
    BY <2>1, <2>2 DEF Copies
<1>16. Away'
  <2>1. \A q \in Owned : pageFrame[q] = Nowhere => q # p
    BY <1>1, <1>2 DEF Nowhere
  <2> QED
    BY <2>1, <1>4, <1>12 DEF PoolInv, Away
<1> QED
  BY <1>9, <1>10, <1>11, <1>13, <1>14, <1>15, <1>16 DEF PoolInv

\* "The frame is found by its page": it is the one the pointer is to.
LEMMA UnpinKeeps ==
    ASSUME PoolInv, NEW t \in Thread, NEW h \in held[t], Unpin(t, h)
    PROVE  PoolInv'
<1> DEFINE p == h.page
           i == h.frame
<1>1. /\ TypeOK /\ FrameCount \in Nat /\ DOMAIN frames = 0 .. FrameCount - 1
      /\ \A j \in DOMAIN frames : frames[j] \in FrameType
      /\ held \in [Thread -> SUBSET Pointer]
      /\ pageFrame \in [Page -> DOMAIN frames \cup {Nowhere}]
  BY FrameFacts DEF PoolInv, TypeOK
<1>2. /\ h \in Pointer /\ p \in Page /\ i \in DOMAIN frames
      /\ pageFrame[p] = i /\ i # Nowhere /\ h.wrote \in BOOLEAN
      /\ frames[i].pageId = p /\ frames[i].pins # 0
  BY PointedFrame DEF Pointer, Nowhere
<1>3. frames[i] \in FrameType
  BY <1>1, <1>2
<1>4. /\ held' = [held EXCEPT ![t] = @ \ {h}]
      /\ UNCHANGED <<pageFrame, hand, inFile, inLog, pageCount, freeIds, mode,
                     tables, scratch>>
  BY DEF Unpin, fileVars, idVars, ownerVars
<1>5. /\ DOMAIN frames' = DOMAIN frames
      /\ frames' \in [DOMAIN frames -> FrameType]
      /\ \A j \in DOMAIN frames : j # i => frames'[j] = frames[j]
      /\ frames'[i].pageId = p
      /\ frames'[i].pins = frames[i].pins - 1
      /\ frames'[i].dirty <=> frames[i].dirty \/ h.wrote
      /\ frames'[i].logged <=> frames[i].logged /\ ~h.wrote
      /\ frames'[i].current = frames[i].current
  <2> DEFINE pins == IF frames[i].pins > 0 THEN frames[i].pins - 1 ELSE 0
             dirty == frames[i].dirty \/ h.wrote
             logged == frames[i].logged /\ ~h.wrote
             f == [frames[i] EXCEPT !.pins = pins, !.dirty = dirty, !.logged = logged]
  <2>1. frames' = [frames EXCEPT ![i].pins = IF @ > 0 THEN @ - 1 ELSE 0,
                                 ![i].dirty = @ \/ h.wrote,
                                 ![i].logged = @ /\ ~h.wrote]
    BY <1>2 DEF Unpin
  <2>2. frames' = [frames EXCEPT ![i] = f]
    BY <2>1, <1>1, <1>2 DEF TypeOK
  <2>3. frames[i].pins \in Nat /\ pins = frames[i].pins - 1 /\ pins \in Nat
    BY <1>2, <1>3 DEF FrameType
  <2>4. dirty \in BOOLEAN /\ logged \in BOOLEAN
    OBVIOUS
  <2> HIDE DEF pins, dirty, logged
  <2>5. /\ f \in FrameType /\ f.pageId = frames[i].pageId /\ f.pins = pins
        /\ f.dirty = dirty /\ f.logged = logged /\ f.current = frames[i].current
    <3>1. f \in FrameType
      BY <2>3, <2>4, <1>3, FrameUpdates
    <3>2. /\ f.pageId = frames[i].pageId /\ f.pins = pins
          /\ f.dirty = dirty /\ f.logged = logged /\ f.current = frames[i].current
      BY <1>3 DEF FrameType
    <3> QED
      BY <3>1, <3>2
  <2> HIDE DEF f
  <2>6. /\ DOMAIN frames' = DOMAIN frames
        /\ frames' \in [DOMAIN frames -> FrameType]
        /\ \A j \in DOMAIN frames : j # i => frames'[j] = frames[j]
        /\ frames'[i] = f
    BY <2>2, <2>5, <1>1, <1>2 DEF TypeOK
  <2>7. frames'[i].dirty <=> frames[i].dirty \/ h.wrote
    <3>1. frames'[i].dirty = dirty
      BY <2>5, <2>6
    <3> QED
      BY <3>1 DEF dirty
  <2>8. frames'[i].logged <=> frames[i].logged /\ ~h.wrote
    <3>1. frames'[i].logged = logged
      BY <2>5, <2>6
    <3> QED
      BY <3>1 DEF logged
  <2> QED
    BY <2>3, <2>5, <2>6, <2>7, <2>8, <1>2
<1>6. /\ held'[t] = held[t] \ {h}
      /\ \A u \in Thread : u # t => held'[u] = held[u]
  BY <1>1, <1>4
<1>7. \A u \in Thread : held'[u] \subseteq held[u]
  BY <1>6
<1>8. TypeOK'
  <2>1. FrameCount' = FrameCount
    BY <1>5 DEF FrameCount
  <2>2. held' \in [Thread -> SUBSET Pointer]
    BY <1>1, <1>4
  <2> QED
    BY <2>1, <2>2, <1>1, <1>4, <1>5 DEF TypeOK
<1>9. DirectoryAgrees'
  BY <1>2, <1>4, <1>5 DEF PoolInv, DirectoryAgrees
<1>10. Alone'
  BY <1>4, <1>7 DEF PoolInv, Alone
<1>11. Owned' = Owned
  BY <1>4 DEF Owned
<1>12. Separate'
  BY <1>4, <1>11 DEF PoolInv, Separate
<1>13. Pointers'
  <2>1. ASSUME NEW u \in Thread, NEW f \in held'[u]
        PROVE  /\ f.page \in tables' \cup scratch'[u]
               /\ pageFrame'[f.page] = f.frame
               /\ \A k \in held'[u] : k.page = f.page => k = f
    BY <2>1, <1>4, <1>7 DEF PoolInv, Pointers
  <2>2. ASSUME NEW j \in DOMAIN frames' PROVE frames'[j].pins = Cardinality(Holders(j)')
    <3>1. \A f \in held[t] : f.frame = i => f = h
      <4> SUFFICES ASSUME NEW f \in held[t], f.frame = i PROVE f = h
        OBVIOUS
      <4>1. frames[i].pageId = f.page
        BY PointedFrame
      <4>2. \A k \in held[t] : k.page = h.page => k = h
        BY DEF PoolInv, Pointers
      <4> QED
        BY <4>1, <4>2, <1>2
    <3>2. frames[j].pins = Cardinality(Holders(j)) /\ Holders(j) \in SUBSET Thread
      BY <2>2, <1>5 DEF PoolInv, Pointers, Holders
    <3>3. CASE j = i
      <4>1. t \in Holders(j) /\ Holders(j)' = Holders(j) \ {t}
        BY <3>1, <3>3, <1>6 DEF Holders
      <4>2. Cardinality(Holders(j) \ {t}) = Cardinality(Holders(j)) - 1
        BY <3>2, <4>1, HolderCounts
      <4> QED
        BY <4>1, <4>2, <3>2, <3>3, <1>5
    <3>4. CASE j # i
      <4>1. \A u \in Thread :
              (\E f \in held'[u] : f.frame = j) <=> (\E f \in held[u] : f.frame = j)
        BY <3>4, <1>6
      <4>2. Holders(j)' = Holders(j)
        BY <4>1 DEF Holders
      <4> QED
        BY <4>2, <3>2, <3>4, <2>2, <1>5
    <3> QED
      BY <3>3, <3>4
  <2> QED
    BY <2>1, <2>2 DEF Pointers
<1>14. Copies'
  <2>1. \A j \in DOMAIN frames' : IsFree(j)' => ~frames'[j].dirty
    <3> TAKE j \in DOMAIN frames'
    <3>1. CASE j = i
      BY <3>1, <1>2, <1>5 DEF IsFree, Page, Nowhere
    <3>2. CASE j # i
      BY <3>2, <1>5 DEF PoolInv, Copies, IsFree
    <3> QED
      BY <3>1, <3>2
  <2>2. ASSUME NEW q \in Page, pageFrame'[q] # Nowhere
        PROVE  /\ frames'[pageFrame'[q]].current
               /\ Untouched(q)' => /\ ~frames'[pageFrame'[q]].dirty => q \in inFile'
                                   /\ frames'[pageFrame'[q]].logged => q \in inLog'
    <3>1. /\ pageFrame'[q] = pageFrame[q] /\ pageFrame[q] \in DOMAIN frames
          /\ frames[pageFrame[q]].current
          /\ Untouched(q) => /\ ~frames[pageFrame[q]].dirty => q \in inFile
                             /\ frames[pageFrame[q]].logged => q \in inLog
      BY <2>2, <1>1, <1>4 DEF PoolInv, Copies
    <3>2. CASE q = p
      <4>1. frames'[i].current
        BY <3>1, <3>2, <1>2, <1>5
      <4>2. CASE h.wrote
        BY <4>1, <4>2, <3>1, <3>2, <1>2, <1>5
      <4>3. CASE ~h.wrote
        <5>1. Untouched(q)' => Untouched(q)
          BY <4>3, <1>6 DEF Untouched
        <5> QED
          BY <4>1, <4>3, <5>1, <3>1, <3>2, <1>2, <1>4, <1>5
      <4> QED
        BY <4>2, <4>3
    <3>3. CASE q # p
      <4>1. Untouched(q)' => Untouched(q)
        BY <3>3, <1>6 DEF Untouched
      <4>2. pageFrame[q] # i
        BY <3>1, <3>3, <1>2 DEF PoolInv, DirectoryAgrees
      <4> QED
        BY <4>1, <4>2, <3>1, <1>4, <1>5
    <3> QED
      BY <3>2, <3>3
  <2> QED
    BY <2>1, <2>2 DEF Copies
<1>15. Away'
  BY <1>4, <1>11 DEF PoolInv, Away
<1> QED
  BY <1>8, <1>9, <1>10, <1>12, <1>13, <1>14, <1>15 DEF PoolInv


\* While a statement is committed nobody has a pointer.
LEMMA NobodyHolds ==
    ASSUME PoolInv, NEW t \in Thread, mode[t] = "write", held[t] = {}
    PROVE  /\ \A u \in Thread : held[u] = {}
           /\ \A p \in Page : Untouched(p)
<1>1. \A u \in Thread : held[u] = {}
  BY DEF PoolInv, Alone
<1> QED
  BY <1>1 DEF Untouched

\* Frames change their marks at the end of a statement: as long as what is clean
\* is in the file and what is called logged in the log, all is well.
LEMMA MarksKeep ==
    ASSUME PoolInv, NEW t \in Thread, mode[t] = "write", held[t] = {},
           mode' = [mode EXCEPT ![t] = "idle"],
           UNCHANGED <<pageFrame, hand, idVars, held, ownerVars>>,
           frames' \in [DOMAIN frames -> FrameType],
           \A i \in DOMAIN frames : /\ frames'[i].pageId = frames[i].pageId
                                    /\ frames'[i].pins = frames[i].pins
                                    /\ frames'[i].current = frames[i].current
                                    /\ frames'[i].dirty => frames[i].dirty,
           inFile \subseteq inFile', inFile' \subseteq Page, inLog' \subseteq Page,
           \A p \in Page : pageFrame[p] # Nowhere =>
               /\ ~frames'[pageFrame[p]].dirty => p \in inFile'
               /\ frames'[pageFrame[p]].logged => p \in inLog'
    PROVE  PoolInv'
<1>1. /\ TypeOK /\ FrameCount \in Nat /\ DOMAIN frames = 0 .. FrameCount - 1
  BY FrameFacts DEF PoolInv
<1>2. DOMAIN frames' = DOMAIN frames
  OBVIOUS
<1>3. UNCHANGED <<pageFrame, hand, pageCount, freeIds, held, tables, scratch>>
  BY DEF idVars, ownerVars
<1>4. Owned' = Owned
  BY <1>3 DEF Owned
<1>5. TypeOK'
  <2>1. FrameCount' = FrameCount
    BY <1>2 DEF FrameCount
  <2> QED
    BY <2>1, <1>1, <1>2, <1>3 DEF TypeOK
<1>6. DirectoryAgrees'
  BY <1>2, <1>3 DEF PoolInv, DirectoryAgrees
<1>7. Alone'
  <2>1. \A u \in Thread : mode'[u] = IF u = t THEN "idle" ELSE mode[u]
    BY <1>1 DEF TypeOK
  <2> QED
    BY <2>1, <1>3 DEF PoolInv, Alone
<1>8. Separate'
  BY <1>3, <1>4 DEF PoolInv, Separate
<1>9. Pointers'
  <2>1. \A i : Holders(i)' = Holders(i)
    BY <1>3 DEF Holders
  <2> QED
    BY <2>1, <1>2, <1>3 DEF PoolInv, Pointers
<1>10. Copies'
  <2>1. \A i \in DOMAIN frames' : IsFree(i)' => ~frames'[i].dirty
    BY <1>2 DEF PoolInv, Copies, IsFree
  <2>2. \A p \in Page : pageFrame[p] \in DOMAIN frames \cup {Nowhere}
    BY <1>1 DEF TypeOK
  <2>3. \A p \in Page : pageFrame[p] # Nowhere => frames'[pageFrame[p]].current
    BY <2>2 DEF PoolInv, Copies
  <2> QED
    BY <2>1, <2>3, <1>3 DEF Copies
<1>11. Away'
  BY <1>3, <1>4 DEF PoolInv, Away
<1> QED
  BY <1>5, <1>6, <1>7, <1>8, <1>9, <1>10, <1>11 DEF PoolInv

LEMMA CommitStatementKeeps ==
    ASSUME PoolInv, NEW t \in Thread, CommitStatement(t)
    PROVE  PoolInv'
<1>1. /\ mode[t] = "write" /\ held[t] = {} /\ mode' = [mode EXCEPT ![t] = "idle"]
      /\ frames' = [i \in DOMAIN frames |-> [frames[i] EXCEPT !.logged = frames[i].dirty]]
      /\ UNCHANGED <<pageFrame, hand, inFile, idVars, held, ownerVars>>
      /\ inLog' = inLog \cup {frames[i].pageId :
                                i \in {j \in DOMAIN frames : /\ frames[j].dirty
                                                             /\ ~frames[j].logged
                                                             /\ frames[j].current}}
  BY DEF CommitStatement
<1>2. \A i \in DOMAIN frames : frames[i] \in FrameType
  BY FrameFacts DEF PoolInv
<1>3. \A i \in DOMAIN frames :
        /\ frames'[i] \in FrameType
        /\ frames'[i].pageId = frames[i].pageId
        /\ frames'[i].pins = frames[i].pins
        /\ frames'[i].current = frames[i].current
        /\ frames'[i].dirty = frames[i].dirty
        /\ frames'[i].logged = frames[i].dirty
  <2> TAKE i \in DOMAIN frames
  <2>1. frames[i] \in FrameType
    BY <1>2
  <2>2. frames[i].dirty \in BOOLEAN
    BY <2>1 DEF FrameType
  <2>3. frames'[i] = [frames[i] EXCEPT !.logged = frames[i].dirty]
    BY <1>1
  <2>4. frames'[i] \in FrameType
    BY <2>1, <2>2, <2>3, FrameUpdates
  <2> QED
    BY <2>1, <2>3, <2>4 DEF FrameType
<1>4. frames' \in [DOMAIN frames -> FrameType]
  BY <1>1, <1>3
<1>5. \A i \in DOMAIN frames : frames[i].dirty => frames[i].pageId \in Page
  BY <1>2 DEF PoolInv, Copies, IsFree, FrameType
<1>6. inLog' \subseteq Page
  BY <1>1, <1>5 DEF PoolInv, TypeOK
<1>7. ASSUME NEW p \in Page, pageFrame[p] # Nowhere
      PROVE  /\ ~frames'[pageFrame[p]].dirty => p \in inFile'
             /\ frames'[pageFrame[p]].logged => p \in inLog'
  <2>1. pageFrame[p] \in DOMAIN frames /\ frames[pageFrame[p]].pageId = p
    BY <1>7 DEF PoolInv, TypeOK, DirectoryAgrees
  <2>2. /\ frames[pageFrame[p]].current
        /\ ~frames[pageFrame[p]].dirty => p \in inFile
        /\ frames[pageFrame[p]].logged => p \in inLog
    BY <1>1, <1>7, NobodyHolds DEF PoolInv, Copies
  <2> QED
    BY <2>1, <2>2, <1>1, <1>3
<1>8. inFile \subseteq inFile' /\ inFile' \subseteq Page
  BY <1>1 DEF PoolInv, TypeOK
<1> QED
  BY <1>1, <1>3, <1>4, <1>6, <1>7, <1>8, MarksKeep

LEMMA CheckpointKeeps ==
    ASSUME PoolInv, NEW t \in Thread, Checkpoint(t)
    PROVE  PoolInv'
<1>1. /\ mode[t] = "write" /\ held[t] = {} /\ mode' = [mode EXCEPT ![t] = "idle"]
      /\ frames' = [i \in DOMAIN frames |-> [frames[i] EXCEPT !.dirty = FALSE,
                                                             !.logged = FALSE]]
      /\ UNCHANGED <<pageFrame, hand, idVars, held, ownerVars>>
      /\ inFile' = inFile \cup {frames[i].pageId :
                                  i \in {j \in DOMAIN frames : /\ frames[j].dirty
                                                               /\ frames[j].current}}
      /\ inLog' = {}
  BY DEF Checkpoint
<1>2. \A i \in DOMAIN frames : frames[i] \in FrameType
  BY FrameFacts DEF PoolInv
<1>3. \A i \in DOMAIN frames :
        /\ frames'[i] \in FrameType
        /\ frames'[i].pageId = frames[i].pageId
        /\ frames'[i].pins = frames[i].pins
        /\ frames'[i].current = frames[i].current
        /\ ~frames'[i].dirty /\ ~frames'[i].logged
  <2> TAKE i \in DOMAIN frames
  <2>1. frames[i] \in FrameType
    BY <1>2
  <2>2. frames'[i] = [frames[i] EXCEPT !.dirty = FALSE, !.logged = FALSE]
    BY <1>1
  <2>3. frames'[i] \in FrameType
    BY <2>1, <2>2, FrameUpdates
  <2> QED
    BY <2>1, <2>2, <2>3 DEF FrameType
<1>4. frames' \in [DOMAIN frames -> FrameType]
  BY <1>1, <1>3
<1>5. \A i \in DOMAIN frames : frames[i].dirty => frames[i].pageId \in Page
  BY <1>2 DEF PoolInv, Copies, IsFree, FrameType
<1>6. inFile \subseteq inFile' /\ inFile' \subseteq Page /\ inLog' \subseteq Page
  BY <1>1, <1>5 DEF PoolInv, TypeOK
<1>7. ASSUME NEW p \in Page, pageFrame[p] # Nowhere
      PROVE  /\ ~frames'[pageFrame[p]].dirty => p \in inFile'
             /\ frames'[pageFrame[p]].logged => p \in inLog'
  <2>1. pageFrame[p] \in DOMAIN frames /\ frames[pageFrame[p]].pageId = p
    BY <1>7 DEF PoolInv, TypeOK, DirectoryAgrees
  <2>2. /\ frames[pageFrame[p]].current
        /\ ~frames[pageFrame[p]].dirty => p \in inFile
    BY <1>1, <1>7, NobodyHolds DEF PoolInv, Copies
  <2> QED
    BY <2>1, <2>2, <1>1, <1>3
<1> QED
  BY <1>1, <1>3, <1>4, <1>6, <1>7, MarksKeep

LEMMA PoolInvIsInductive ==
    PoolInv /\ [Next]_poolVars => PoolInv'
<1> SUFFICES ASSUME PoolInv, [Next]_poolVars PROVE PoolInv'
  OBVIOUS
<1>1. CASE UNCHANGED poolVars
  BY <1>1, StutterKeeps
<1>2. CASE Next
  BY <1>2, StartReadKeeps, StartWriteKeeps, EndStatementKeeps, CommitStatementKeeps,
     CheckpointKeeps, PinHitKeeps, PinMissKeeps, PinFailsKeeps, AllocateKeeps,
     FreeKeeps, WriteThroughKeeps, UnpinKeeps DEF Next
<1> QED
  BY <1>1, <1>2

LEMMA PoolInvHolds ==
    Spec => []PoolInv
<1>1. Init => PoolInv
  BY InitKeeps
<1> QED
  BY <1>1, PoolInvIsInductive, PTL DEF Spec

-----------------------------------------------------------------------------
(* The theorems. *)

\* Types: in particular a frame's pins never go below 0, the directory names only
\* frames there are, and the hand is at one of them (14_pool.c, growFrames and
\* acquireFrame).
THEOREM TypeCorrect == Spec => []TypeOK
<1>1. PoolInv => TypeOK
  BY DEF PoolInv
<1> QED
  BY <1>1, PoolInvHolds, PTL

\* The frames and pageFrame always agree: no page is resident twice, and no frame
\* keeps a page the directory has forgotten (the comment in pinLocked).
THEOREM NoPageTwice == Spec => []DirectoryAgrees
<1>1. PoolInv => DirectoryAgrees
  BY DEF PoolInv
<1> QED
  BY <1>1, PoolInvHolds, PTL

\* Whatever other threads pin, evict, allocate or free, a pointer poolPin returned
\* leads to its page until it is given back, and the count of pins is the number
\* of threads that point into the frame.
THEOREM PinsHold == Spec => []PointersStayGood
<1>1. PoolInv => PointersStayGood
  <2> SUFFICES ASSUME PoolInv PROVE PointersStayGood
    OBVIOUS
  <2>1. \A t \in Thread : \A h \in held[t] : frames[h.frame].pageId = h.page
    BY PointedFrame
  <2>2. \A i \in DOMAIN frames :
          frames[i].pins = Cardinality({t \in Thread : \E h \in held[t] : h.frame = i})
    BY DEF PoolInv, Pointers, Holders
  <2> QED
    BY <2>1, <2>2 DEF PointersStayGood
<1> QED
  BY <1>1, PoolInvHolds, PTL

\* No write is lost between the frames and the file: the next pin of a page finds
\* what was last written to it (14_pool.c, acquireFrame, pinLocked, unpinLocked).
THEOREM WritesAreFound == Spec => []NothingIsLost
<1>1. PoolInv => NothingIsLost
  <2> SUFFICES ASSUME PoolInv, NEW p \in Owned
               PROVE  IF pageFrame[p] = Nowhere THEN p \in inFile
                                                ELSE frames[pageFrame[p]].current
    BY DEF NothingIsLost, Owned
  <2>1. p \in Page
    BY DEF Owned, PoolInv, TypeOK
  <2> QED
    BY <2>1 DEF PoolInv, Copies, Away
<1> QED
  BY <1>1, PoolInvHolds, PTL

\* Every step that takes a frame, and what it does to the file.
LEMMA StepsThatTakeAFrame ==
    ASSUME PoolInv, Next
    PROVE  \/ \E a \in Acquired : /\ DOMAIN frames' = DOMAIN a.frames
                                  /\ inFile' \subseteq a.inFile
           \/ DOMAIN frames' = DOMAIN frames /\ inFile' \subseteq inFile
           \/ DOMAIN frames' = DOMAIN frames /\ mode' # mode
<1> DEFINE Taken == \E a \in Acquired : /\ DOMAIN frames' = DOMAIN a.frames
                                        /\ inFile' \subseteq a.inFile
           Kept == DOMAIN frames' = DOMAIN frames /\ inFile' \subseteq inFile
           Ended == DOMAIN frames' = DOMAIN frames /\ mode' # mode
<1>1. PICK t \in Thread :
        \/ StartRead(t) \/ StartWrite(t) \/ EndStatement(t)
        \/ CommitStatement(t) \/ Checkpoint(t)
        \/ \E p \in Page : \/ PinHit(t, p) \/ PinMiss(t, p) \/ PinFails(t, p)
                           \/ Allocate(t, p) \/ Free(t, p)
        \/ \E h \in held[t] : WriteThrough(t, h) \/ Unpin(t, h)
  BY DEF Next
<1>2. \A a \in Acquired : a.frame \in DOMAIN a.frames
  BY AcquiredIsPromised DEF Promised
<1>3. CASE StartRead(t) \/ StartWrite(t) \/ EndStatement(t)
  BY <1>3 DEF StartRead, StartWrite, EndStatement, frameVars, fileVars
<1>4. CASE CommitStatement(t)
  BY <1>4 DEF CommitStatement
<1>5. CASE Checkpoint(t)
  <2>1. mode' # mode
    BY <1>5 DEF Checkpoint, PoolInv, TypeOK
  <2>2. DOMAIN frames' = DOMAIN frames
    BY <1>5 DEF Checkpoint
  <2> QED
    BY <2>1, <2>2
<1>6. ASSUME NEW p \in Page, PinHit(t, p) PROVE Kept
  BY <1>6 DEF PinHit, fileVars, PoolInv, TypeOK
<1>7. ASSUME NEW p \in Page, PinMiss(t, p) PROVE Taken
  <2>1. PICK a \in Acquired :
          /\ \E content : frames' = [a.frames EXCEPT ![a.frame] = content]
          /\ inFile' = a.inFile
    BY <1>7 DEF PinMiss, Place
  <2> QED
    BY <2>1
<1>8. ASSUME NEW p \in Page, PinFails(t, p) PROVE Taken
  <2>1. PICK a \in Acquired :
          /\ \E content : frames' = [a.frames EXCEPT ![a.frame] = content]
          /\ inFile' = a.inFile
    BY <1>8 DEF PinFails
  <2> QED
    BY <2>1
<1>9. ASSUME NEW p \in Page, Allocate(t, p) PROVE Taken
  <2>1. PICK a \in Acquired :
          /\ \E content : frames' = [a.frames EXCEPT ![a.frame] = content]
          /\ inFile' = a.inFile \ {p}
    BY <1>9 DEF Allocate, Place
  <2> QED
    BY <2>1
<1>10. ASSUME NEW p \in Page, Free(t, p) PROVE Kept
  BY <1>10 DEF Free, fileVars
<1>11. ASSUME NEW h \in held[t], WriteThrough(t, h) PROVE Kept
  BY <1>11 DEF WriteThrough
<1>12. ASSUME NEW h \in held[t], Unpin(t, h) PROVE Kept
  BY <1>12 DEF Unpin, fileVars
<1> QED
  BY <1>1, <1>3, <1>4, <1>5, <1>6, <1>7, <1>8, <1>9, <1>10, <1>11, <1>12

\* A page is evicted to the file only when the log has what is written (the guard
\* of acquireFrame and flushFrame); the file knows more only at a checkpoint, which
\* ends a statement.
THEOREM FileFollowsTheLog == Spec => LogComesFirst
<1>1. PoolInv /\ [Next]_poolVars =>
        [mode' = mode => inFile' \ inFile \subseteq inLog]_poolVars
  <2> SUFFICES ASSUME PoolInv, Next, mode' = mode, NEW p \in inFile', p \notin inFile
               PROVE  p \in inLog
    OBVIOUS
  <2>1. PICK a \in Acquired : inFile' \subseteq a.inFile
    BY StepsThatTakeAFrame
  <2> QED
    BY <2>1, AcquiredIsPromised DEF Promised
<1> QED
  BY <1>1, PoolInvHolds, PTL DEF Spec, LogComesFirst

\* growFrames is called only when every frame is pinned or has changes the log
\* does not have: two rounds of the hand find any other.
THEOREM GrowsLast == Spec => GrowsOnlyWhenFull
<1>1. PoolInv /\ [Next]_poolVars =>
        [DOMAIN frames' # DOMAIN frames =>
           \A i \in DOMAIN frames : ~IsFree(i) /\ ~Evictable(i)]_poolVars
  <2> SUFFICES ASSUME PoolInv, Next, DOMAIN frames' # DOMAIN frames,
                      NEW i \in DOMAIN frames
               PROVE  ~IsFree(i) /\ ~Evictable(i)
    OBVIOUS
  <2>1. PICK a \in Acquired : DOMAIN frames' = DOMAIN a.frames
    BY StepsThatTakeAFrame
  <2> QED
    BY <2>1, AcquiredIsPromised DEF Promised
<1> QED
  BY <1>1, PoolInvHolds, PTL DEF Spec, GrowsOnlyWhenFull
=============================================================================
