---------------------------- MODULE PagerProofs ----------------------------
(***************************************************************************)
(* What Pager.tla guarantees for every number of pages, statements and     *)
(* crashes, whatever pages hold and whichever of the faults may strike;    *)
(* and, from the section on durability, that nothing committed is lost.    *)
(***************************************************************************)
EXTENDS Pager, FiniteSetTheorems, SequenceTheorems, WellFoundedInduction, TLAPS

-----------------------------------------------------------------------------
(* Facts about the operators. *)

\* A bounded, inhabited set of naturals has a largest element, and Max is it.
LEMMA MaxIsLargest ==
    ASSUME NEW n \in Nat, NEW S \in SUBSET (0 .. n), S # {}
    PROVE  /\ Max(S) \in S
           /\ \A y \in S : y <= Max(S)
<1> DEFINE T == {n - x : x \in S}
<1>1. T \subseteq Nat /\ T # {}
  OBVIOUS
<1>2. PICK t \in T : \A y \in T : ~(<<y, t>> \in OpToRel(<, Nat))
  BY <1>1, WFMin, NatLessThanWellFounded
<1>3. \A y \in T : t <= y
  <2> TAKE y \in T
  <2>1. y \in Nat /\ t \in Nat
    BY <1>1
  <2>2. ~(y < t)
    <3> SUFFICES ASSUME y < t PROVE FALSE
      OBVIOUS
    <3>1. <<y, t>> \in Nat \X Nat /\ <<y, t>>[1] < <<y, t>>[2]
      BY <2>1
    <3>2. <<y, t>> \in {ss \in Nat \X Nat : ss[1] < ss[2]}
      BY <3>1
    <3> QED
      BY <3>2, <1>2 DEF OpToRel
  <2> QED
    BY <2>1, <2>2
<1>4. PICK x \in S : t = n - x
  OBVIOUS
<1>5. \A y \in S : x >= y
  <2> TAKE y \in S
  <2>1. t <= n - y
    BY <1>3
  <2> QED
    BY <2>1, <1>4
<1>6. \E z \in S : \A y \in S : z >= y
  BY <1>5
<1> QED
  BY <1>6 DEF Max

\* LastGood is a frame of the log, or 0; it is 0 or a whole commit frame.
LEMMA LastGoodType ==
    ASSUME NEW frames \in Seq(Frame)
    PROVE  LastGood(frames) \in 0 .. Len(frames)
<1> DEFINE S == {0} \cup {n \in 1 .. Len(frames) :
                            /\ frames[n].commit
                            /\ \A i \in 1 .. n : frames[i].whole}
<1>1. S \in SUBSET (0 .. Len(frames)) /\ S # {} /\ Len(frames) \in Nat
  OBVIOUS
<1>2. Max(S) \in S
  BY <1>1, MaxIsLargest
<1> QED
  BY <1>1, <1>2 DEF LastGood

\* The smaller of two naturals is one of them.
LEMMA MinOfTwo ==
    ASSUME NEW a \in Nat, NEW b \in Nat
    PROVE  Min({a, b}) \in {a, b}
<1>1. \E x \in {a, b} : \A y \in {a, b} : x <= y
  OBVIOUS
<1> QED
  BY <1>1 DEF Min

LEMMA PageFacts ==
    /\ MaxPages \in Nat
    /\ CatalogPage \in Page
    /\ DataPage \subseteq Page
    /\ CatalogPage \notin DataPage
    /\ \A p \in Page : p \in Nat /\ p < MaxPages
BY BoundsAssumption DEF Page, CatalogPage, DataPage

LEMMA ContentFacts ==
    /\ Value \subseteq Content
    /\ Blank \in Content
    /\ Torn \in Content
    /\ (SUBSET DataPage) \subseteq Content
BY DEF Content

\* A frame poolCommit writes has the type of a frame, whole or not.
LEMMA LogFrameType ==
    ASSUME PoolOK, MemoryOK, NEW p \in Page, NEW last \in BOOLEAN
    PROVE  /\ LogFrame(p, last) \in Frame
           /\ LogFrame(p, last).page = p
           /\ LogFrame(p, last).image = image[p]
           /\ [LogFrame(p, last) EXCEPT !.whole = FALSE] \in Frame
           /\ [LogFrame(p, last) EXCEPT !.whole = FALSE].page = p
           /\ [LogFrame(p, last) EXCEPT !.whole = FALSE].image = image[p]
BY DEF LogFrame, Frame, PoolOK, MemoryOK


-----------------------------------------------------------------------------
(* Type correctness. *)

\* What may come back as a catalog is a set of pages, or a torn page.
CatalogIsReadable ==
    /\ CatalogPage \in resident => image[CatalogPage] \in SUBSET DataPage
    /\ filePages[CatalogPage] \in (SUBSET DataPage) \cup {Torn}
    /\ diskPages[CatalogPage] \subseteq (SUBSET DataPage) \cup {Torn}
    /\ \A i \in 1 .. Len(log) :
          log[i].page = CatalogPage => log[i].image \in SUBSET DataPage
    /\ \A i \in 1 .. Len(staleLog) :
          staleLog[i].page = CatalogPage => staleLog[i].image \in SUBSET DataPage

\* Outside a commit and a checkpoint there is nothing left to write, and a
\* replay has a frame to replay.
StepsAreInOrder ==
    /\ phase \notin {"append", "flush", "checkpointed"} => todo = {}
    /\ phase = "replay" => position >= 1 /\ LastGood(log) # 0

TypeInv == TypeOK /\ CatalogIsReadable /\ StepsAreInOrder

LEMMA InitTypeInv == Init => TypeInv
<1> SUFFICES ASSUME Init PROVE TypeInv
  OBVIOUS
<1> USE PageFacts, ContentFacts DEF Init
<1>1. PoolOK
  BY DEF PoolOK
<1>2. MemoryOK
  BY BoundsAssumption DEF MemoryOK
<1>9. FlagsOK
  BY DEF FlagsOK
<1>3. FileOK
  <2>1. image \in [Page -> Content]
    BY <1>1 DEF PoolOK
  <2> QED
    BY <2>1, BoundsAssumption DEF FileOK
<1>4. LogOK
  BY EmptySeq DEF LogOK
<1>5. StepOK
  BY DEF StepOK, Phases
<1>6. GhostOK
  BY BoundsAssumption DEF GhostOK
<1>7. CatalogIsReadable
  BY EmptySeq DEF CatalogIsReadable
<1>8. StepsAreInOrder
  BY DEF StepsAreInOrder
<1> QED
  BY <1>1, <1>2, <1>3, <1>4, <1>5, <1>6, <1>7, <1>8, <1>9 DEF TypeInv, TypeOK

-----------------------------------------------------------------------------
(* What the steps' building blocks keep. *)

LEMMA DirtyFrameOK ==
    ASSUME PoolOK, NEW p \in Page, NEW c \in Content, DirtyFrame(p, c)
    PROVE  PoolOK' /\ dirty \subseteq dirty'
BY DEF PoolOK, DirtyFrame

LEMMA DropFramesOK ==
    ASSUME PoolOK, NEW ps, DropFrames(ps)
    PROVE  PoolOK'
BY ContentFacts DEF PoolOK, DropFrames

LEMMA WriteFilePageOK ==
    ASSUME FileOK, NEW p \in Page, NEW c \in Content, WriteFilePage(p, c),
           UNCHANGED <<fileCount, diskCount>>
    PROVE  FileOK'
BY DEF FileOK, WriteFilePage

LEMMA WriteHeaderCountOK ==
    ASSUME FileOK, NEW n \in 0 .. MaxPages, WriteHeaderCount(n),
           UNCHANGED <<filePages, diskPages>>
    PROVE  FileOK'
BY DEF FileOK, WriteHeaderCount

LEMMA RemoveLogOK ==
    ASSUME LogOK, RemoveLog
    PROVE  LogOK'
<1>1. log' \in Seq(Frame) /\ Len(log') = 0 /\ synced' = 0
  BY EmptySeq DEF RemoveLog
<1>2. staleLog' \in Seq(Frame)
  BY DEF LogOK, RemoveLog
<1> QED
  BY <1>1, <1>2 DEF LogOK

\* A write of anything that can be a catalog, or to any other page, leaves the
\* catalog page readable.
LEMMA WriteFilePageCatalog ==
    ASSUME FileOK, CatalogIsReadable, NEW p \in Page, NEW c,
           p = CatalogPage => c \in SUBSET DataPage,
           WriteFilePage(p, c)
    PROVE  /\ filePages'[CatalogPage] \in (SUBSET DataPage) \cup {Torn}
           /\ diskPages'[CatalogPage] \subseteq (SUBSET DataPage) \cup {Torn}
<1>1. CASE p = CatalogPage
  BY <1>1, PageFacts DEF FileOK, CatalogIsReadable, WriteFilePage
<1>2. CASE p # CatalogPage
  BY <1>2, PageFacts DEF FileOK, CatalogIsReadable, WriteFilePage
<1> QED
  BY <1>1, <1>2

\* Appending such a frame leaves every catalog in the log readable.
LEMMA AppendCatalog ==
    ASSUME LogOK, CatalogIsReadable, NEW frame \in Frame,
           frame.page = CatalogPage => frame.image \in SUBSET DataPage,
           log' = Append(log, frame), synced' = synced, staleLog' = staleLog
    PROVE  /\ LogOK'
           /\ \A i \in 1 .. Len(log') :
                log'[i].page = CatalogPage => log'[i].image \in SUBSET DataPage
<1>1. log' \in Seq(Frame) /\ Len(log') = Len(log) + 1
  BY AppendProperties DEF LogOK
<1>2. \A i \in 1 .. Len(log) : log'[i] = log[i]
  BY AppendProperties DEF LogOK
<1>3. log'[Len(log) + 1] = frame
  BY AppendProperties DEF LogOK
<1>4. LogOK'
  BY <1>1 DEF LogOK
<1>5. ASSUME NEW i \in 1 .. Len(log'), log'[i].page = CatalogPage
      PROVE  log'[i].image \in SUBSET DataPage
  <2>1. CASE i \in 1 .. Len(log)
    BY <2>1, <1>2, <1>5 DEF CatalogIsReadable
  <2>2. CASE i = Len(log) + 1
    BY <2>2, <1>3, <1>5
  <2> QED
    BY <2>1, <2>2, <1>1 DEF LogOK
<1> QED
  BY <1>4, <1>5

\* commitDatabase up to its first frame: the catalog page it dirties holds a
\* set of pages, and what it has to append is dirty.
LEMMA CommitDatabaseOK ==
    ASSUME TypeInv, NEW changed, CommitDatabase(changed), todo = {}
    PROVE  /\ PoolOK'
           /\ todo' \subseteq dirty'
           /\ phase' \in {"idle", "append"}
           /\ phase' = "idle" => todo' = {}
           /\ CatalogPage \in resident' => image'[CatalogPage] \in SUBSET DataPage
           /\ DOMAIN committed' \subseteq DataPage
<1> USE DEF TypeInv, TypeOK
<1>1. CASE ~walIsOpen \/ (dirty = {} /\ ~changed)
  BY <1>1 DEF CommitDatabase, PoolOK, CatalogIsReadable, GhostOK, poolVars
<1>2. CASE ~(~walIsOpen \/ (dirty = {} /\ ~changed))
  <2>1. DirtyFrame(CatalogPage, owned) /\ owned \in SUBSET DataPage
    BY <1>2 DEF CommitDatabase, MemoryOK
  <2>2. PoolOK' /\ dirty \subseteq dirty'
    BY <2>1, DirtyFrameOK, PageFacts, ContentFacts
  <2>3. CatalogPage \in dirty' /\ image'[CatalogPage] = owned
    BY <2>1, PageFacts DEF DirtyFrame, PoolOK
  <2>4. /\ todo' = (dirty \ logged) \cup {CatalogPage}
        /\ phase' = "append"
        /\ committed' = committed
    BY <1>2 DEF CommitDatabase
  <2> QED
    BY <2>1, <2>2, <2>3, <2>4 DEF GhostOK
<1> QED
  BY <1>1, <1>2

LEMMA NextTypeInv == TypeInv /\ [Next]_vars => TypeInv'
<1> SUFFICES ASSUME TypeInv, [Next]_vars PROVE TypeInv'
  OBVIOUS
<1> USE PageFacts, ContentFacts DEF TypeInv, TypeOK
<1> USE DEF poolVars, memoryVars, txVars, fileVars, logVars, openVars, stepVars,
            ghostVars, counterVars
<1>1. ASSUME NEW kind \in {"rows", "schema"}, StartStatement(kind)
      PROVE  TypeInv'
  <2> USE <1>1 DEF StartStatement
  <2>1. PoolOK' /\ MemoryOK' /\ FlagsOK' /\ FileOK' /\ LogOK' /\ CatalogIsReadable'
    BY DEF PoolOK, MemoryOK, FlagsOK, FileOK, LogOK, CatalogIsReadable
  <2>2. StepOK' /\ StepsAreInOrder'
    BY DEF StepOK, Phases, StepsAreInOrder
  <2>3. GhostOK'
    BY BoundsAssumption DEF GhostOK
  <2> QED
    BY <2>1, <2>2, <2>3
<1>2. ASSUME NEW p \in DataPage, NEW v \in Value, WritePage(p, v)
      PROVE  TypeInv'
  <2> USE <1>2 DEF WritePage
  <2>1. PoolOK' /\ dirty \subseteq dirty'
    BY DirtyFrameOK
  <2>2. MemoryOK' /\ FlagsOK' /\ FileOK' /\ LogOK' /\ StepsAreInOrder'
    BY DEF MemoryOK, FlagsOK, FileOK, LogOK, StepsAreInOrder
  <2>3. StepOK'
    BY <2>1 DEF StepOK
  <2>4. GhostOK'
    BY DEF GhostOK, SetCurrent
  <2>5. CatalogIsReadable'
    BY DEF CatalogIsReadable, DirtyFrame, PoolOK
  <2> QED
    BY <2>1, <2>2, <2>3, <2>4, <2>5
<1>3. ASSUME NEW p \in DataPage, AllocatePage(p)
      PROVE  TypeInv'
  <2> USE <1>3 DEF AllocatePage
  <2>1. PoolOK' /\ dirty \subseteq dirty'
    BY DirtyFrameOK
  <2>2. MemoryOK'
    <3>1. pageCount' \in 0 .. MaxPages
      BY DEF MemoryOK
    <3> QED
      BY <3>1 DEF MemoryOK
  <2>3. FlagsOK' /\ FileOK' /\ LogOK' /\ StepsAreInOrder'
    BY DEF FlagsOK, FileOK, LogOK, StepsAreInOrder
  <2>4. StepOK'
    BY <2>1 DEF StepOK
  <2>5. GhostOK'
    BY DEF GhostOK, SetCurrent
  <2>6. CatalogIsReadable'
    BY DEF CatalogIsReadable, DirtyFrame, PoolOK
  <2> QED
    BY <2>1, <2>2, <2>3, <2>4, <2>5, <2>6
<1>4. ASSUME NEW p \in DataPage, FreePage(p)
      PROVE  TypeInv'
  <2> USE <1>4 DEF FreePage
  <2>1. PoolOK'
    BY DropFramesOK
  <2>2. MemoryOK' /\ FlagsOK' /\ FileOK' /\ LogOK' /\ StepsAreInOrder'
    BY DEF MemoryOK, FlagsOK, FileOK, LogOK, StepsAreInOrder
  <2>3. StepOK'
    BY DEF StepOK, StepsAreInOrder
  <2>4. GhostOK'
    BY DEF GhostOK
  <2>5. CatalogIsReadable'
    BY DEF CatalogIsReadable, DropFrames, PoolOK
  <2> QED
    BY <2>1, <2>2, <2>3, <2>4, <2>5
<1>5. ASSUME FinishStatement
      PROVE  TypeInv'
  <2>1. todo = {}
    BY <1>5 DEF FinishStatement, Executing, StepsAreInOrder
  <2>2. /\ PoolOK'
        /\ todo' \subseteq dirty'
        /\ phase' \in {"idle", "append"}
        /\ phase' = "idle" => todo' = {}
        /\ CatalogPage \in resident' => image'[CatalogPage] \in SUBSET DataPage
        /\ DOMAIN committed' \subseteq DataPage
    <3>1. CASE transactionOpen
      BY <1>5, <2>1, <3>1 DEF FinishStatement, PoolOK, CatalogIsReadable, GhostOK
    <3>2. CASE ~transactionOpen
      <4>1. CommitDatabase(schemaChanged')
        BY <1>5, <3>2 DEF FinishStatement
      <4> HIDE DEF TypeInv
      <4> QED
        BY <4>1, <2>1, CommitDatabaseOK
    <3> QED
      BY <3>1, <3>2
  <2>3. MemoryOK' /\ FileOK' /\ LogOK'
    BY <1>5 DEF FinishStatement, MemoryOK, FileOK, LogOK
  <2>4. FlagsOK'
    BY <1>5 DEF FinishStatement, FlagsOK
  <2>5. StepOK' /\ StepsAreInOrder'
    BY <1>5, <2>2 DEF FinishStatement, StepOK, Phases, StepsAreInOrder
  <2>6. GhostOK'
    BY <1>5, <2>2 DEF FinishStatement, GhostOK
  <2>7. CatalogIsReadable'
    BY <1>5, <2>2 DEF FinishStatement, CatalogIsReadable
  <2> QED
    BY <2>2, <2>3, <2>4, <2>5, <2>6, <2>7
<1>6. ASSUME FailStatement
      PROVE  TypeInv'
  BY <1>6 DEF FailStatement, Executing, PoolOK, MemoryOK, FlagsOK, FileOK, LogOK,
     StepOK, Phases, GhostOK, CatalogIsReadable, StepsAreInOrder
<1>7. ASSUME NEW p \in Page, AppendFrame(p)
      PROVE  TypeInv'
  <2> USE <1>7 DEF AppendFrame
  <2> DEFINE frame == LogFrame(p, todo = {p})
  <2>1. PoolOK' /\ MemoryOK' /\ FlagsOK' /\ FileOK' /\ GhostOK'
    BY DEF PoolOK, MemoryOK, FlagsOK, FileOK, GhostOK
  <2>2. frame \in Frame /\ frame.page = p /\ frame.image = image[p]
    BY LogFrameType
  <2>3. p \in resident
    BY DEF StepOK, PoolOK
  <2>4. frame.page = CatalogPage => frame.image \in SUBSET DataPage
    BY <2>2, <2>3 DEF CatalogIsReadable
  <2>5. log' = Append(log, frame) /\ synced' = synced /\ staleLog' = staleLog
    OBVIOUS
  <2> HIDE DEF frame
  <2>6. /\ LogOK'
        /\ \A i \in 1 .. Len(log') :
             log'[i].page = CatalogPage => log'[i].image \in SUBSET DataPage
    BY <2>2, <2>4, <2>5, AppendCatalog
  <2>7. StepOK' /\ StepsAreInOrder'
    BY DEF StepOK, Phases, StepsAreInOrder
  <2>8. CatalogIsReadable'
    BY <2>6 DEF CatalogIsReadable
  <2> QED
    BY <2>1, <2>6, <2>7, <2>8
<1>8. ASSUME NEW p \in Page, FailAppend(p)
      PROVE  TypeInv'
  <2> USE <1>8 DEF FailAppend
  <2> DEFINE frame == [LogFrame(p, todo = {p}) EXCEPT !.whole = FALSE]
  <2>1. PoolOK' /\ MemoryOK' /\ FlagsOK' /\ FileOK' /\ GhostOK'
    BY DEF PoolOK, MemoryOK, FlagsOK, FileOK, GhostOK
  <2>2. frame \in Frame /\ frame.page = p /\ frame.image = image[p]
    BY LogFrameType
  <2>3. p \in resident
    BY DEF StepOK, PoolOK
  <2>4. frame.page = CatalogPage => frame.image \in SUBSET DataPage
    BY <2>2, <2>3 DEF CatalogIsReadable
  <2>5. log' \in {log, Append(log, frame)} /\ synced' = synced /\ staleLog' = staleLog
    OBVIOUS
  <2> HIDE DEF frame
  <2>6. /\ LogOK'
        /\ \A i \in 1 .. Len(log') :
             log'[i].page = CatalogPage => log'[i].image \in SUBSET DataPage
    <3>1. CASE log' = log
      BY <3>1, <2>5 DEF LogOK, CatalogIsReadable
    <3>2. CASE log' = Append(log, frame)
      BY <3>2, <2>2, <2>4, <2>5, AppendCatalog
    <3> QED
      BY <3>1, <3>2, <2>5
  <2>7. StepOK' /\ StepsAreInOrder'
    BY DEF StepOK, Phases, StepsAreInOrder
  <2>8. CatalogIsReadable'
    BY <2>6 DEF CatalogIsReadable
  <2> QED
    BY <2>1, <2>6, <2>7, <2>8
<1>9. ASSUME FailSync
      PROVE  TypeInv'
  BY <1>9 DEF FailSync, PoolOK, MemoryOK, FlagsOK, FileOK, LogOK,
     StepOK, Phases, GhostOK, CatalogIsReadable, StepsAreInOrder
<1>10. ASSUME SyncLog
       PROVE  TypeInv'
  <2> USE <1>10 DEF SyncLog
  <2>1. PoolOK' /\ MemoryOK' /\ FileOK' /\ CatalogIsReadable'
    BY DEF PoolOK, MemoryOK, FileOK, CatalogIsReadable
  <2>2. FlagsOK'
    BY DEF FlagsOK
  <2>3. LogOK'
    BY EmptySeq DEF LogOK
  <2>4. StepOK' /\ StepsAreInOrder'
    BY DEF StepOK, Phases, StepsAreInOrder
  <2>5. GhostOK'
    BY DEF GhostOK
  <2>6. CatalogIsReadable'
    BY EmptySeq DEF CatalogIsReadable
  <2> QED
    BY <2>1, <2>2, <2>3, <2>4, <2>5, <2>6
<1>11. ASSUME NEW p \in Page, EvictPage(p)
       PROVE  TypeInv'
  <2> USE <1>11 DEF EvictPage
  <2>1. PoolOK'
    BY DropFramesOK
  <2>2. MemoryOK' /\ FlagsOK' /\ LogOK' /\ GhostOK' /\ StepsAreInOrder'
    BY DEF MemoryOK, FlagsOK, LogOK, GhostOK, StepsAreInOrder
  <2>3. image[p] \in Content /\ (p = CatalogPage => image[p] \in SUBSET DataPage)
    BY DEF PoolOK, CatalogIsReadable
  <2>4. FileOK'
    BY <2>3, WriteFilePageOK DEF FileOK
  <2>5. StepOK'
    BY DEF StepOK, StepsAreInOrder, Executing
  <2>6. CatalogIsReadable'
    <3>1. CatalogPage \in resident' => image'[CatalogPage] \in SUBSET DataPage
      BY DEF DropFrames, CatalogIsReadable
    <3>2. /\ filePages'[CatalogPage] \in (SUBSET DataPage) \cup {Torn}
          /\ diskPages'[CatalogPage] \subseteq (SUBSET DataPage) \cup {Torn}
      BY <2>3, WriteFilePageCatalog DEF CatalogIsReadable
    <3> QED
      BY <3>1, <3>2 DEF CatalogIsReadable
  <2> QED
    BY <2>1, <2>2, <2>4, <2>5, <2>6
<1>12. ASSUME NEW p \in Page, FaultPage(p)
       PROVE  TypeInv'
  <2> USE <1>12 DEF FaultPage
  <2>1. PoolOK'
    BY DEF PoolOK, FileOK
  <2>2. /\ MemoryOK' /\ FlagsOK' /\ FileOK' /\ LogOK' /\ StepOK' /\ GhostOK'
        /\ StepsAreInOrder'
    BY DEF MemoryOK, FlagsOK, FileOK, LogOK, StepOK, GhostOK, StepsAreInOrder
  <2>3. CatalogIsReadable'
    BY DEF CatalogIsReadable, PoolOK
  <2> QED
    BY <2>1, <2>2, <2>3
<1>13. ASSUME BeginTransaction
       PROVE  TypeInv'
  BY <1>13 DEF BeginTransaction, StartCheckpoint, PoolOK, MemoryOK, FlagsOK, FileOK,
     LogOK, StepOK, Phases, GhostOK, CatalogIsReadable, StepsAreInOrder
<1>14. ASSUME CommitTransaction
       PROVE  TypeInv'
  <2> USE <1>14 DEF CommitTransaction
  <2>1. todo = {} /\ CommitDatabase(schemaChanged)
    BY DEF StepsAreInOrder
  <2>2. /\ PoolOK'
        /\ todo' \subseteq dirty'
        /\ phase' \in {"idle", "append"}
        /\ phase' = "idle" => todo' = {}
        /\ CatalogPage \in resident' => image'[CatalogPage] \in SUBSET DataPage
        /\ DOMAIN committed' \subseteq DataPage
    <3> HIDE <1>14 DEF TypeInv, CommitTransaction
    <3> QED
      BY <2>1, CommitDatabaseOK
  <2>3. MemoryOK' /\ FileOK' /\ LogOK'
    BY DEF MemoryOK, FileOK, LogOK
  <2>4. FlagsOK'
    BY DEF FlagsOK
  <2>5. StepOK' /\ StepsAreInOrder'
    BY <2>2 DEF StepOK, Phases, StepsAreInOrder
  <2>6. GhostOK'
    BY <2>2 DEF GhostOK
  <2>7. CatalogIsReadable'
    BY <2>2 DEF CatalogIsReadable
  <2> QED
    BY <2>2, <2>3, <2>4, <2>5, <2>6, <2>7
<1>15. ASSUME RollbackTransaction
       PROVE  TypeInv'
  <2> USE <1>15 DEF RollbackTransaction
  <2>1. PoolOK'
    BY DropFramesOK
  <2>2. MemoryOK'
    <3>1. /\ pageCount \in Nat /\ transactionPages \in Nat
          /\ {pageCount, transactionPages} \in SUBSET (0 .. MaxPages)
      BY DEF MemoryOK
    <3>2. pageCount' \in 0 .. MaxPages
      BY <3>1, MinOfTwo DEF MemoryOK
    <3> QED
      BY <3>2 DEF MemoryOK
  <2>3. FlagsOK'
    BY DEF FlagsOK
  <2>4. FileOK' /\ LogOK' /\ GhostOK'
    BY DEF FileOK, LogOK, GhostOK
  <2>5. StepOK' /\ StepsAreInOrder'
    BY DEF StepOK, Phases, StepsAreInOrder, StartCheckpoint
  <2>6. CatalogIsReadable'
    BY DEF CatalogIsReadable, DropFrames
  <2> QED
    BY <2>1, <2>2, <2>3, <2>4, <2>5, <2>6
<1>16. ASSUME CloseDatabase
       PROVE  TypeInv'
  BY <1>16 DEF CloseDatabase, StartCheckpoint, PoolOK, MemoryOK, FlagsOK, FileOK,
     LogOK, StepOK, Phases, GhostOK, CatalogIsReadable, StepsAreInOrder
<1>17. ASSUME NEW p \in Page, FlushFrame(p)
       PROVE  TypeInv'
  <2> USE <1>17 DEF FlushFrame
  <2>1. PoolOK' /\ MemoryOK' /\ FlagsOK' /\ LogOK' /\ GhostOK'
    BY DEF PoolOK, MemoryOK, FlagsOK, LogOK, GhostOK
  <2>2. image[p] \in Content /\ (p = CatalogPage => image[p] \in SUBSET DataPage)
    BY DEF PoolOK, StepOK, CatalogIsReadable
  <2>3. FileOK'
    BY <2>2, WriteFilePageOK
  <2>4. StepOK' /\ StepsAreInOrder'
    BY DEF StepOK, StepsAreInOrder
  <2>5. CatalogIsReadable'
    <3>1. /\ filePages'[CatalogPage] \in (SUBSET DataPage) \cup {Torn}
          /\ diskPages'[CatalogPage] \subseteq (SUBSET DataPage) \cup {Torn}
      BY <2>2, WriteFilePageCatalog
    <3> QED
      BY <3>1 DEF CatalogIsReadable
  <2> QED
    BY <2>1, <2>3, <2>4, <2>5
<1>18. ASSUME WriteHeader
       PROVE  TypeInv'
  <2> USE <1>18 DEF WriteHeader
  <2>1. FileOK'
    BY WriteHeaderCountOK DEF MemoryOK
  <2> QED
    BY <2>1 DEF PoolOK, MemoryOK, FlagsOK, LogOK, StepOK, Phases, GhostOK,
       CatalogIsReadable, StepsAreInOrder
<1>19. ASSUME SyncFile
       PROVE  TypeInv'
  BY <1>19 DEF SyncFile, SyncHandle, PoolOK, MemoryOK, FlagsOK, FileOK, LogOK,
     StepOK, Phases, GhostOK, CatalogIsReadable, StepsAreInOrder
<1>20. ASSUME FailFlush
       PROVE  TypeInv'
  BY <1>20 DEF FailFlush, PoolOK, MemoryOK, FlagsOK, FileOK, LogOK,
     StepOK, Phases, GhostOK, CatalogIsReadable, StepsAreInOrder
<1>21. ASSUME TruncateLog
       PROVE  TypeInv'
  <2> USE <1>21 DEF TruncateLog
  <2>1. LogOK'
    BY RemoveLogOK DEF LogOK
  <2>2. CatalogIsReadable'
    BY EmptySeq DEF CatalogIsReadable, RemoveLog
  <2> QED
    BY <2>1, <2>2 DEF PoolOK, MemoryOK, FlagsOK, FileOK, StepOK, Phases, GhostOK,
       StepsAreInOrder
<1>22. ASSUME EndCheckpoint
       PROVE  TypeInv'
  <2> USE <1>22 DEF EndCheckpoint
  <2>1. PoolOK'
    BY DEF PoolOK, ForgetMemory
  <2>2. MemoryOK'
    BY DEF MemoryOK, ForgetMemory
  <2>3. FlagsOK'
    BY DEF FlagsOK, ForgetMemory
  <2>4. FileOK' /\ LogOK'
    BY DEF FileOK, LogOK
  <2>5. StepOK' /\ StepsAreInOrder'
    BY DEF StepOK, Phases, StepsAreInOrder
  <2>6. GhostOK'
    BY DEF GhostOK
  <2>7. CatalogIsReadable'
    BY DEF CatalogIsReadable, ForgetMemory
  <2> QED
    BY <2>1, <2>2, <2>3, <2>4, <2>5, <2>6, <2>7
<1>23. ASSUME FailTruncate
       PROVE  TypeInv'
  <2> USE <1>23 DEF FailTruncate
  <2>1. LogOK'
    BY RemoveLogOK
  <2>2. CatalogIsReadable'
    BY EmptySeq DEF CatalogIsReadable, RemoveLog
  <2>3. FlagsOK'
    BY DEF FlagsOK
  <2> QED
    BY <2>1, <2>2, <2>3 DEF PoolOK, MemoryOK, FileOK, StepOK, Phases, GhostOK,
       StepsAreInOrder
<1>24. ASSUME Crash
       PROVE  TypeInv'
  <2> USE <1>24 DEF Crash
  <2>1. PoolOK'
    BY DEF PoolOK, ForgetMemory
  <2>2. MemoryOK'
    BY DEF MemoryOK, ForgetMemory
  <2>3. FlagsOK'
    BY DEF FlagsOK, ForgetMemory
  <2>4. FileOK'
    <3>1. filePages' \in [Page -> UNION {diskPages[p] : p \in Page} \cup {Torn}]
      OBVIOUS
    <3>2. UNION {diskPages[p] : p \in Page} \subseteq Content
      BY DEF FileOK
    <3>3. filePages' \in [Page -> Content]
      BY <3>1, <3>2
    <3>4. fileCount' \in 0 .. MaxPages
      BY DEF FileOK
    <3> QED
      BY <3>3, <3>4 DEF FileOK
  <2>5. /\ log' \in Seq(Frame)
        /\ \A i \in 1 .. Len(log') :
             log'[i].page = CatalogPage => log'[i].image \in SUBSET DataPage
    <3>1. ASSUME NEW n \in synced .. Len(log), log' = SubSeq(log, 1, n)
          PROVE  /\ log' \in Seq(Frame)
                 /\ \A i \in 1 .. Len(log') :
                      log'[i].page = CatalogPage => log'[i].image \in SUBSET DataPage
      <4>1. n \in Nat /\ n <= Len(log) /\ (\A i \in 1 .. n : log[i] \in Frame)
        BY ElementOfSeq DEF LogOK
      <4>2. /\ log' \in Seq(Frame)
            /\ Len(log') = n
            /\ \A i \in 1 .. n : log'[i] = log[i]
        BY <3>1, <4>1, SubSeqProperties
      <4>3. ASSUME NEW i \in 1 .. Len(log'), log'[i].page = CatalogPage
            PROVE  log'[i].image \in SUBSET DataPage
        <5>1. i \in 1 .. Len(log) /\ log'[i] = log[i]
          BY <4>1, <4>2
        <5> QED
          BY <4>3, <5>1 DEF CatalogIsReadable
      <4> QED
        BY <4>2, <4>3
    <3>2. ASSUME log' = staleLog
          PROVE  /\ log' \in Seq(Frame)
                 /\ \A i \in 1 .. Len(log') :
                      log'[i].page = CatalogPage => log'[i].image \in SUBSET DataPage
      BY <3>2 DEF LogOK, CatalogIsReadable
    <3> QED
      BY <3>1, <3>2
  <2>6. LogOK'
    BY <2>5, EmptySeq DEF LogOK
  <2>7. StepOK' /\ StepsAreInOrder'
    BY DEF StepOK, Phases, StepsAreInOrder, ForgetMemory
  <2>8. GhostOK'
    <3>1. DOMAIN committed' \subseteq DataPage
      BY DEF GhostOK
    <3>2. crashes' \in 0 .. MaxCrashes
      BY BoundsAssumption DEF GhostOK
    <3> QED
      BY <3>1, <3>2 DEF GhostOK
  <2>9. CatalogIsReadable'
    <3>1. filePages'[CatalogPage] \in (SUBSET DataPage) \cup {Torn}
      BY DEF CatalogIsReadable
    <3>2. diskPages'[CatalogPage] = {filePages'[CatalogPage]}
      OBVIOUS
    <3>3. staleLog' = <<>> /\ resident' = {}
      BY DEF ForgetMemory
    <3> QED
      BY <3>1, <3>2, <3>3, <2>5, EmptySeq DEF CatalogIsReadable
  <2> QED
    BY <2>1, <2>2, <2>3, <2>4, <2>6, <2>7, <2>8, <2>9
<1>25. ASSUME Recover
       PROVE  TypeInv'
  <2> USE <1>25 DEF Recover
  <2>1. LogOK'
    BY RemoveLogOK DEF LogOK
  <2>2. CatalogIsReadable'
    BY EmptySeq DEF CatalogIsReadable, RemoveLog
  <2>3. StepOK' /\ StepsAreInOrder'
    BY DEF StepOK, Phases, StepsAreInOrder
  <2> QED
    BY <2>1, <2>2, <2>3 DEF PoolOK, MemoryOK, FlagsOK, FileOK, GhostOK
<1>26. ASSUME ReplayFrame
       PROVE  TypeInv'
  <2> USE <1>26 DEF ReplayFrame
  <2>1. LastGood(log) \in 0 .. Len(log) /\ Len(log) \in Nat
    BY LastGoodType DEF LogOK
  <2>2. position \in 1 .. Len(log)
    BY <2>1 DEF StepsAreInOrder, StepOK
  <2>3. log[position].page \in Page /\ log[position].image \in Content
    <3>1. log[position] \in Frame
      BY <2>2, ElementOfSeq DEF LogOK
    <3> HIDE <1>26
    <3> QED
      BY <3>1 DEF Frame
  <2>4. log[position].page = CatalogPage => log[position].image \in SUBSET DataPage
    BY <2>2 DEF CatalogIsReadable
  <2>5. FileOK'
    BY <2>3, WriteFilePageOK
  <2>6. CatalogIsReadable'
    <3>1. /\ filePages'[CatalogPage] \in (SUBSET DataPage) \cup {Torn}
          /\ diskPages'[CatalogPage] \subseteq (SUBSET DataPage) \cup {Torn}
      BY <2>3, <2>4, WriteFilePageCatalog
    <3> QED
      BY <3>1 DEF CatalogIsReadable
  <2>7. StepOK' /\ StepsAreInOrder'
    BY DEF StepOK, Phases, StepsAreInOrder
  <2> QED
    BY <2>5, <2>6, <2>7 DEF PoolOK, MemoryOK, FlagsOK, LogOK, GhostOK
<1>27. ASSUME ReplayHeader
       PROVE  TypeInv'
  <2> USE <1>27 DEF ReplayHeader
  <2>1. LastGood(log) \in 1 .. Len(log)
    BY LastGoodType DEF LogOK, StepsAreInOrder
  <2>2. log[LastGood(log)].pageCount \in 0 .. MaxPages
    <3>1. log[LastGood(log)] \in Frame
      BY <2>1, ElementOfSeq DEF LogOK
    <3> HIDE <1>27
    <3> QED
      BY <3>1 DEF Frame
  <2>3. FileOK'
    BY <2>2, WriteHeaderCountOK
  <2> QED
    BY <2>3 DEF PoolOK, MemoryOK, FlagsOK, LogOK, StepOK, Phases, GhostOK,
       CatalogIsReadable, StepsAreInOrder
<1>28. ASSUME FinishRecovery
       PROVE  TypeInv'
  <2> USE <1>28 DEF FinishRecovery
  <2>1. LogOK'
    BY RemoveLogOK
  <2>2. CatalogIsReadable'
    BY EmptySeq DEF CatalogIsReadable, RemoveLog, SyncHandle
  <2> QED
    BY <2>1, <2>2 DEF SyncHandle, PoolOK, MemoryOK, FlagsOK, FileOK, StepOK, Phases,
       GhostOK, StepsAreInOrder
<1>29. ASSUME LoadDatabase
       PROVE  TypeInv'
  <2> USE <1>29 DEF LoadDatabase
  <2>1. filePages[CatalogPage] \in SUBSET DataPage
    BY DEF CatalogIsReadable
  <2>2. PoolOK'
    BY DEF PoolOK, FileOK
  <2>3. MemoryOK'
    BY <2>1 DEF MemoryOK, FileOK
  <2>4. FlagsOK'
    BY DEF FlagsOK
  <2>5. FileOK' /\ LogOK'
    BY DEF FileOK, LogOK
  <2>6. StepOK' /\ StepsAreInOrder'
    BY DEF StepOK, Phases, StepsAreInOrder
  <2>7. GhostOK'
    BY DEF GhostOK
  <2>8. CatalogIsReadable'
    BY <2>1 DEF CatalogIsReadable
  <2> QED
    BY <2>2, <2>3, <2>4, <2>5, <2>6, <2>7, <2>8
<1>30. ASSUME RefuseDatabase
       PROVE  TypeInv'
  <2> USE <1>30 DEF RefuseDatabase
  <2>1. PoolOK'
    BY DEF PoolOK, ForgetMemory
  <2>2. MemoryOK' /\ FileOK' /\ LogOK' /\ GhostOK'
    BY DEF MemoryOK, ForgetMemory, FileOK, LogOK, GhostOK
  <2>3. FlagsOK'
    BY DEF FlagsOK, ForgetMemory
  <2>4. StepOK' /\ StepsAreInOrder'
    BY DEF StepOK, Phases, StepsAreInOrder
  <2>5. CatalogIsReadable'
    BY DEF CatalogIsReadable, ForgetMemory
  <2> QED
    BY <2>1, <2>2, <2>3, <2>4, <2>5
<1>31. CASE UNCHANGED vars
  BY <1>31 DEF vars, PoolOK, MemoryOK, FlagsOK, FileOK, LogOK, StepOK, GhostOK,
     CatalogIsReadable, StepsAreInOrder
<1> QED
  <2> HIDE DEF TypeInv
  <2> QED
    BY <1>1, <1>2, <1>3, <1>4, <1>5, <1>6, <1>7, <1>8, <1>9, <1>10, <1>11, <1>12,
       <1>13, <1>14, <1>15, <1>16, <1>17, <1>18, <1>19, <1>20, <1>21, <1>22, <1>23,
       <1>24, <1>25, <1>26, <1>27, <1>28, <1>29, <1>30, <1>31 DEF Next, Progress

\* Every variable keeps its type, a page is logged only while it is dirty and
\* dirty only while it is resident, and a commit or a checkpoint only ever has
\* dirty pages left to write.
THEOREM TypeCorrect == Spec => []TypeOK
<1>1. Spec => []TypeInv
  BY InitTypeInv, NextTypeInv, PTL DEF Spec
<1>2. TypeInv => TypeOK
  BY DEF TypeInv
<1> QED
  BY <1>1, <1>2, PTL
-----------------------------------------------------------------------------
(* Clean frames. *)

\* A stopped engine has no frames, so a replay has none to contradict.
StoppedIsEmpty == phase \in {"down", "replay", "recovered"} => resident = {}

CleanInv == CleanMatchesFile /\ StoppedIsEmpty

LEMMA NextCleanInv == TypeInv /\ CleanInv /\ [Next]_vars => CleanInv'
<1> SUFFICES ASSUME TypeInv, CleanInv, [Next]_vars PROVE CleanInv'
  OBVIOUS
<1> USE PageFacts DEF CleanInv, CleanMatchesFile, StoppedIsEmpty
<1> USE DEF poolVars, memoryVars, txVars, fileVars, logVars, openVars, stepVars,
            ghostVars, counterVars
<1>0. /\ image \in [Page -> Content] /\ filePages \in [Page -> Content]
      /\ resident \subseteq Page /\ dirty \subseteq resident
      /\ todo \subseteq dirty
  BY DEF TypeInv, TypeOK, PoolOK, FileOK, StepOK
<1>1. ASSUME UNCHANGED <<resident, image, dirty, filePages>>,
             phase' \in {"down", "replay", "recovered"}
               => phase \in {"down", "replay", "recovered"}
      PROVE  CleanInv'
  BY <1>1
<1>2. ASSUME NEW p \in Page, NEW c, DirtyFrame(p, c), UNCHANGED filePages,
             phase \notin {"down", "replay", "recovered"},
             phase' \notin {"down", "replay", "recovered"}
      PROVE  CleanInv'
  BY <1>0, <1>2 DEF DirtyFrame
<1>3. ASSUME NEW ps, DropFrames(ps), UNCHANGED filePages,
             phase' \notin {"down", "replay", "recovered"}
      PROVE  CleanInv'
  BY <1>0, <1>3 DEF DropFrames
<1>4. ASSUME resident' = {}
      PROVE  CleanInv'
  BY <1>4
<1>5. ASSUME NEW kind \in {"rows", "schema"}, StartStatement(kind)
      PROVE  CleanInv'
  BY <1>1, <1>5 DEF StartStatement
<1>6. ASSUME NEW p \in DataPage, NEW v \in Value, WritePage(p, v)
      PROVE  CleanInv'
  BY <1>2, <1>6 DEF WritePage, Executing
<1>7. ASSUME NEW p \in DataPage, AllocatePage(p)
      PROVE  CleanInv'
  BY <1>2, <1>7 DEF AllocatePage, Executing
<1>8. ASSUME NEW p \in DataPage, FreePage(p)
      PROVE  CleanInv'
  BY <1>3, <1>8 DEF FreePage
<1>9. ASSUME FinishStatement
      PROVE  CleanInv'
  BY <1>1, <1>2, <1>9 DEF FinishStatement, CommitDatabase, Executing
<1>10. ASSUME NEW p \in Page, AppendFrame(p)
       PROVE  CleanInv'
  BY <1>1, <1>10 DEF AppendFrame
<1>11. ASSUME NEW p \in Page, EvictPage(p)
       PROVE  CleanInv'
  <2> USE <1>11 DEF EvictPage
  <2>1. phase' \notin {"down", "replay", "recovered"}
    BY DEF Executing
  <2>2. ASSUME NEW q \in resident' \ dirty'
        PROVE  image'[q] = filePages'[q]
    <3>1. q \in resident \ dirty /\ q # p
      BY DEF DropFrames
    <3>2. image'[q] = image[q]
      BY <1>0, <3>1 DEF DropFrames
    <3>3. filePages'[q] = filePages[q]
      BY <1>0, <3>1 DEF WriteFilePage
    <3> QED
      BY <3>1, <3>2, <3>3
  <2> QED
    BY <2>1, <2>2
<1>12. ASSUME NEW p \in Page, FaultPage(p)
       PROVE  CleanInv'
  BY <1>0, <1>12 DEF FaultPage, Executing
<1>13. ASSUME CommitTransaction
       PROVE  CleanInv'
  BY <1>1, <1>2, <1>13 DEF CommitTransaction, CommitDatabase
<1>14. ASSUME RollbackTransaction
       PROVE  CleanInv'
  BY <1>3, <1>14 DEF RollbackTransaction, StartCheckpoint
<1>15. ASSUME NEW p \in Page, FlushFrame(p)
       PROVE  CleanInv'
  BY <1>0, <1>15 DEF FlushFrame, WriteFilePage
<1>16. ASSUME EndCheckpoint
       PROVE  CleanInv'
  BY <1>1, <1>4, <1>16 DEF EndCheckpoint, ForgetMemory
<1>17. ASSUME Crash \/ RefuseDatabase
       PROVE  CleanInv'
  BY <1>4, <1>17 DEF Crash, RefuseDatabase, ForgetMemory
<1>18. ASSUME ReplayFrame
       PROVE  CleanInv'
  BY <1>4, <1>18 DEF ReplayFrame
<1>19. ASSUME LoadDatabase
       PROVE  CleanInv'
  BY <1>0, <1>19 DEF LoadDatabase
<1>20. ASSUME NEW p \in Page, FailAppend(p)
       PROVE  CleanInv'
  BY <1>1, <1>20 DEF FailAppend
<1>21. ASSUME FailStatement \/ FailSync \/ SyncLog \/ BeginTransaction \/ CloseDatabase
       PROVE  CleanInv'
  BY <1>1, <1>21 DEF FailStatement, Executing, FailSync, SyncLog, BeginTransaction,
     CloseDatabase, StartCheckpoint
<1>22. ASSUME WriteHeader \/ SyncFile \/ FailFlush \/ TruncateLog \/ FailTruncate
       PROVE  CleanInv'
  BY <1>1, <1>22 DEF WriteHeader, SyncFile, FailFlush, TruncateLog, FailTruncate
<1>23. ASSUME Recover \/ ReplayHeader \/ FinishRecovery
       PROVE  CleanInv'
  BY <1>1, <1>23 DEF Recover, ReplayHeader, FinishRecovery
<1>24. CASE UNCHANGED vars
  BY <1>1, <1>24 DEF vars
<1> QED
  <2> HIDE DEF CleanInv
  <2> QED
    BY <1>5, <1>6, <1>7, <1>8, <1>9, <1>10, <1>11, <1>12, <1>13, <1>14, <1>15, <1>16,
       <1>17, <1>18, <1>19, <1>20, <1>21, <1>22, <1>23, <1>24 DEF Next, Progress

\* Whatever fails and whenever it stops, a frame the pool takes for clean holds
\* what the file holds: acquireFrame may drop it without writing it.
THEOREM CleanFramesMatch == Spec => []CleanMatchesFile
<1>1. Init => CleanInv
  BY DEF Init, CleanInv, CleanMatchesFile, StoppedIsEmpty
<1>2. Spec => [](TypeInv /\ CleanInv)
  BY <1>1, InitTypeInv, NextTypeInv, NextCleanInv, PTL DEF Spec
<1> QED
  BY <1>2, PTL DEF CleanInv

-----------------------------------------------------------------------------
(* Transactions. *)

\* Nothing a transaction leaves in the pool may move: at BEGIN the checkpoint
\* has flushed every page the log held, so no page of the pool is logged.
TransactionInv ==
    /\ transactionOpen => /\ phase \in {"idle", "rows", "schema"}
                          /\ logged = {} \/ ~writable
    /\ purpose = "begin" /\ phase = "flush" => todo = dirty
    /\ purpose = "begin" /\ phase \in {"fsync", "truncate", "checkpointed"}
         => dirty = {} \/ ~writable

LEMMA NextTransactionInv ==
    TypeInv /\ TransactionInv /\ [Next]_vars => TransactionInv'
<1> SUFFICES ASSUME TypeInv, TransactionInv, [Next]_vars PROVE TransactionInv'
  OBVIOUS
<1> USE DEF TransactionInv
<1> USE DEF poolVars, memoryVars, txVars, fileVars, logVars, openVars, stepVars,
            ghostVars, counterVars
<1>0. /\ todo \subseteq dirty /\ logged \subseteq dirty
      /\ transactionOpen \in BOOLEAN /\ writable \in BOOLEAN
  BY DEF TypeInv, TypeOK, PoolOK, FlagsOK, StepOK
<1>1. ASSUME NEW kind \in {"rows", "schema"}, StartStatement(kind)
      PROVE  TransactionInv'
  BY <1>1 DEF StartStatement
<1>2. ASSUME NEW p \in DataPage, NEW v \in Value, WritePage(p, v)
      PROVE  TransactionInv'
  BY <1>2 DEF WritePage, DirtyFrame, Executing
<1>3. ASSUME NEW p \in DataPage, AllocatePage(p)
      PROVE  TransactionInv'
  BY <1>3 DEF AllocatePage, DirtyFrame, Executing
<1>4. ASSUME NEW p \in DataPage, FreePage(p)
      PROVE  TransactionInv'
  BY <1>4 DEF FreePage, DropFrames
<1>5. ASSUME FinishStatement
      PROVE  TransactionInv'
  BY <1>5 DEF FinishStatement, CommitDatabase, DirtyFrame, Executing
<1>6. ASSUME NEW p \in Page, EvictPage(p)
      PROVE  TransactionInv'
  BY <1>6 DEF EvictPage, DropFrames, Executing
<1>7. ASSUME NEW p \in Page, FaultPage(p)
      PROVE  TransactionInv'
  BY <1>7 DEF FaultPage, Executing
<1>8. ASSUME BeginTransaction
      PROVE  TransactionInv'
  BY <1>8 DEF BeginTransaction, StartCheckpoint
<1>9. ASSUME CommitTransaction
      PROVE  TransactionInv'
  BY <1>9 DEF CommitTransaction, CommitDatabase, DirtyFrame
<1>10. ASSUME RollbackTransaction
       PROVE  TransactionInv'
  BY <1>10 DEF RollbackTransaction, StartCheckpoint
<1>11. ASSUME NEW p \in Page, FlushFrame(p)
       PROVE  TransactionInv'
  BY <1>11 DEF FlushFrame
<1>12. ASSUME WriteHeader
       PROVE  TransactionInv'
  BY <1>12 DEF WriteHeader
<1>13. ASSUME EndCheckpoint
       PROVE  TransactionInv'
  BY <1>0, <1>13 DEF EndCheckpoint, ForgetMemory
<1>14. ASSUME NEW p \in Page, AppendFrame(p) \/ FailAppend(p)
       PROVE  TransactionInv'
  BY <1>14 DEF AppendFrame, FailAppend
<1>15. ASSUME FailStatement \/ FailSync \/ SyncLog \/ CloseDatabase
       PROVE  TransactionInv'
  BY <1>15 DEF FailStatement, Executing, FailSync, SyncLog, CloseDatabase,
     StartCheckpoint
<1>16. ASSUME SyncFile \/ FailFlush \/ TruncateLog \/ FailTruncate
       PROVE  TransactionInv'
  BY <1>16 DEF SyncFile, FailFlush, TruncateLog, FailTruncate
<1>17. ASSUME Crash \/ RefuseDatabase
       PROVE  TransactionInv'
  BY <1>17 DEF Crash, RefuseDatabase, ForgetMemory
<1>18. ASSUME Recover \/ ReplayFrame \/ ReplayHeader \/ FinishRecovery \/ LoadDatabase
       PROVE  TransactionInv'
  BY <1>18 DEF Recover, ReplayFrame, ReplayHeader, FinishRecovery, LoadDatabase
<1>19. CASE UNCHANGED vars
  BY <1>19 DEF vars
<1> QED
  <2> HIDE DEF TransactionInv
  <2> QED
    BY <1>1, <1>2, <1>3, <1>4, <1>5, <1>6, <1>7, <1>8, <1>9, <1>10, <1>11, <1>12,
       <1>13, <1>14, <1>15, <1>16, <1>17, <1>18, <1>19 DEF Next, Progress

LEMMA InitTransactionInv == Init => TransactionInv
BY DEF Init, TransactionInv

\* Whatever fails, no step between BEGIN and the end of the transaction changes
\* the database file, so that dropping the dirty pages and reading it again is
\* a rollback.
THEOREM FileIsKept == Spec => FileIsBeforeImage
<1> USE DEF poolVars, memoryVars, txVars, fileVars, logVars, openVars, stepVars,
            ghostVars, counterVars
<1>1. ASSUME TransactionInv, [Next]_vars, transactionOpen, transactionOpen'
      PROVE  UNCHANGED <<filePages, fileCount>>
  <2>1. phase \in {"idle", "rows", "schema"} /\ (logged = {} \/ ~writable)
    BY <1>1 DEF TransactionInv
  <2>2. ASSUME NEW p \in Page, EvictPage(p)
        PROVE  UNCHANGED <<filePages, fileCount>>
    BY <2>1, <2>2 DEF EvictPage
  <2>3. ASSUME NEW p \in Page, AppendFrame(p) \/ FlushFrame(p) \/ FailAppend(p)
        PROVE  FALSE
    BY <2>1, <2>3 DEF AppendFrame, FlushFrame, FailAppend
  <2>4. ASSUME \/ SyncLog \/ WriteHeader \/ SyncFile \/ TruncateLog \/ EndCheckpoint
               \/ Recover \/ ReplayFrame \/ ReplayHeader \/ FinishRecovery
               \/ LoadDatabase \/ RefuseDatabase
        PROVE  FALSE
    BY <2>1, <2>4 DEF SyncLog, WriteHeader, SyncFile, TruncateLog, EndCheckpoint,
       Recover, ReplayFrame, ReplayHeader, FinishRecovery, LoadDatabase,
       RefuseDatabase
  <2>5. ASSUME NEW kind, StartStatement(kind)
        PROVE  UNCHANGED <<filePages, fileCount>>
    BY <2>5 DEF StartStatement
  <2>6. ASSUME NEW p, NEW v, WritePage(p, v)
        PROVE  UNCHANGED <<filePages, fileCount>>
    BY <2>6 DEF WritePage
  <2>7. ASSUME NEW p, AllocatePage(p) \/ FreePage(p) \/ FaultPage(p)
        PROVE  UNCHANGED <<filePages, fileCount>>
    BY <2>7 DEF AllocatePage, FreePage, FaultPage
  <2>8. ASSUME \/ FinishStatement \/ FailStatement \/ FailSync \/ FailFlush
               \/ FailTruncate \/ BeginTransaction \/ CommitTransaction
               \/ RollbackTransaction \/ CloseDatabase
        PROVE  UNCHANGED <<filePages, fileCount>>
    BY <2>8 DEF FinishStatement, FailStatement, FailSync, FailFlush, FailTruncate,
       BeginTransaction, CommitTransaction, RollbackTransaction, CloseDatabase
  <2>9. ~Crash
    BY <1>1 DEF Crash, ForgetMemory
  <2>10. CASE UNCHANGED vars
    BY <2>10 DEF vars
  <2> QED
    BY <1>1, <2>2, <2>3, <2>4, <2>5, <2>6, <2>7, <2>8, <2>9, <2>10 DEF Next, Progress
<1>2. Spec => [](TypeInv /\ TransactionInv)
  BY InitTypeInv, NextTypeInv, InitTransactionInv, NextTransactionInv, PTL DEF Spec
<1>3. TransactionInv /\ [Next]_vars
        => [transactionOpen /\ transactionOpen' => UNCHANGED <<filePages, fileCount>>]_vars
  BY <1>1
<1> QED
  BY <1>2, <1>3, PTL DEF Spec, FileIsBeforeImage
-----------------------------------------------------------------------------
(* The write-ahead rule, when statements, appends and truncations work. *)

\* Between statements every dirty page is logged, and so is every page a
\* checkpoint flushes; the session never loses its log.
LoggedInv ==
    /\ phase = "idle" /\ ~transactionOpen => dirty \subseteq logged
    /\ phase \in {"flush", "fsync", "truncate", "checkpointed"}
         => IF purpose = "rollback" THEN todo = {} ELSE dirty \subseteq logged
    /\ phase \in {"replay", "recovered"} => purpose = "start"
    /\ phase = "load" => walIsOpen \/ purpose = "start"
    /\ phase \notin {"down", "replay", "recovered", "load", "refused"} => walIsOpen

LEMMA NextLoggedInv ==
    ASSUME Faults \cap {"statement", "append", "truncate"} = {}
    PROVE  TypeInv /\ TransactionInv /\ LoggedInv /\ [Next]_vars => LoggedInv'
<1> SUFFICES ASSUME TypeInv, TransactionInv, LoggedInv, [Next]_vars PROVE LoggedInv'
  OBVIOUS
<1> USE DEF LoggedInv
<1> USE DEF poolVars, memoryVars, txVars, fileVars, logVars, openVars, stepVars,
            ghostVars, counterVars
<1>0. /\ todo \subseteq dirty /\ logged \subseteq dirty
      /\ transactionOpen \in BOOLEAN /\ walIsOpen \in BOOLEAN
      /\ purpose \in {"none", "begin", "rollback", "close", "start"}
  BY DEF TypeInv, TypeOK, PoolOK, FlagsOK, StepOK
<1>1. ASSUME NEW kind \in {"rows", "schema"}, StartStatement(kind)
      PROVE  LoggedInv'
  BY <1>1 DEF StartStatement
<1>2. ASSUME NEW p \in DataPage, NEW v \in Value, WritePage(p, v)
      PROVE  LoggedInv'
  BY <1>2 DEF WritePage, Executing
<1>3. ASSUME NEW p \in DataPage, AllocatePage(p) \/ FreePage(p)
      PROVE  LoggedInv'
  BY <1>3 DEF AllocatePage, FreePage, Executing
<1>4. ASSUME FinishStatement
      PROVE  LoggedInv'
  BY <1>4 DEF FinishStatement, CommitDatabase, Executing
<1>5. ASSUME NEW p \in Page, EvictPage(p)
      PROVE  LoggedInv'
  BY <1>5 DEF EvictPage, DropFrames, Executing
<1>6. ASSUME NEW p \in Page, FaultPage(p)
      PROVE  LoggedInv'
  BY <1>6 DEF FaultPage, Executing
<1>7. ASSUME BeginTransaction \/ CloseDatabase
      PROVE  LoggedInv'
  BY <1>7 DEF BeginTransaction, CloseDatabase, StartCheckpoint
<1>8. ASSUME CommitTransaction
      PROVE  LoggedInv'
  BY <1>8 DEF CommitTransaction, CommitDatabase
<1>9. ASSUME RollbackTransaction
      PROVE  LoggedInv'
  BY <1>9 DEF RollbackTransaction, StartCheckpoint
<1>10. ASSUME NEW p \in Page, AppendFrame(p)
       PROVE  LoggedInv'
  BY <1>10 DEF AppendFrame
<1>11. ASSUME SyncLog
       PROVE  LoggedInv'
  BY <1>11 DEF SyncLog
<1>12. ASSUME NEW p \in Page, FlushFrame(p)
       PROVE  LoggedInv'
  BY <1>12 DEF FlushFrame
<1>13. ASSUME WriteHeader \/ SyncFile \/ TruncateLog
       PROVE  LoggedInv'
  BY <1>13 DEF WriteHeader, SyncFile, TruncateLog
<1>14. ASSUME FailFlush
       PROVE  LoggedInv'
  BY <1>0, <1>14 DEF FailFlush
<1>15. ASSUME EndCheckpoint
       PROVE  LoggedInv'
  <2> USE <1>15 DEF EndCheckpoint
  <2>1. CASE purpose = "begin"
    BY <2>1
  <2>2. CASE purpose = "rollback"
    BY <2>2
  <2>3. CASE purpose = "close"
    BY <2>3
  <2> QED
    BY <2>1, <2>2, <2>3
<1>16. ASSUME Crash \/ RefuseDatabase
       PROVE  LoggedInv'
  BY <1>16 DEF Crash, RefuseDatabase
<1>17. ASSUME Recover \/ ReplayFrame \/ ReplayHeader \/ FinishRecovery
       PROVE  LoggedInv'
  BY <1>17 DEF Recover, ReplayFrame, ReplayHeader, FinishRecovery
<1>18. ASSUME LoadDatabase
       PROVE  LoggedInv'
  BY <1>18 DEF LoadDatabase
<1>19. ~FailStatement /\ ~FailSync /\ ~FailTruncate /\ (\A p \in Page : ~FailAppend(p))
  BY DEF FailStatement, FailSync, FailTruncate, FailAppend
<1>20. CASE UNCHANGED vars
  BY <1>20 DEF vars
<1> QED
  <2> HIDE DEF LoggedInv
  <2> QED
    BY <1>1, <1>2, <1>3, <1>4, <1>5, <1>6, <1>7, <1>8, <1>9, <1>10, <1>11, <1>12,
       <1>13, <1>14, <1>15, <1>16, <1>17, <1>18, <1>19, <1>20 DEF Next, Progress

\* When no statement fails half way, no append fails and the log can always be
\* created again, a running session overwrites a page of the database file only
\* with what a synced commit has put in the log.  Failing flushes do no harm.
THEOREM LogComesFirst ==
    ASSUME Faults \cap {"statement", "append", "truncate"} = {}
    PROVE  Spec => LogBeforeFile
<1> USE DEF poolVars, memoryVars, txVars, fileVars, logVars, openVars, stepVars,
            ghostVars, counterVars
<1> DEFINE FromTheLog == \A p \in Page : filePages'[p] # filePages[p]
                            => Stopped \/ phase' = "down" \/ p \in logged
<1>1. ASSUME TypeInv, LoggedInv, [Next]_vars
      PROVE  FromTheLog
  <2>1. ASSUME NEW p \in Page, EvictPage(p)
        PROVE  FromTheLog
    BY <1>1, <2>1 DEF EvictPage, WriteFilePage, TypeInv, TypeOK, FileOK
  <2>2. ASSUME NEW p \in Page, FlushFrame(p)
        PROVE  FromTheLog
    <3>1. p \in logged
      BY <1>1, <2>2 DEF FlushFrame, LoggedInv, TypeInv, TypeOK, StepOK
    <3> QED
      BY <1>1, <2>2, <3>1 DEF FlushFrame, WriteFilePage, TypeInv, TypeOK, FileOK
  <2>3. ASSUME ReplayFrame \/ Crash
        PROVE  FromTheLog
    BY <2>3 DEF ReplayFrame, Crash, Stopped
  <2>4. ASSUME UNCHANGED filePages
        PROVE  FromTheLog
    BY <2>4
  <2>5. ASSUME NEW kind, StartStatement(kind)
        PROVE  UNCHANGED filePages
    BY <2>5 DEF StartStatement
  <2>6. ASSUME NEW p, NEW v, WritePage(p, v)
        PROVE  UNCHANGED filePages
    BY <2>6 DEF WritePage
  <2>7. ASSUME NEW p, \/ AllocatePage(p) \/ FreePage(p) \/ FaultPage(p)
                      \/ AppendFrame(p) \/ FailAppend(p)
        PROVE  UNCHANGED filePages
    BY <2>7 DEF AllocatePage, FreePage, FaultPage, AppendFrame, FailAppend
  <2>8. ASSUME \/ FinishStatement \/ FailStatement \/ FailSync \/ FailFlush
               \/ FailTruncate \/ BeginTransaction \/ CommitTransaction
               \/ RollbackTransaction \/ CloseDatabase \/ SyncLog
        PROVE  UNCHANGED filePages
    BY <2>8 DEF FinishStatement, FailStatement, FailSync, FailFlush, FailTruncate,
       BeginTransaction, CommitTransaction, RollbackTransaction, CloseDatabase, SyncLog
  <2>9. ASSUME \/ WriteHeader \/ SyncFile \/ TruncateLog \/ EndCheckpoint
               \/ Recover \/ ReplayHeader \/ FinishRecovery
               \/ LoadDatabase \/ RefuseDatabase \/ UNCHANGED vars
        PROVE  UNCHANGED filePages
    BY <2>9 DEF WriteHeader, SyncFile, TruncateLog, EndCheckpoint, Recover,
       ReplayHeader, FinishRecovery, LoadDatabase, RefuseDatabase, vars
  <2> HIDE DEF FromTheLog
  <2> QED
    BY <1>1, <2>1, <2>2, <2>3, <2>4, <2>5, <2>6, <2>7, <2>8, <2>9 DEF Next, Progress
<1>2. Init => LoggedInv
  BY DEF Init, LoggedInv
<1>3. Spec => [](TypeInv /\ TransactionInv /\ LoggedInv)
  BY <1>2, InitTypeInv, NextTypeInv, InitTransactionInv, NextTransactionInv,
     NextLoggedInv, PTL DEF Spec
<1>4. TypeInv /\ LoggedInv /\ [Next]_vars => [FromTheLog]_vars
  BY <1>1
<1> QED
  BY <1>3, <1>4, PTL DEF Spec, LogBeforeFile

-----------------------------------------------------------------------------
(***************************************************************************)
(* Why nothing that was committed is lost, and why a session reads what it *)
(* wrote: the write-ahead rule and the refinement of AtomicStore, for every *)
(* number of pages, statements and crashes, a crash during recovery        *)
(* included.  Statements, appends and truncations are taken to work, for   *)
(* without them neither holds; flushes of the database file may fail.      *)
(***************************************************************************)

-----------------------------------------------------------------------------
(* What the first n frames of a log, and what is left of a database file,  *)
(* make of a page.  These are operators of their arguments alone: a step   *)
(* of the pager is reasoned about by what it does to the arguments.        *)

\* The last of the frames that is of the page, if there is one, holds c.
LogHolds(frames, n, p, c) ==
    \E i \in 1 .. n :
        /\ frames[i].page = p
        /\ frames[i].image = c
        /\ \A j \in i + 1 .. n : frames[j].page # p

InLog(frames, n, p) == \E i \in 1 .. n : frames[i].page = p

\* After a crash and a recovery the page is c for certain.
Replays(frames, n, disk, p, c) ==
    \/ LogHolds(frames, n, p, c)
    \/ ~InLog(frames, n, p) /\ disk[p] = {c}

\* The page count recovery finds is beyond every page of the database.
CountCovers(frames, n, counts, db) ==
    \A p \in DOMAIN db :
        IF n = 0 THEN \A m \in counts : p < m
                 ELSE p < frames[n].pageCount

\* A database of data pages, and the catalog page that goes with it.
PagesOf(db) == DOMAIN db \cup {CatalogPage}
ContentOf(db, p) == IF p = CatalogPage THEN DOMAIN db ELSE db[p]

Rebuilds(frames, n, disk, counts, db) ==
    /\ \A p \in PagesOf(db) : Replays(frames, n, disk, p, ContentOf(db, p))
    /\ CountCovers(frames, n, counts, db)

\* A page's last frame is one frame.
LEMMA ReplaysOnce ==
    ASSUME NEW frames, NEW n \in Nat, NEW disk, NEW p, NEW c, NEW d,
           Replays(frames, n, disk, p, c), Replays(frames, n, disk, p, d)
    PROVE  c = d
<1>1. ASSUME LogHolds(frames, n, p, c), LogHolds(frames, n, p, d)
      PROVE  c = d
  <2>1. PICK i \in 1 .. n : /\ frames[i].page = p
                            /\ frames[i].image = c
                            /\ \A j \in i + 1 .. n : frames[j].page # p
    BY <1>1 DEF LogHolds
  <2>2. PICK k \in 1 .. n : /\ frames[k].page = p
                            /\ frames[k].image = d
                            /\ \A j \in k + 1 .. n : frames[j].page # p
    BY <1>1 DEF LogHolds
  <2>3. ~(i < k) /\ ~(k < i)
    BY <2>1, <2>2
  <2> QED
    BY <2>1, <2>2, <2>3
<1>2. LogHolds(frames, n, p, c) \/ LogHolds(frames, n, p, d) => InLog(frames, n, p)
  BY DEF LogHolds, InLog
<1> QED
  BY <1>1, <1>2 DEF Replays

\* Where the frames of a page after the m-th all hold c, and there is one, the
\* last frame of the page holds c.
LEMMA LatestFrames ==
    ASSUME NEW frames, NEW n \in Nat, NEW m \in 0 .. n, NEW p, NEW c,
           \E i \in m + 1 .. n : frames[i].page = p,
           \A i \in m + 1 .. n : frames[i].page = p => frames[i].image = c
    PROVE  LogHolds(frames, n, p, c)
<1> DEFINE S == {i \in m + 1 .. n : frames[i].page = p}
<1>1. S \in SUBSET (0 .. n) /\ S # {}
  OBVIOUS
<1>2. Max(S) \in S /\ \A y \in S : y <= Max(S)
  BY <1>1, MaxIsLargest
<1>3. PICK k \in S : \A y \in S : y <= k
  BY <1>2
<1>4. \A j \in k + 1 .. n : frames[j].page # p
  BY <1>3
<1> QED
  BY <1>3, <1>4 DEF LogHolds

\* Only the first n frames matter.
LEMMA SameFrames ==
    ASSUME NEW f, NEW g, NEW n \in Nat, \A i \in 1 .. n : f[i] = g[i]
    PROVE  /\ \A p, c : LogHolds(f, n, p, c) <=> LogHolds(g, n, p, c)
           /\ \A p : InLog(f, n, p) <=> InLog(g, n, p)
           /\ \A disk, p, c : Replays(f, n, disk, p, c) <=> Replays(g, n, disk, p, c)
           /\ \A disk, counts, db : Rebuilds(f, n, disk, counts, db)
                                      <=> Rebuilds(g, n, disk, counts, db)
<1>1. ASSUME NEW p, NEW c
      PROVE  LogHolds(f, n, p, c) <=> LogHolds(g, n, p, c)
  BY DEF LogHolds
<1>2. ASSUME NEW p
      PROVE  InLog(f, n, p) <=> InLog(g, n, p)
  BY DEF InLog
<1>3. ASSUME NEW disk, NEW p, NEW c
      PROVE  Replays(f, n, disk, p, c) <=> Replays(g, n, disk, p, c)
  BY <1>1, <1>2 DEF Replays
<1>4. ASSUME NEW counts, NEW db
      PROVE  CountCovers(f, n, counts, db) <=> CountCovers(g, n, counts, db)
  <2>1. n = 0 \/ f[n] = g[n]
    OBVIOUS
  <2> QED
    BY <2>1 DEF CountCovers
<1> QED
  BY <1>1, <1>2, <1>3, <1>4 DEF Rebuilds

\* What is written in place does not matter where the log has a frame, nor a
\* page count where the log has any.
LEMMA WritesUnderTheLog ==
    ASSUME NEW frames, NEW n, NEW db,
           NEW disk, NEW disk2, NEW counts, NEW counts2,
           \A p \in PagesOf(db) : disk2[p] = disk[p] \/ InLog(frames, n, p),
           n # 0 \/ \A p \in DOMAIN db : \A m \in counts2 : m \in counts \/ p < m,
           Rebuilds(frames, n, disk, counts, db)
    PROVE  Rebuilds(frames, n, disk2, counts2, db)
<1>1. ASSUME NEW p \in PagesOf(db)
      PROVE  Replays(frames, n, disk2, p, ContentOf(db, p))
  BY DEF Rebuilds, Replays
<1>2. CountCovers(frames, n, counts2, db)
  BY DEF Rebuilds, CountCovers
<1> QED
  BY <1>1, <1>2 DEF Rebuilds

\* Neither a sync nor a crash changes a page there is one version of.
LEMMA SyncKeeps ==
    ASSUME NEW frames, NEW n, NEW db, NEW disk, NEW disk2, NEW counts, NEW counts2,
           \A p \in PagesOf(db) : \A c : disk[p] = {c} => disk2[p] = {c},
           counts2 \subseteq counts,
           Rebuilds(frames, n, disk, counts, db)
    PROVE  Rebuilds(frames, n, disk2, counts2, db)
<1>1. ASSUME NEW p \in PagesOf(db)
      PROVE  Replays(frames, n, disk2, p, ContentOf(db, p))
  BY DEF Rebuilds, Replays
<1>2. CountCovers(frames, n, counts2, db)
  BY DEF Rebuilds, CountCovers
<1> QED
  BY <1>1, <1>2 DEF Rebuilds

\* With no frame the file is all there is.
LEMMA NoFrames ==
    ASSUME NEW frames, NEW disk, NEW counts, NEW db
    PROVE  Rebuilds(frames, 0, disk, counts, db) <=>
             /\ \A p \in PagesOf(db) : disk[p] = {ContentOf(db, p)}
             /\ \A p \in DOMAIN db : \A m \in counts : p < m
<1>1. \A p, c : ~LogHolds(frames, 0, p, c) /\ ~InLog(frames, 0, p)
  BY DEF LogHolds, InLog
<1> QED
  BY <1>1 DEF Rebuilds, Replays, CountCovers

\* The last commit marker of a log of whole frames is where recovery stops.
LEMMA LastGoodIs ==
    ASSUME NEW frames \in Seq(Frame), NEW n \in 0 .. Len(frames),
           \A i \in 1 .. n : frames[i].whole,
           n = 0 \/ frames[n].commit,
           \A i \in n + 1 .. Len(frames) : ~frames[i].commit
    PROVE  LastGood(frames) = n
<1> DEFINE S == {0} \cup {m \in 1 .. Len(frames) :
                            /\ frames[m].commit
                            /\ \A i \in 1 .. m : frames[i].whole}
<1>1. S \in SUBSET (0 .. Len(frames)) /\ Len(frames) \in Nat
  OBVIOUS
<1>2. n \in S
  BY <1>1
<1>3. \A m \in S : m <= n
  BY <1>1
<1>4. Max(S) \in S /\ \A m \in S : m <= Max(S)
  BY <1>1, <1>2, MaxIsLargest
<1>5. Max(S) = n
  BY <1>1, <1>2, <1>3, <1>4
<1> QED
  BY <1>5 DEF LastGood

LEMMA NothingLogged == LastGood(<<>>) = 0
<1>1. <<>> \in Seq(Frame) /\ Len(<<>>) = 0
  BY EmptySeq
<1>2. LastGood(<<>>) \in 0 .. Len(<<>>)
  BY <1>1, LastGoodType
<1> QED
  BY <1>1, <1>2

\* The first n frames of a log, and the log itself.
LEMMA FirstFrames ==
    ASSUME NEW frames \in Seq(Frame), NEW n \in 0 .. Len(frames)
    PROVE  /\ SubSeq(frames, 1, n) \in Seq(Frame)
           /\ Len(SubSeq(frames, 1, n)) = n
           /\ \A i \in 1 .. n : SubSeq(frames, 1, n)[i] = frames[i]
           /\ n = Len(frames) => SubSeq(frames, 1, n) = frames
<1> DEFINE s == SubSeq(frames, 1, n)
<1>1. Len(frames) \in Nat /\ n \in Nat /\ \A i \in 1 .. n : frames[i] \in Frame
  BY ElementOfSeq
<1>2. s \in Seq(Frame) /\ Len(s) = n /\ \A i \in 1 .. n : s[i] = frames[i]
  BY <1>1, SubSeqProperties
<1>3. ASSUME n = Len(frames) PROVE s = frames
  BY <1>2, <1>3, SeqEqual
<1> HIDE DEF s
<1> QED
  BY <1>2, <1>3

-----------------------------------------------------------------------------
(* The inductive invariant. *)

\* How much of the log a crash now would be recovered from.
Trusted == IF Stopped THEN LastGood(log) ELSE synced
Running == ~Stopped /\ ~RollingBack
Checkpointing == phase \in {"flush", "fsync", "truncate", "checkpointed"}

\* What a log looks like: whole frames, a marker at the end of what is synced
\* and nowhere after it but on the last frame of a commit about to be synced.
\* A transaction starts with an empty log and ends before it writes to it; a
\* removed log is forgotten with the first sync of its successor.
LogShape ==
    /\ \A i \in 1 .. Len(log) : log[i].whole
    /\ \A i \in 1 .. Len(staleLog) : staleLog[i].whole
    /\ phase \notin {"append", "sync"} => synced = Len(log)
    /\ phase = "sync" => synced < Len(log) /\ log[Len(log)].commit
    /\ ~Stopped => synced = 0 \/ log[synced].commit
    /\ \A i \in synced + 1 .. Len(log) :
          log[i].commit => phase = "sync" /\ i = Len(log)
    /\ transactionOpen \/ RollingBack \/ phase \in {"checkpointed", "load"}
          => log = <<>>
    /\ synced > 0 => staleLog = <<>>

\* What a checkpoint is for, and what the file is read for; a running session
\* may write to it.
Purposes ==
    /\ Checkpointing => purpose \in {"begin", "rollback", "close"}
    /\ phase = "load" => purpose \in {"start", "rollback"}
    /\ ~Stopped => writable \/ phase = "load"

\* What the file has is among what a crash may leave; a checkpoint has synced
\* it, and its header, when it comes to empty the log.
FileShape ==
    /\ \A p \in Page : filePages[p] \in diskPages[p]
    /\ fileCount \in diskCount
    /\ phase = "truncate" => /\ \A p \in Page : diskPages[p] = {filePages[p]}
                             /\ diskCount = {fileCount}
    /\ phase \in {"fsync", "truncate"} => fileCount = pageCount

\* Between statements nothing waits to be committed.
Settled ==
    /\ phase = "idle" /\ ~transactionOpen => committed = current
    /\ Checkpointing /\ ~RollingBack => committed = current
    /\ phase = "flush" /\ ~RollingBack => todo = dirty
    /\ phase \in {"fsync", "truncate", "checkpointed"} /\ ~RollingBack => dirty = {}

\* The write-ahead rule, for the log that is there and for a removed one that
\* a crash may bring back.
Kept ==
    /\ committed \in Database
    /\ Rebuilds(log, Trusted, diskPages, diskCount, committed)
    /\ staleLog # <<>>
          => Rebuilds(staleLog, LastGood(staleLog), diskPages, diskCount, committed)

\* A commit under way: the frames it has appended hold the pages as they are,
\* and no dirty page is forgotten.
Appending ==
    phase \in {"append", "sync"} =>
        /\ CatalogPage \in dirty
        /\ image[CatalogPage] = owned
        /\ \A i \in synced + 1 .. Len(log) :
              /\ log[i].page \in dirty
              /\ log[i].image = image[log[i].page]
              /\ log[i].pageCount = pageCount
        /\ \A p \in dirty \ (logged \cup todo) :
              \E i \in synced + 1 .. Len(log) : log[i].page = p

\* The pages of a running session are what its statements wrote.
Viewed ==
    Running => /\ Seen = current
               /\ \A p \in owned \cup freeIds : p < pageCount

\* A logged page is in the log as it is, a clean one would be rebuilt as it is.
Backed ==
    /\ \A p \in logged : LogHolds(log, synced, p, image[p])
    /\ Running => \A p \in (owned \cup {CatalogPage}) \ dirty :
                     Replays(log, synced, diskPages, p, filePages[p])

\* The catalog page falls behind only while a commit is still to come.
CatalogFollows ==
    Running => \/ PageImage(CatalogPage) = owned /\ DOMAIN committed = owned
               \/ schemaChanged
               \/ phase = "schema"
               \/ dirty \ logged # {}

\* The page count goes beyond every committed page, and so does the one a
\* ROLLBACK goes back to.
Counted ==
    /\ ~Stopped => \A p \in DOMAIN committed : p < pageCount
    /\ transactionOpen => \A p \in DOMAIN committed : p < transactionPages

\* The frames replayed so far are in the file, the later ones on top.
Replayed ==
    phase \in {"replay", "recovered"} =>
        /\ LastGood(log) # 0
        /\ position <= LastGood(log) + 1
        /\ phase = "recovered" => /\ position = LastGood(log) + 1
                                  /\ fileCount = log[LastGood(log)].pageCount
        /\ \A i \in 1 .. position - 1 :
             (\A j \in i + 1 .. position - 1 : log[j].page # log[i].page)
                => filePages[log[i].page] = log[i].image

DurableInv ==
    /\ LogShape /\ Purposes /\ FileShape /\ Settled
    /\ Kept /\ Appending /\ Viewed /\ Backed /\ CatalogFollows /\ Counted
    /\ Replayed

PagerInv == TypeInv /\ CleanInv /\ TransactionInv /\ LoggedInv /\ DurableInv

LEMMA NextPurposes ==
    ASSUME Faults \cap {"statement", "append", "truncate"} = {}
    PROVE  PagerInv /\ [Next]_vars => Purposes'
<1> SUFFICES ASSUME PagerInv, [Next]_vars PROVE Purposes'
  OBVIOUS
<1> USE DEF poolVars, memoryVars, txVars, fileVars, logVars, openVars, stepVars,
            ghostVars, counterVars
<1> USE DEF Purposes, Checkpointing, Stopped
<1>0. Purposes
  BY DEF PagerInv, DurableInv
<1>1. ASSUME NEW kind \in {"rows", "schema"}, StartStatement(kind)
      PROVE  Purposes'
  BY <1>0, <1>1 DEF StartStatement
<1>2. ASSUME NEW p \in DataPage, NEW v \in Value, WritePage(p, v)
      PROVE  Purposes'
  BY <1>0, <1>2 DEF WritePage
<1>3. ASSUME NEW p \in DataPage, AllocatePage(p) \/ FreePage(p)
      PROVE  Purposes'
  BY <1>0, <1>3 DEF AllocatePage, FreePage
<1>4. ASSUME FinishStatement \/ CommitTransaction
      PROVE  Purposes'
  BY <1>0, <1>4 DEF FinishStatement, Executing, CommitTransaction, CommitDatabase
<1>5. ASSUME NEW p \in Page, \/ EvictPage(p) \/ FaultPage(p) \/ AppendFrame(p)
                             \/ FlushFrame(p)
      PROVE  Purposes'
  BY <1>0, <1>5 DEF EvictPage, FaultPage, AppendFrame, FlushFrame
<1>6. ASSUME BeginTransaction \/ RollbackTransaction \/ CloseDatabase
      PROVE  Purposes'
  BY <1>0, <1>6 DEF BeginTransaction, RollbackTransaction, CloseDatabase, StartCheckpoint
<1>7. ASSUME SyncLog \/ WriteHeader \/ SyncFile \/ TruncateLog
      PROVE  Purposes'
  BY <1>0, <1>7 DEF SyncLog, WriteHeader, SyncFile, TruncateLog
<1>8. ASSUME FailFlush
      PROVE  Purposes'
  BY <1>0, <1>8 DEF FailFlush
<1>9. ASSUME EndCheckpoint
      PROVE  Purposes'
  BY <1>0, <1>9 DEF EndCheckpoint
<1>10. ASSUME Crash \/ Recover \/ ReplayFrame \/ ReplayHeader
       PROVE  Purposes'
  BY <1>0, <1>10 DEF Crash, Recover, ReplayFrame, ReplayHeader
<1>11. ASSUME FinishRecovery
       PROVE  Purposes'
  BY <1>11 DEF FinishRecovery, PagerInv, LoggedInv
<1>12. ASSUME LoadDatabase \/ RefuseDatabase
       PROVE  Purposes'
  <2>1. CASE LoadDatabase
    <3>1. phase = "load" /\ phase' = "idle" /\ writable' = walIsOpen'
      BY <2>1 DEF LoadDatabase
    <3>2. walIsOpen' = (purpose = "start" \/ walIsOpen) /\ walIsOpen \in BOOLEAN
      BY <2>1 DEF LoadDatabase, PagerInv, TypeInv, TypeOK, FlagsOK
    <3>3. walIsOpen'
      BY <3>1, <3>2 DEF PagerInv, LoggedInv
    <3> QED
      BY <3>1, <3>3
  <2>2. CASE RefuseDatabase
    BY <2>2 DEF RefuseDatabase
  <2> QED
    BY <1>12, <2>1, <2>2
<1>13. ~FailStatement /\ ~FailSync /\ ~FailTruncate /\ (\A p \in Page : ~FailAppend(p))
  BY DEF FailStatement, FailSync, FailTruncate, FailAppend
<1>14. CASE UNCHANGED vars
  BY <1>0, <1>14 DEF vars
<1> QED
  <2> HIDE DEF Purposes
  <2> QED
    BY <1>1, <1>2, <1>3, <1>4, <1>5, <1>6, <1>7, <1>8, <1>9, <1>10, <1>11, <1>12,
       <1>13, <1>14 DEF Next, Progress

\* The log keeps its shape.
LEMMA NextLogShape ==
    ASSUME Faults \cap {"statement", "append", "truncate"} = {}
    PROVE  PagerInv /\ [Next]_vars => LogShape'
<1> SUFFICES ASSUME PagerInv, [Next]_vars PROVE LogShape'
  OBVIOUS
<1> USE DEF poolVars, memoryVars, txVars, fileVars, logVars, openVars, stepVars,
            ghostVars, counterVars
<1>0. /\ LogShape /\ Purposes
      /\ log \in Seq(Frame) /\ staleLog \in Seq(Frame)
      /\ Len(log) \in Nat /\ synced \in 0 .. Len(log)
      /\ transactionOpen \in BOOLEAN
      /\ phase # "load" => writable \/ Stopped
  BY DEF PagerInv, DurableInv, TypeInv, TypeOK, LogOK, FlagsOK, Purposes
<1> USE DEF LogShape, Stopped, RollingBack
<1>1. ASSUME NEW kind \in {"rows", "schema"}, StartStatement(kind)
      PROVE  LogShape'
  BY <1>0, <1>1 DEF StartStatement
<1>2. ASSUME NEW p \in DataPage, NEW v \in Value, WritePage(p, v)
      PROVE  LogShape'
  BY <1>0, <1>2 DEF WritePage
<1>3. ASSUME NEW p \in DataPage, AllocatePage(p) \/ FreePage(p)
      PROVE  LogShape'
  BY <1>0, <1>3 DEF AllocatePage, FreePage
<1>4. ASSUME FinishStatement
      PROVE  LogShape'
  BY <1>0, <1>4 DEF FinishStatement, CommitDatabase, Executing
<1>5. ASSUME CommitTransaction
      PROVE  LogShape'
  BY <1>0, <1>5 DEF CommitTransaction, CommitDatabase
<1>6. ASSUME NEW p \in Page, EvictPage(p) \/ FaultPage(p) \/ FlushFrame(p)
      PROVE  LogShape'
  BY <1>0, <1>6 DEF EvictPage, FaultPage, FlushFrame
<1>7. ASSUME NEW p \in Page, AppendFrame(p)
      PROVE  LogShape'
  <2> DEFINE frame == LogFrame(p, todo = {p})
  <2>1. frame \in Frame /\ frame.whole /\ (frame.commit <=> todo = {p})
    BY LogFrameType DEF LogFrame, PagerInv, TypeInv, TypeOK
  <2>2. /\ log' = Append(log, frame)
        /\ phase' = IF frame.commit THEN "sync" ELSE "append"
        /\ phase = "append"
        /\ UNCHANGED <<synced, staleLog, transactionOpen, purpose>>
    BY <1>7, <2>1 DEF AppendFrame
  <2> HIDE DEF frame
  <2>3. /\ Len(log') = Len(log) + 1
        /\ \A i \in 1 .. Len(log) : log'[i] = log[i]
        /\ log'[Len(log) + 1] = frame
    BY <1>0, <2>1, <2>2, AppendProperties
  <2>4. \A i \in 1 .. Len(log') : log'[i].whole
    BY <1>0, <2>1, <2>3
  <2>5. \A i \in synced' + 1 .. Len(log') :
           log'[i].commit => phase' = "sync" /\ i = Len(log')
    BY <1>0, <2>1, <2>2, <2>3
  <2>6. synced' = 0 \/ log'[synced'].commit
    BY <1>0, <2>2, <2>3
  <2>7. ~(transactionOpen \/ RollingBack \/ phase = "checkpointed" \/ phase = "load")
    BY <2>2 DEF PagerInv, TransactionInv
  <2> QED
    BY <1>0, <2>1, <2>2, <2>3, <2>4, <2>5, <2>6, <2>7
<1>8. ASSUME SyncLog
      PROVE  LogShape'
  BY <1>0, <1>8 DEF SyncLog
<1>9. ASSUME BeginTransaction \/ CloseDatabase
      PROVE  LogShape'
  BY <1>0, <1>9 DEF BeginTransaction, CloseDatabase, StartCheckpoint
<1>10. ASSUME RollbackTransaction
       PROVE  LogShape'
  BY <1>0, <1>10 DEF RollbackTransaction, StartCheckpoint
<1>11. ASSUME WriteHeader \/ SyncFile
       PROVE  LogShape'
  BY <1>0, <1>11 DEF WriteHeader, SyncFile
<1>12. ASSUME FailFlush
       PROVE  LogShape'
  BY <1>0, <1>12 DEF FailFlush, Purposes, Checkpointing
<1>13. ASSUME TruncateLog \/ FinishRecovery
       PROVE  LogShape'
  <2>1. RemoveLog
    BY <1>13 DEF TruncateLog, FinishRecovery, PagerInv, LoggedInv
  <2>2. log' = <<>> /\ synced' = 0 /\ Len(log') = 0
    BY <2>1 DEF RemoveLog
  <2>3. \A i \in 1 .. Len(staleLog') : staleLog'[i].whole
    BY <1>0, <2>1 DEF RemoveLog
  <2>4. phase' \in {"checkpointed", "load"}
    BY <1>13 DEF TruncateLog, FinishRecovery
  <2> QED
    BY <2>2, <2>3, <2>4
<1>14. ASSUME EndCheckpoint
       PROVE  LogShape'
  BY <1>0, <1>14 DEF EndCheckpoint, ForgetMemory
<1>15. ASSUME Crash
       PROVE  LogShape'
  <2>1. phase' = "down" /\ transactionOpen' = FALSE /\ synced' = Len(log') /\ staleLog' = <<>>
    BY <1>15 DEF Crash, ForgetMemory
  <2>2. log' \in Seq(Frame) /\ \A i \in 1 .. Len(log') : log'[i].whole
    <3>1. ASSUME NEW n \in synced .. Len(log), log' = SubSeq(log, 1, n)
          PROVE  log' \in Seq(Frame) /\ \A i \in 1 .. Len(log') : log'[i].whole
      <4>1. n \in 0 .. Len(log)
        BY <1>0
      <4> QED
        BY <1>0, <3>1, <4>1, FirstFrames
    <3>2. CASE log' = staleLog
      BY <1>0, <3>2
    <3> QED
      BY <1>15, <3>1, <3>2 DEF Crash
  <2>3. Len(log') \in Nat /\ Len(staleLog') = 0
    BY <2>1, <2>2
  <2> QED
    BY <2>1, <2>2, <2>3
<1>16. ASSUME Recover
       PROVE  LogShape'
  <2>1. CASE LastGood(log) = 0
    BY <1>0, <1>16, <2>1, EmptySeq DEF Recover, RemoveLog, PagerInv, LoggedInv
  <2>2. CASE LastGood(log) # 0
    BY <1>0, <1>16, <2>2 DEF Recover
  <2> QED
    BY <2>1, <2>2
<1>17. ASSUME ReplayFrame \/ ReplayHeader
       PROVE  LogShape'
  BY <1>0, <1>17 DEF ReplayFrame, ReplayHeader
<1>18. ASSUME LoadDatabase \/ RefuseDatabase
       PROVE  LogShape'
  BY <1>0, <1>18 DEF LoadDatabase, RefuseDatabase, ForgetMemory
<1>19. ~FailStatement /\ ~FailSync /\ ~FailTruncate /\ (\A p \in Page : ~FailAppend(p))
  BY DEF FailStatement, FailSync, FailTruncate, FailAppend
<1>20. CASE UNCHANGED vars
  BY <1>0, <1>20 DEF vars
<1> QED
  <2> HIDE DEF LogShape
  <2> QED
    BY <1>1, <1>2, <1>3, <1>4, <1>5, <1>6, <1>7, <1>8, <1>9, <1>10, <1>11, <1>12,
       <1>13, <1>14, <1>15, <1>16, <1>17, <1>18, <1>19, <1>20 DEF Next, Progress

\* What the file has stays among what a crash may leave.
LEMMA NextFileShape ==
    ASSUME Faults \cap {"statement", "append", "truncate"} = {}
    PROVE  PagerInv /\ [Next]_vars => FileShape'
<1> SUFFICES ASSUME PagerInv, [Next]_vars PROVE FileShape'
  OBVIOUS
<1> USE DEF poolVars, memoryVars, txVars, fileVars, logVars, openVars, stepVars,
            ghostVars, counterVars
<1>0. FileShape /\ FileOK
  BY DEF PagerInv, DurableInv, TypeInv, TypeOK
<1> USE DEF FileShape
<1>1. ASSUME NEW kind \in {"rows", "schema"}, StartStatement(kind)
      PROVE  FileShape'
  BY <1>0, <1>1 DEF StartStatement
<1>2. ASSUME NEW p \in DataPage, NEW v \in Value, WritePage(p, v)
      PROVE  FileShape'
  BY <1>0, <1>2 DEF WritePage
<1>3. ASSUME NEW p \in DataPage, AllocatePage(p) \/ FreePage(p)
      PROVE  FileShape'
  BY <1>0, <1>3 DEF AllocatePage, FreePage, Executing
<1>4. ASSUME FinishStatement \/ CommitTransaction
      PROVE  FileShape'
  BY <1>0, <1>4 DEF FinishStatement, CommitTransaction, CommitDatabase
<1>5. ASSUME NEW p \in Page, EvictPage(p)
      PROVE  FileShape'
  BY <1>0, <1>5 DEF EvictPage, Executing, WriteFilePage, FileOK
<1>6. ASSUME NEW p \in Page, FlushFrame(p)
      PROVE  FileShape'
  BY <1>0, <1>6 DEF FlushFrame, WriteFilePage, FileOK
<1>7. ASSUME NEW p \in Page, FaultPage(p) \/ AppendFrame(p)
      PROVE  FileShape'
  BY <1>0, <1>7 DEF FaultPage, AppendFrame, Executing
<1>8. ASSUME BeginTransaction \/ RollbackTransaction \/ CloseDatabase
      PROVE  FileShape'
  BY <1>0, <1>8 DEF BeginTransaction, RollbackTransaction, CloseDatabase, StartCheckpoint
<1>9. ASSUME SyncLog \/ FailFlush \/ TruncateLog \/ EndCheckpoint
      PROVE  FileShape'
  BY <1>0, <1>9 DEF SyncLog, FailFlush, TruncateLog, EndCheckpoint
<1>10. ASSUME WriteHeader
       PROVE  FileShape'
  BY <1>0, <1>10 DEF WriteHeader, WriteHeaderCount
<1>11. ASSUME SyncFile \/ FinishRecovery
       PROVE  FileShape'
  BY <1>0, <1>11 DEF SyncFile, FinishRecovery, SyncHandle
<1>12. ASSUME Crash
       PROVE  FileShape'
  BY <1>0, <1>12 DEF Crash
<1>13. ASSUME ReplayFrame
       PROVE  FileShape'
  <2> DEFINE q == log[position].page
             c == log[position].image
  <2>1. phase' = "replay" /\ fileCount' = fileCount /\ diskCount' = diskCount
    BY <1>13 DEF ReplayFrame
  <2>2. /\ filePages' = [filePages EXCEPT ![q] = c]
        /\ diskPages' = [diskPages EXCEPT ![q] = @ \cup {c}]
    BY <1>13 DEF ReplayFrame, WriteFilePage
  <2> HIDE DEF q, c
  <2> QED
    BY <1>0, <2>1, <2>2 DEF FileOK
<1>14. ASSUME ReplayHeader
       PROVE  FileShape'
  BY <1>0, <1>14 DEF ReplayHeader, WriteHeaderCount
<1>15. ASSUME Recover \/ LoadDatabase \/ RefuseDatabase
       PROVE  FileShape'
  BY <1>0, <1>15 DEF Recover, LoadDatabase, RefuseDatabase
<1>16. ~FailStatement /\ ~FailSync /\ ~FailTruncate /\ (\A p \in Page : ~FailAppend(p))
  BY DEF FailStatement, FailSync, FailTruncate, FailAppend
<1>17. CASE UNCHANGED vars
  BY <1>0, <1>17 DEF vars
<1> QED
  <2> HIDE DEF FileShape
  <2> QED
    BY <1>1, <1>2, <1>3, <1>4, <1>5, <1>6, <1>7, <1>8, <1>9, <1>10, <1>11, <1>12,
       <1>13, <1>14, <1>15, <1>16, <1>17 DEF Next, Progress

\* Whoever is told that a call is over is told of all its work.
LEMMA NextSettled ==
    ASSUME Faults \cap {"statement", "append", "truncate"} = {}
    PROVE  PagerInv /\ [Next]_vars => Settled'
<1> SUFFICES ASSUME PagerInv, [Next]_vars PROVE Settled'
  OBVIOUS
<1> USE DEF poolVars, memoryVars, txVars, fileVars, logVars, openVars, stepVars,
            ghostVars, counterVars
<1>0. /\ Settled /\ Purposes
      /\ todo \subseteq dirty
      /\ transactionOpen \in BOOLEAN
      /\ phase # "load" => writable \/ Stopped
      /\ phase = "idle" => walIsOpen
  BY DEF PagerInv, DurableInv, TypeInv, TypeOK, StepOK, FlagsOK, Purposes, LoggedInv
<1> USE DEF Settled, Checkpointing, RollingBack
<1>1. ASSUME NEW kind \in {"rows", "schema"}, StartStatement(kind)
      PROVE  Settled'
  BY <1>0, <1>1 DEF StartStatement
<1>2. ASSUME NEW p \in DataPage, NEW v \in Value, WritePage(p, v)
      PROVE  Settled'
  BY <1>0, <1>2 DEF WritePage, Executing
<1>3. ASSUME NEW p \in DataPage, AllocatePage(p) \/ FreePage(p)
      PROVE  Settled'
  BY <1>0, <1>3 DEF AllocatePage, FreePage, Executing
<1>4. ASSUME FinishStatement \/ CommitTransaction
      PROVE  Settled'
  BY <1>0, <1>4 DEF FinishStatement, CommitTransaction, CommitDatabase
<1>5. ASSUME NEW p \in Page, EvictPage(p) \/ FaultPage(p)
      PROVE  Settled'
  BY <1>0, <1>5 DEF EvictPage, FaultPage, Executing
<1>6. ASSUME NEW p \in Page, AppendFrame(p)
      PROVE  Settled'
  BY <1>0, <1>6 DEF AppendFrame
<1>7. ASSUME NEW p \in Page, FlushFrame(p)
      PROVE  Settled'
  BY <1>0, <1>7 DEF FlushFrame
<1>8. ASSUME BeginTransaction \/ CloseDatabase
      PROVE  Settled'
  BY <1>0, <1>8 DEF BeginTransaction, CloseDatabase, StartCheckpoint, Stopped
<1>9. ASSUME RollbackTransaction
      PROVE  Settled'
  BY <1>0, <1>9 DEF RollbackTransaction, StartCheckpoint, Stopped
<1>10. ASSUME SyncLog \/ SyncFile \/ TruncateLog \/ FailFlush \/ WriteHeader
       PROVE  Settled'
  BY <1>0, <1>10 DEF SyncLog, SyncFile, TruncateLog, FailFlush, WriteHeader
<1>11. ASSUME EndCheckpoint
       PROVE  Settled'
  BY <1>0, <1>11 DEF EndCheckpoint
<1>12. ASSUME Crash \/ Recover \/ ReplayFrame \/ ReplayHeader \/ FinishRecovery
       PROVE  Settled'
  BY <1>0, <1>12 DEF Crash, Recover, ReplayFrame, ReplayHeader, FinishRecovery
<1>13. ASSUME LoadDatabase \/ RefuseDatabase
       PROVE  Settled'
  BY <1>0, <1>13 DEF LoadDatabase, RefuseDatabase
<1>14. ~FailStatement /\ ~FailSync /\ ~FailTruncate /\ (\A p \in Page : ~FailAppend(p))
  BY DEF FailStatement, FailSync, FailTruncate, FailAppend
<1>15. CASE UNCHANGED vars
  BY <1>0, <1>15 DEF vars
<1> QED
  <2> HIDE DEF Settled
  <2> QED
    BY <1>1, <1>2, <1>3, <1>4, <1>5, <1>6, <1>7, <1>8, <1>9, <1>10, <1>11, <1>12,
       <1>13, <1>14, <1>15 DEF Next, Progress

\* A commit under way has appended the dirty pages as they are.
LEMMA NextAppending ==
    ASSUME Faults \cap {"statement", "append", "truncate"} = {}
    PROVE  PagerInv /\ [Next]_vars => Appending'
<1> SUFFICES ASSUME PagerInv, [Next]_vars PROVE Appending'
  OBVIOUS
<1> USE DEF poolVars, memoryVars, txVars, fileVars, logVars, openVars, stepVars,
            ghostVars, counterVars
<1>0. /\ Appending
      /\ LogOK /\ Len(log) \in Nat
      /\ image \in [Page -> Content] /\ todo \subseteq dirty
      /\ phase \notin {"append", "sync"} => synced = Len(log)
  BY DEF PagerInv, DurableInv, TypeInv, TypeOK, PoolOK, StepOK, LogOK, LogShape
<1> USE DEF Appending
<1>1. ASSUME NEW changed, CommitDatabase(changed), phase \notin {"append", "sync"},
             UNCHANGED <<owned, logVars>>
      PROVE  Appending'
  BY <1>0, <1>1, PageFacts DEF CommitDatabase, DirtyFrame
<1>2. ASSUME FinishStatement
      PROVE  Appending'
  <2>1. CASE transactionOpen
    BY <1>2, <2>1 DEF FinishStatement
  <2>2. CASE ~transactionOpen
    BY <1>1, <1>2, <2>2 DEF FinishStatement, Executing
  <2> QED
    BY <2>1, <2>2
<1>3. ASSUME CommitTransaction
      PROVE  Appending'
  BY <1>1, <1>3 DEF CommitTransaction
<1>4. ASSUME NEW p \in Page, AppendFrame(p)
      PROVE  Appending'
  <2> DEFINE frame == LogFrame(p, todo = {p})
  <2>1. /\ frame \in Frame
        /\ frame.page = p
        /\ frame.image = image[p]
        /\ frame.pageCount = pageCount
    BY LogFrameType DEF LogFrame, PagerInv, TypeInv, TypeOK
  <2>2. /\ log' = Append(log, frame)
        /\ phase = "append"
        /\ p \in todo
        /\ todo' = todo \ {p}
        /\ UNCHANGED <<synced, dirty, logged, image, owned, pageCount>>
    BY <1>4 DEF AppendFrame
  <2> HIDE DEF frame
  <2>3. /\ Len(log') = Len(log) + 1
        /\ \A i \in 1 .. Len(log) : log'[i] = log[i]
        /\ log'[Len(log) + 1] = frame
    BY <2>1, <2>2, AppendProperties DEF LogOK
  <2>4. synced \in 0 .. Len(log)
    BY <1>0 DEF LogOK
  <2>5. ASSUME NEW i \in synced + 1 .. Len(log')
        PROVE  /\ log'[i].page \in dirty
               /\ log'[i].image = image[log'[i].page]
               /\ log'[i].pageCount = pageCount
    BY <1>0, <2>1, <2>2, <2>3, <2>4
  <2>6. ASSUME NEW q \in dirty \ (logged \cup todo')
        PROVE  \E i \in synced + 1 .. Len(log') : log'[i].page = q
    <3>1. CASE q = p
      <4>1. Len(log) + 1 \in synced + 1 .. Len(log')
        BY <1>0, <2>3, <2>4
      <4> QED
        BY <2>1, <2>3, <3>1, <4>1
    <3>2. CASE q # p
      <4>1. PICK i \in synced + 1 .. Len(log) : log[i].page = q
        BY <1>0, <2>2, <3>2
      <4> QED
        BY <1>0, <2>3, <2>4, <4>1
    <3> QED
      BY <3>1, <3>2
  <2> QED
    BY <1>0, <2>2, <2>5, <2>6
<1>5. CASE phase' \notin {"append", "sync"}
  BY <1>5
<1>6. ASSUME NEW p \in Page, EvictPage(p) \/ FaultPage(p) \/ FlushFrame(p)
      PROVE  phase' \notin {"append", "sync"}
  BY <1>6 DEF EvictPage, FaultPage, FlushFrame, Executing
<1>7. ASSUME NEW p \in DataPage, AllocatePage(p) \/ FreePage(p)
      PROVE  phase' \notin {"append", "sync"}
  BY <1>7 DEF AllocatePage, FreePage, Executing
<1>8. ASSUME NEW p, NEW v, WritePage(p, v)
      PROVE  phase' \notin {"append", "sync"}
  BY <1>8 DEF WritePage, Executing
<1>9. ASSUME NEW kind \in {"rows", "schema"}, StartStatement(kind)
      PROVE  phase' \notin {"append", "sync"}
  BY <1>9 DEF StartStatement
<1>10. ASSUME \/ BeginTransaction \/ RollbackTransaction \/ CloseDatabase \/ SyncLog
              \/ WriteHeader \/ SyncFile \/ FailFlush \/ TruncateLog \/ EndCheckpoint
       PROVE  phase' \notin {"append", "sync"}
  BY <1>10 DEF BeginTransaction, RollbackTransaction, CloseDatabase, StartCheckpoint,
     SyncLog, WriteHeader, SyncFile, FailFlush, TruncateLog, EndCheckpoint
<1>11. ASSUME \/ Crash \/ Recover \/ ReplayFrame \/ ReplayHeader \/ FinishRecovery
              \/ LoadDatabase \/ RefuseDatabase
       PROVE  phase' \notin {"append", "sync"}
  BY <1>11 DEF Crash, Recover, ReplayFrame, ReplayHeader, FinishRecovery, LoadDatabase,
     RefuseDatabase
<1>12. ~FailStatement /\ ~FailSync /\ ~FailTruncate /\ (\A p \in Page : ~FailAppend(p))
  BY DEF FailStatement, FailSync, FailTruncate, FailAppend
<1>13. CASE UNCHANGED vars
  BY <1>0, <1>13 DEF vars
<1> QED
  <2> HIDE DEF Appending
  <2> QED
    BY <1>2, <1>3, <1>4, <1>5, <1>6, <1>7, <1>8, <1>9, <1>10, <1>11, <1>12, <1>13
       DEF Next, Progress

-----------------------------------------------------------------------------
(* What the invariant says of the moment before a sync. *)

\* Frames of other pages do not change what the log makes of a page.
LEMMA LaterFramesOfOthers ==
    ASSUME NEW frames, NEW n \in Nat, NEW m \in 0 .. n, NEW p,
           \A j \in m + 1 .. n : frames[j].page # p
    PROVE  /\ \A c : LogHolds(frames, m, p, c) => LogHolds(frames, n, p, c)
           /\ \A disk, c : Replays(frames, m, disk, p, c) => Replays(frames, n, disk, p, c)
<1>1. ASSUME NEW c, LogHolds(frames, m, p, c) PROVE LogHolds(frames, n, p, c)
  <2>1. PICK i \in 1 .. m : /\ frames[i].page = p
                            /\ frames[i].image = c
                            /\ \A j \in i + 1 .. m : frames[j].page # p
    BY <1>1 DEF LogHolds
  <2>2. i \in 1 .. n /\ \A j \in i + 1 .. n : frames[j].page # p
    BY <2>1
  <2> QED
    BY <2>1, <2>2 DEF LogHolds
<1>2. InLog(frames, n, p) => InLog(frames, m, p)
  BY DEF InLog
<1> QED
  BY <1>1, <1>2 DEF Replays

LEMMA SeenIsDatabase == TypeInv => Seen \in Database
BY PageFacts DEF TypeInv, TypeOK, PoolOK, FileOK, MemoryOK, Seen, Database, PageImage

\* What a page reads as, when its frame is dirty and when it is not.
LEMMA ImageOfPage ==
    ASSUME PagerInv, NEW p
    PROVE  /\ p \in dirty => PageImage(p) = image[p]
           /\ p \notin dirty => PageImage(p) = filePages[p]
BY DEF PagerInv, CleanInv, CleanMatchesFile, TypeInv, TypeOK, PoolOK, PageImage

LEMMA SyncedPages ==
    ASSUME PagerInv, phase = "sync"
    PROVE  /\ \A p \in dirty : LogHolds(log, Len(log), p, image[p])
           /\ \A p \in (owned \cup {CatalogPage}) \ dirty :
                 Replays(log, Len(log), diskPages, p, filePages[p])
<1>1. Len(log) \in Nat /\ synced \in 0 .. Len(log) /\ todo = {}
  BY DEF PagerInv, TypeInv, TypeOK, LogOK, StepsAreInOrder
<1>2. /\ \A i \in synced + 1 .. Len(log) :
            log[i].page \in dirty /\ log[i].image = image[log[i].page]
      /\ \A p \in dirty \ logged : \E i \in synced + 1 .. Len(log) : log[i].page = p
  BY <1>1 DEF PagerInv, DurableInv, Appending
<1>3. /\ \A p \in logged : LogHolds(log, synced, p, image[p])
      /\ \A p \in (owned \cup {CatalogPage}) \ dirty :
            Replays(log, synced, diskPages, p, filePages[p])
  BY DEF PagerInv, DurableInv, Backed, Running, Stopped, RollingBack
<1>4. ASSUME NEW p \in dirty
      PROVE  LogHolds(log, Len(log), p, image[p])
  <2>1. CASE \E i \in synced + 1 .. Len(log) : log[i].page = p
    <3>1. \A i \in synced + 1 .. Len(log) : log[i].page = p => log[i].image = image[p]
      BY <1>2
    <3> QED
      BY <1>1, <2>1, <3>1, LatestFrames
  <2>2. CASE \A i \in synced + 1 .. Len(log) : log[i].page # p
    BY <1>1, <1>2, <1>3, <2>2, LaterFramesOfOthers
  <2> QED
    BY <2>1, <2>2
<1>5. ASSUME NEW p \in (owned \cup {CatalogPage}) \ dirty
      PROVE  Replays(log, Len(log), diskPages, p, filePages[p])
  BY <1>1, <1>2, <1>3, LaterFramesOfOthers
<1> QED
  BY <1>4, <1>5

\* The frames of a commit are enough to rebuild what it keeps.
LEMMA SyncedRebuilds ==
    ASSUME PagerInv, phase = "sync"
    PROVE  /\ current \in Database
           /\ Rebuilds(log, Len(log), diskPages, diskCount, current)
<1>1. /\ Seen = current
      /\ \A p \in owned : p < pageCount
  BY DEF PagerInv, DurableInv, Viewed, Running, Stopped, RollingBack
<1>2. current \in Database /\ DOMAIN current = owned
  BY <1>1, SeenIsDatabase DEF PagerInv, Seen
<1>3. CatalogPage \notin owned
  BY PageFacts DEF PagerInv, TypeInv, TypeOK, MemoryOK
<1>4. CatalogPage \in dirty /\ image[CatalogPage] = owned
  BY DEF PagerInv, DurableInv, Appending
<1>5. ASSUME NEW p \in PagesOf(current)
      PROVE  Replays(log, Len(log), diskPages, p, ContentOf(current, p))
  <2>1. p \in owned \cup {CatalogPage}
    BY <1>2 DEF PagesOf
  <2>2. ContentOf(current, p) = PageImage(p)
    <3>1. CASE p = CatalogPage
      BY <1>2, <1>4, <3>1, ImageOfPage DEF ContentOf
    <3>2. CASE p # CatalogPage
      BY <1>1, <2>1, <3>2 DEF ContentOf, Seen
    <3> QED
      BY <3>1, <3>2
  <2>3. CASE p \in dirty
    BY <2>2, <2>3, SyncedPages, ImageOfPage DEF Replays
  <2>4. CASE p \notin dirty
    BY <2>1, <2>2, <2>4, SyncedPages, ImageOfPage
  <2> QED
    BY <2>3, <2>4
<1>6. CountCovers(log, Len(log), diskCount, current)
  <2>1. synced \in Nat /\ Len(log) \in Nat /\ synced < Len(log)
    BY DEF PagerInv, DurableInv, LogShape, TypeInv, TypeOK, LogOK
  <2>2. log[Len(log)].pageCount = pageCount
    BY <2>1 DEF PagerInv, DurableInv, Appending
  <2>3. \A p \in DOMAIN current : p < pageCount
    BY <1>1, <1>2
  <2> QED
    BY <2>1, <2>2, <2>3 DEF CountCovers
<1> QED
  BY <1>2, <1>5, <1>6 DEF Rebuilds

\* With the log empty, the file is what is committed.
LEMMA EmptyLogFile ==
    ASSUME PagerInv, log = <<>>
    PROVE  /\ \A p \in PagesOf(committed) : /\ diskPages[p] = {ContentOf(committed, p)}
                                            /\ filePages[p] = ContentOf(committed, p)
           /\ \A p \in DOMAIN committed : \A m \in diskCount : p < m
           /\ \A p \in DOMAIN committed : p < fileCount
<1>1. Len(log) = 0 /\ synced = 0 /\ LastGood(log) = 0
  BY EmptySeq, NothingLogged DEF PagerInv, TypeInv, TypeOK, LogOK
<1>2. Rebuilds(log, 0, diskPages, diskCount, committed)
  BY <1>1 DEF PagerInv, DurableInv, Kept, Trusted
<1>3. PagesOf(committed) \subseteq Page
  BY PageFacts DEF PagesOf, PagerInv, TypeInv, TypeOK, GhostOK
<1>4. (\A p \in Page : filePages[p] \in diskPages[p]) /\ fileCount \in diskCount
  BY DEF PagerInv, DurableInv, FileShape
<1> QED
  BY <1>2, <1>3, <1>4, NoFrames

\* What a page reads as does not change with a page elsewhere, or an eviction.
LEMMA ImageAfterEviction ==
    ASSUME PagerInv, NEW p \in Page, EvictPage(p)
    PROVE  \A q \in Page : PageImage(q)' = PageImage(q)
<1>1. /\ image \in [Page -> Content] /\ filePages \in [Page -> Content]
      /\ \A q \in resident \ dirty : image[q] = filePages[q]
  BY DEF PagerInv, CleanInv, CleanMatchesFile, TypeInv, TypeOK, PoolOK, FileOK
<1>2. /\ p \in resident
      /\ resident' = resident \ {p}
      /\ image' = [q \in Page |-> IF q \in {p} THEN Blank ELSE image[q]]
      /\ filePages' = IF p \in dirty THEN [filePages EXCEPT ![p] = image[p]] ELSE filePages
  BY DEF EvictPage, DropFrames, WriteFilePage
<1> QED
  BY <1>1, <1>2 DEF PageImage

-----------------------------------------------------------------------------
(* The parts of the invariant that say what a session sees. *)

\* The page count stays beyond every committed page.
LEMMA NextCounted ==
    ASSUME Faults \cap {"statement", "append", "truncate"} = {}
    PROVE  PagerInv /\ [Next]_vars => Counted'
<1> SUFFICES ASSUME PagerInv, [Next]_vars PROVE Counted'
  OBVIOUS
<1> USE DEF poolVars, memoryVars, txVars, fileVars, logVars, openVars, stepVars,
            ghostVars, counterVars
<1>0. /\ Counted
      /\ pageCount \in Nat /\ transactionPages \in Nat
      /\ DOMAIN committed \subseteq Page
      /\ transactionOpen => phase \in {"idle", "rows", "schema"}
      /\ phase \in {"replay", "recovered"} => purpose = "start"
      /\ phase = "load" => purpose = "start" \/ RollingBack
  BY PageFacts DEF PagerInv, DurableInv, TypeInv, TypeOK, MemoryOK, GhostOK,
     TransactionInv, LoggedInv, Purposes, RollingBack
<1>1. ASSUME Running
      PROVE  DOMAIN current = owned /\ \A p \in DOMAIN current : p < pageCount
  BY <1>1 DEF PagerInv, DurableInv, Viewed, Seen
<1> USE DEF Counted, Stopped
<1>2. ASSUME NEW kind \in {"rows", "schema"}, StartStatement(kind)
      PROVE  Counted'
  BY <1>0, <1>2 DEF StartStatement
<1>3. ASSUME NEW p \in DataPage, NEW v \in Value, WritePage(p, v)
      PROVE  Counted'
  BY <1>0, <1>3 DEF WritePage
<1>4. ASSUME NEW p \in DataPage, AllocatePage(p)
      PROVE  Counted'
  BY <1>0, <1>4, PageFacts DEF AllocatePage
<1>5. ASSUME NEW p \in DataPage, FreePage(p)
      PROVE  Counted'
  BY <1>0, <1>5 DEF FreePage
<1>6. ASSUME FinishStatement
      PROVE  Counted'
  BY <1>0, <1>1, <1>6 DEF FinishStatement, CommitDatabase, Executing, Running, RollingBack
<1>7. ASSUME CommitTransaction
      PROVE  Counted'
  BY <1>0, <1>1, <1>7 DEF CommitTransaction, CommitDatabase, Running, RollingBack
<1>8. ASSUME NEW p \in Page, EvictPage(p) \/ FaultPage(p) \/ AppendFrame(p) \/ FlushFrame(p)
      PROVE  Counted'
  BY <1>0, <1>8 DEF EvictPage, FaultPage, AppendFrame, FlushFrame
<1>9. ASSUME BeginTransaction \/ CloseDatabase
      PROVE  Counted'
  BY <1>0, <1>9 DEF BeginTransaction, CloseDatabase, StartCheckpoint
<1>10. ASSUME RollbackTransaction
       PROVE  Counted'
  BY <1>0, <1>10, MinOfTwo DEF RollbackTransaction, StartCheckpoint
<1>11. ASSUME SyncLog
       PROVE  Counted'
  BY <1>0, <1>1, <1>11 DEF SyncLog, Running, RollingBack
<1>12. ASSUME WriteHeader \/ SyncFile \/ FailFlush \/ TruncateLog
       PROVE  Counted'
  BY <1>0, <1>12 DEF WriteHeader, SyncFile, FailFlush, TruncateLog
<1>13. ASSUME EndCheckpoint
       PROVE  Counted'
  BY <1>0, <1>13 DEF EndCheckpoint, ForgetMemory
<1>14. ASSUME Crash
       PROVE  Counted'
  BY <1>14 DEF Crash, ForgetMemory
<1>15. ASSUME Recover \/ ReplayFrame \/ ReplayHeader \/ FinishRecovery
       PROVE  Counted'
  BY <1>0, <1>15 DEF Recover, ReplayFrame, ReplayHeader, FinishRecovery
<1>16. ASSUME LoadDatabase
       PROVE  Counted'
  <2>1. log = <<>>
    BY <1>16 DEF LoadDatabase, PagerInv, DurableInv, LogShape
  <2>2. \A p \in DOMAIN committed : p < fileCount
    BY <2>1, EmptyLogFile
  <2> QED
    BY <1>0, <1>16, <2>2 DEF LoadDatabase
<1>17. ASSUME RefuseDatabase
       PROVE  Counted'
  BY <1>0, <1>17 DEF RefuseDatabase, ForgetMemory
<1>18. ~FailStatement /\ ~FailSync /\ ~FailTruncate /\ (\A p \in Page : ~FailAppend(p))
  BY DEF FailStatement, FailSync, FailTruncate, FailAppend
<1>19. CASE UNCHANGED vars
  BY <1>0, <1>19 DEF vars
<1> QED
  <2> HIDE DEF Counted
  <2> QED
    BY <1>2, <1>3, <1>4, <1>5, <1>6, <1>7, <1>8, <1>9, <1>10, <1>11, <1>12, <1>13,
       <1>14, <1>15, <1>16, <1>17, <1>18, <1>19 DEF Next, Progress

\* A session sees what its statements wrote, step after step.
LEMMA NextViewed ==
    ASSUME Faults \cap {"statement", "append", "truncate"} = {}
    PROVE  PagerInv /\ [Next]_vars => Viewed'
<1> SUFFICES ASSUME PagerInv, [Next]_vars PROVE Viewed'
  OBVIOUS
<1> USE DEF poolVars, memoryVars, txVars, fileVars, logVars, openVars, stepVars,
            ghostVars, counterVars
<1>0. /\ Viewed
      /\ image \in [Page -> Content] /\ filePages \in [Page -> Content]
      /\ resident \subseteq Page /\ owned \subseteq DataPage /\ freeIds \subseteq DataPage
      /\ pageCount \in Nat
      /\ Running => DOMAIN current = owned
      /\ \A p \in owned \cup freeIds : p \in Nat /\ p # CatalogPage /\ p \in Page
  BY PageFacts DEF PagerInv, DurableInv, TypeInv, TypeOK, PoolOK, FileOK, MemoryOK,
     Viewed, Seen
<1>1. ASSUME Running, UNCHANGED <<owned, freeIds, pageCount, current>>,
             \A p \in owned : PageImage(p)' = PageImage(p)
      PROVE  Viewed'
  BY <1>0, <1>1 DEF Viewed, Seen
<1>2. ASSUME NEW kind \in {"rows", "schema"}, StartStatement(kind)
      PROVE  Viewed'
  BY <1>1, <1>2 DEF StartStatement, PageImage, Running, Stopped, RollingBack
<1>3. ASSUME NEW p \in DataPage, NEW v \in Value, WritePage(p, v)
      PROVE  Viewed'
  <2>1. Running
    BY <1>3 DEF WritePage, Executing, Running, Stopped, RollingBack
  <2>2. /\ UNCHANGED <<owned, freeIds, pageCount, filePages>>
        /\ p \in owned
        /\ resident' = resident \cup {p}
        /\ image' = [image EXCEPT ![p] = v]
        /\ current' = [q \in DOMAIN current \cup {p} |-> IF q = p THEN v ELSE current[q]]
    BY <1>3 DEF WritePage, DirtyFrame, SetCurrent
  <2>3. \A q \in owned : PageImage(q)' = IF q = p THEN v ELSE PageImage(q)
    BY <1>0, <2>2 DEF PageImage
  <2>4. Seen' = current'
    BY <1>0, <2>1, <2>2, <2>3 DEF Viewed, Seen
  <2> QED
    BY <1>0, <2>1, <2>2, <2>4 DEF Viewed
<1>4. ASSUME NEW p \in DataPage, AllocatePage(p)
      PROVE  Viewed'
  <2>1. Running
    BY <1>4 DEF AllocatePage, Executing, Running, Stopped, RollingBack
  <2>2. /\ filePages' = filePages
        /\ owned' = owned \cup {p} /\ freeIds' = freeIds \ {p}
        /\ resident' = resident \cup {p}
        /\ image' = [image EXCEPT ![p] = Blank]
        /\ current' = [q \in DOMAIN current \cup {p} |-> IF q = p THEN Blank ELSE current[q]]
    BY <1>4 DEF AllocatePage, DirtyFrame, SetCurrent
  <2>3. \A q \in owned' : PageImage(q)' = IF q = p THEN Blank ELSE PageImage(q)
    BY <1>0, <2>2, PageFacts DEF PageImage
  <2>4. Seen' = current'
    BY <1>0, <2>1, <2>2, <2>3 DEF Viewed, Seen
  <2>5. pageCount' >= pageCount /\ p < pageCount' /\ pageCount' \in Nat
    BY <1>0, <1>4, <2>1, PageFacts DEF AllocatePage, Viewed
  <2>6. \A q \in owned' \cup freeIds' : q < pageCount'
    BY <1>0, <2>1, <2>2, <2>5 DEF Viewed
  <2> QED
    BY <2>4, <2>6 DEF Viewed
<1>5. ASSUME NEW p \in DataPage, FreePage(p)
      PROVE  Viewed'
  <2>1. Running
    BY <1>5 DEF FreePage, Running, Stopped, RollingBack
  <2>2. /\ UNCHANGED <<filePages, pageCount>>
        /\ p \in owned
        /\ owned' = owned \ {p} /\ freeIds' = freeIds \cup {p}
        /\ resident' = resident \ {p}
        /\ image' = [q \in Page |-> IF q \in {p} THEN Blank ELSE image[q]]
        /\ current' = [q \in DOMAIN current \ {p} |-> current[q]]
    BY <1>5 DEF FreePage, DropFrames
  <2>3. \A q \in owned' : PageImage(q)' = PageImage(q)
    BY <1>0, <2>2, PageFacts DEF PageImage
  <2>4. Seen' = current'
    BY <1>0, <2>1, <2>2, <2>3 DEF Viewed, Seen
  <2>5. \A q \in owned' \cup freeIds' : q < pageCount'
    BY <1>0, <2>1, <2>2 DEF Viewed
  <2> QED
    BY <2>4, <2>5 DEF Viewed
<1>6. ASSUME NEW changed, CommitDatabase(changed), Running,
             UNCHANGED <<owned, freeIds, pageCount, current, filePages>>
      PROVE  Viewed'
  <2>1. \A q \in owned : PageImage(q)' = PageImage(q)
    BY <1>0, <1>6 DEF CommitDatabase, DirtyFrame, PageImage
  <2> QED
    BY <1>1, <1>6, <2>1
<1>7. ASSUME FinishStatement
      PROVE  Viewed'
  <2>1. Running
    BY <1>7 DEF FinishStatement, Executing, Running, Stopped, RollingBack
  <2>2. CASE transactionOpen
    BY <1>1, <1>7, <2>1, <2>2 DEF FinishStatement, PageImage
  <2>3. CASE ~transactionOpen
    BY <1>6, <1>7, <2>1, <2>3 DEF FinishStatement
  <2> QED
    BY <2>2, <2>3
<1>8. ASSUME CommitTransaction
      PROVE  Viewed'
  BY <1>6, <1>8 DEF CommitTransaction, Running, Stopped, RollingBack
<1>9. ASSUME NEW p \in Page, AppendFrame(p)
      PROVE  Viewed'
  BY <1>1, <1>9 DEF AppendFrame, PageImage, Running, Stopped, RollingBack
<1>10. ASSUME NEW p \in Page, EvictPage(p)
       PROVE  Viewed'
  <2>1. Running /\ UNCHANGED <<owned, freeIds, pageCount, current>>
    BY <1>10 DEF EvictPage, Executing, Running, Stopped, RollingBack
  <2> QED
    BY <1>0, <1>1, <1>10, <2>1, ImageAfterEviction
<1>11. ASSUME NEW p \in Page, FaultPage(p)
       PROVE  Viewed'
  <2>1. Running /\ UNCHANGED <<owned, freeIds, pageCount, current>>
    BY <1>11 DEF FaultPage, Executing, Running, Stopped, RollingBack
  <2>2. \A q \in Page : PageImage(q)' = PageImage(q)
    BY <1>0, <1>11 DEF FaultPage, PageImage
  <2> QED
    BY <1>0, <1>1, <2>1, <2>2
<1>12. ASSUME NEW p \in Page, FlushFrame(p)
       PROVE  Viewed'
  <2>1. /\ UNCHANGED <<resident, image, owned, freeIds, pageCount, current, phase, purpose>>
        /\ phase = "flush" /\ p \in todo
    BY <1>12 DEF FlushFrame
  <2>2. p \in resident
    BY <2>1 DEF PagerInv, TypeInv, TypeOK, PoolOK, StepOK
  <2>3. \A q \in Page : PageImage(q)' = PageImage(q)
    BY <1>0, <1>12, <2>1, <2>2 DEF FlushFrame, WriteFilePage, PageImage
  <2>4. CASE Running
    BY <1>0, <1>1, <2>1, <2>3, <2>4
  <2>5. CASE ~Running
    BY <2>1, <2>5 DEF Viewed, Running, Stopped, RollingBack
  <2> QED
    BY <2>4, <2>5
<1>13. ASSUME \/ BeginTransaction \/ CloseDatabase \/ SyncLog \/ WriteHeader
              \/ SyncFile \/ TruncateLog
       PROVE  Viewed'
  <2>1. /\ UNCHANGED <<resident, image, filePages, owned, freeIds, pageCount, current>>
        /\ Running' => Running
    BY <1>13 DEF BeginTransaction, CloseDatabase, StartCheckpoint, SyncLog, WriteHeader,
       SyncFile, TruncateLog, Running, Stopped, RollingBack
  <2> QED
    BY <1>1, <2>1 DEF Viewed, PageImage
<1>14. ASSUME FailFlush
       PROVE  Viewed'
  <2>1. /\ UNCHANGED <<resident, image, filePages, owned, freeIds, pageCount, current>>
        /\ Running' => Running
    BY <1>14 DEF FailFlush, Running, Stopped, RollingBack, PagerInv, DurableInv, Purposes,
       Checkpointing
  <2> QED
    BY <1>1, <2>1 DEF Viewed, PageImage
<1>15. ASSUME EndCheckpoint
       PROVE  Viewed'
  <2>1. CASE purpose = "begin"
    <3>1. /\ UNCHANGED <<resident, image, filePages, owned, freeIds, pageCount, current>>
          /\ Running
      BY <1>15, <2>1 DEF EndCheckpoint, Running, Stopped, RollingBack
    <3> QED
      BY <1>1, <3>1 DEF PageImage
  <2>2. CASE purpose # "begin"
    BY <1>15, <2>2 DEF EndCheckpoint, Viewed, Running, Stopped, RollingBack
  <2> QED
    BY <2>1, <2>2
<1>16. ASSUME RollbackTransaction
       PROVE  ~Running'
  BY <1>16 DEF RollbackTransaction, StartCheckpoint, Running, RollingBack
<1>17. ASSUME Crash \/ Recover \/ ReplayFrame \/ ReplayHeader \/ FinishRecovery
       PROVE  ~Running'
  BY <1>17 DEF Crash, Recover, ReplayFrame, ReplayHeader, FinishRecovery, Running, Stopped,
     PagerInv, LoggedInv
<1>18. ASSUME LoadDatabase
       PROVE  Viewed'
  <2>1. log = <<>>
    BY <1>18 DEF LoadDatabase, PagerInv, DurableInv, LogShape
  <2>2. /\ \A p \in PagesOf(committed) : filePages[p] = ContentOf(committed, p)
        /\ \A p \in DOMAIN committed : p < fileCount
    BY <2>1, EmptyLogFile
  <2>3. committed = [p \in DOMAIN committed |-> committed[p]] /\ DOMAIN committed \subseteq DataPage
    BY DEF PagerInv, DurableInv, Kept, Database
  <2>4. /\ resident' = {CatalogPage} /\ filePages' = filePages
        /\ owned' = filePages[CatalogPage] /\ freeIds' = {} /\ pageCount' = fileCount
        /\ current' = committed
    BY <1>18 DEF LoadDatabase
  <2>5. owned' = DOMAIN committed
    BY <2>2, <2>4 DEF PagesOf, ContentOf
  <2>6. \A p \in owned' : PageImage(p)' = committed[p]
    BY <2>2, <2>3, <2>4, <2>5, PageFacts DEF PageImage, PagesOf, ContentOf
  <2>7. Seen' = current'
    BY <2>3, <2>4, <2>5, <2>6 DEF Seen
  <2> QED
    BY <2>2, <2>4, <2>5, <2>7 DEF Viewed
<1>19. ASSUME RefuseDatabase
       PROVE  ~Running'
  BY <1>19 DEF RefuseDatabase, Running, Stopped
<1>20. ~FailStatement /\ ~FailSync /\ ~FailTruncate /\ (\A p \in Page : ~FailAppend(p))
  BY DEF FailStatement, FailSync, FailTruncate, FailAppend
<1>21. CASE UNCHANGED vars
  BY <1>0, <1>21 DEF vars, Viewed, Seen, PageImage, Running, Stopped, RollingBack
<1>22. ~Running' => Viewed'
  BY DEF Viewed
<1> QED
  BY <1>2, <1>3, <1>4, <1>5, <1>7, <1>8, <1>9, <1>10, <1>11, <1>12, <1>13, <1>14,
     <1>15, <1>16, <1>17, <1>18, <1>19, <1>20, <1>21, <1>22 DEF Next, Progress

\* The catalog page is written when what it should say has changed.
LEMMA NextCatalogFollows ==
    ASSUME Faults \cap {"statement", "append", "truncate"} = {}
    PROVE  PagerInv /\ [Next]_vars => CatalogFollows'
<1> SUFFICES ASSUME PagerInv, [Next]_vars PROVE CatalogFollows'
  OBVIOUS
<1> USE DEF poolVars, memoryVars, txVars, fileVars, logVars, openVars, stepVars,
            ghostVars, counterVars
<1>0. /\ CatalogFollows /\ Purposes
      /\ image \in [Page -> Content] /\ filePages \in [Page -> Content]
      /\ resident \subseteq Page /\ dirty \subseteq resident /\ logged \subseteq dirty
      /\ owned \subseteq DataPage /\ todo \subseteq dirty
      /\ Running => DOMAIN current = owned
      /\ transactionOpen \in BOOLEAN /\ schemaChanged \in BOOLEAN
      /\ phase \notin {"down", "replay", "recovered", "load", "refused"} => walIsOpen
  BY DEF PagerInv, DurableInv, TypeInv, TypeOK, PoolOK, FileOK, MemoryOK, StepOK,
     FlagsOK, LoggedInv, Viewed, Seen
<1> USE DEF CatalogFollows, Running, Stopped, RollingBack
<1>1. ASSUME NEW kind \in {"rows", "schema"}, StartStatement(kind)
      PROVE  CatalogFollows'
  BY <1>0, <1>1 DEF StartStatement, PageImage
<1>2. ASSUME NEW p \in DataPage, NEW v \in Value, WritePage(p, v)
      PROVE  CatalogFollows'
  BY <1>2 DEF WritePage, DirtyFrame
<1>3. ASSUME NEW p \in DataPage, AllocatePage(p)
      PROVE  CatalogFollows'
  BY <1>3 DEF AllocatePage, DirtyFrame
<1>4. ASSUME NEW p \in DataPage, FreePage(p)
      PROVE  CatalogFollows'
  BY <1>4 DEF FreePage
<1>5. ASSUME NEW changed, CommitDatabase(changed), walIsOpen, Running,
             ~changed => ~schemaChanged /\ phase # "schema",
             UNCHANGED <<owned, filePages, current>>
      PROVE  CatalogFollows'
  <2>1. CASE dirty = {} /\ ~changed
    <3>1. PageImage(CatalogPage) = owned /\ DOMAIN current = owned
      BY <1>0, <1>5, <2>1
    <3> QED
      BY <1>5, <2>1, <3>1 DEF CommitDatabase, PageImage
  <2>2. CASE ~(dirty = {} /\ ~changed)
    BY <1>5, <2>2 DEF CommitDatabase, DirtyFrame
  <2> QED
    BY <2>1, <2>2
<1>6. ASSUME FinishStatement
      PROVE  CatalogFollows'
  <2>1. CASE transactionOpen
    BY <1>0, <1>6, <2>1 DEF FinishStatement, Executing, PageImage
  <2>2. CASE ~transactionOpen
    <3>1. CommitDatabase(schemaChanged') /\ schemaChanged' = (schemaChanged \/ phase = "schema")
      BY <1>6, <2>2 DEF FinishStatement
    <3>2. walIsOpen /\ Running /\ UNCHANGED <<owned, filePages, current>>
      BY <1>0, <1>6 DEF FinishStatement, Executing
    <3>3. ~schemaChanged' => ~schemaChanged /\ phase # "schema"
      BY <3>1
    <3> HIDE DEF CatalogFollows, Running
    <3> QED
      BY <1>5, <3>1, <3>2, <3>3
  <2> QED
    BY <2>1, <2>2
<1>7. ASSUME CommitTransaction
      PROVE  CatalogFollows'
  <2>1. CommitDatabase(schemaChanged) /\ walIsOpen /\ Running /\ phase # "schema"
    BY <1>0, <1>7 DEF CommitTransaction
  <2>2. UNCHANGED <<owned, filePages, current>>
    BY <1>7 DEF CommitTransaction
  <2> HIDE DEF CatalogFollows, Running
  <2> QED
    BY <1>5, <2>1, <2>2
<1>8. ASSUME NEW p \in Page, AppendFrame(p)
      PROVE  CatalogFollows'
  BY <1>0, <1>8 DEF AppendFrame, PageImage
<1>9. ASSUME SyncLog
      PROVE  CatalogFollows'
  <2>1. CatalogPage \in dirty /\ image[CatalogPage] = owned
    BY <1>9 DEF SyncLog, PagerInv, DurableInv, Appending
  <2> QED
    BY <1>0, <1>9, <2>1 DEF SyncLog, PageImage
<1>10. ASSUME NEW p \in Page, EvictPage(p)
       PROVE  CatalogFollows'
  <2>1. PageImage(CatalogPage)' = PageImage(CatalogPage)
    BY <1>10, ImageAfterEviction, PageFacts
  <2>2. dirty' \ logged' = dirty \ logged
    BY <1>0, <1>10 DEF EvictPage, DropFrames
  <2> QED
    BY <1>0, <1>10, <2>1, <2>2 DEF EvictPage, Executing
<1>11. ASSUME NEW p \in Page, FaultPage(p)
       PROVE  CatalogFollows'
  <2>1. PageImage(CatalogPage)' = PageImage(CatalogPage)
    BY <1>0, <1>11, PageFacts DEF FaultPage, PageImage
  <2> QED
    BY <1>0, <1>11, <2>1 DEF FaultPage, Executing
<1>12. ASSUME NEW p \in Page, FlushFrame(p)
       PROVE  CatalogFollows'
  <2>1. PageImage(CatalogPage)' = PageImage(CatalogPage)
    BY <1>0, <1>12, PageFacts DEF FlushFrame, WriteFilePage, PageImage
  <2>2. Running => dirty' \ logged' = dirty \ logged
    BY <1>0, <1>12 DEF FlushFrame, PagerInv, LoggedInv
  <2> QED
    BY <1>0, <1>12, <2>1, <2>2 DEF FlushFrame
<1>13. ASSUME \/ BeginTransaction \/ CloseDatabase \/ WriteHeader \/ SyncFile \/ TruncateLog
       PROVE  CatalogFollows'
  BY <1>0, <1>13 DEF BeginTransaction, CloseDatabase, StartCheckpoint, WriteHeader,
     SyncFile, TruncateLog, PageImage
<1>14. ASSUME FailFlush
       PROVE  CatalogFollows'
  BY <1>0, <1>14 DEF FailFlush, PageImage, Purposes, Checkpointing
<1>15. ASSUME EndCheckpoint
       PROVE  CatalogFollows'
  BY <1>0, <1>15 DEF EndCheckpoint, PageImage
<1>16. ASSUME RollbackTransaction
       PROVE  CatalogFollows'
  BY <1>16 DEF RollbackTransaction, StartCheckpoint
<1>17. ASSUME Crash \/ Recover \/ ReplayFrame \/ ReplayHeader \/ FinishRecovery
       PROVE  CatalogFollows'
  BY <1>17 DEF Crash, Recover, ReplayFrame, ReplayHeader, FinishRecovery, PagerInv, LoggedInv
<1>18. ASSUME LoadDatabase
       PROVE  CatalogFollows'
  <2>1. log = <<>>
    BY <1>18 DEF LoadDatabase, PagerInv, DurableInv, LogShape
  <2>2. filePages[CatalogPage] = DOMAIN committed
    BY <2>1, EmptyLogFile DEF PagesOf, ContentOf
  <2> QED
    BY <1>18, <2>2, PageFacts DEF LoadDatabase, PageImage
<1>19. ASSUME RefuseDatabase
       PROVE  CatalogFollows'
  BY <1>19 DEF RefuseDatabase
<1>20. ~FailStatement /\ ~FailSync /\ ~FailTruncate /\ (\A p \in Page : ~FailAppend(p))
  BY DEF FailStatement, FailSync, FailTruncate, FailAppend
<1>21. CASE UNCHANGED vars
  BY <1>0, <1>21 DEF vars, PageImage
<1> QED
  <2> HIDE DEF CatalogFollows
  <2> QED
    BY <1>1, <1>2, <1>3, <1>4, <1>6, <1>7, <1>8, <1>9, <1>10, <1>11, <1>12, <1>13,
       <1>14, <1>15, <1>16, <1>17, <1>18, <1>19, <1>20, <1>21 DEF Next, Progress

\* Every clean page stays rebuildable as it is, every logged one logged as it is.
LEMMA NextBacked ==
    ASSUME Faults \cap {"statement", "append", "truncate"} = {}
    PROVE  PagerInv /\ [Next]_vars => Backed'
<1> SUFFICES ASSUME PagerInv, [Next]_vars PROVE Backed'
  OBVIOUS
<1> USE DEF poolVars, memoryVars, txVars, fileVars, logVars, openVars, stepVars,
            ghostVars, counterVars
<1>0. /\ Backed /\ Purposes
      /\ image \in [Page -> Content] /\ filePages \in [Page -> Content]
      /\ diskPages \in [Page -> SUBSET Content]
      /\ resident \subseteq Page /\ dirty \subseteq resident /\ logged \subseteq dirty
      /\ owned \subseteq DataPage /\ todo \subseteq dirty
      /\ log \in Seq(Frame) /\ Len(log) \in Nat /\ synced \in 0 .. Len(log)
  BY DEF PagerInv, DurableInv, TypeInv, TypeOK, PoolOK, FileOK, MemoryOK, StepOK, LogOK
<1>1. owned \cup {CatalogPage} \subseteq Page
  BY <1>0, PageFacts
<1>2. ASSUME Running' => Running,
             UNCHANGED <<log, synced, image, dirty, logged, owned, filePages, diskPages>>
      PROVE  Backed'
  BY <1>0, <1>2 DEF Backed
<1>3. ASSUME NEW p \in Page, NEW c, Running, DirtyFrame(p, c), owned' \subseteq owned \cup {p},
             UNCHANGED <<log, synced, filePages, diskPages>>
      PROVE  Backed'
  <2>1. \A q \in logged' : q \in logged /\ image'[q] = image[q]
    BY <1>0, <1>3 DEF DirtyFrame
  <2>2. (owned' \cup {CatalogPage}) \ dirty' \subseteq (owned \cup {CatalogPage}) \ dirty
    BY <1>3 DEF DirtyFrame
  <2> QED
    BY <1>0, <1>3, <2>1, <2>2 DEF Backed
<1>4. ASSUME NEW changed, CommitDatabase(changed), Running, Running' => Running,
             UNCHANGED <<log, synced, owned, filePages, diskPages>>
      PROVE  Backed'
  <2>1. CASE ~walIsOpen \/ (dirty = {} /\ ~changed)
    BY <1>2, <1>4, <2>1 DEF CommitDatabase
  <2>2. CASE ~(~walIsOpen \/ (dirty = {} /\ ~changed))
    BY <1>3, <1>4, <2>2, PageFacts DEF CommitDatabase
  <2> QED
    BY <2>1, <2>2
<1>5. ASSUME NEW kind \in {"rows", "schema"}, StartStatement(kind)
      PROVE  Backed'
  BY <1>2, <1>5 DEF StartStatement, Running, Stopped, RollingBack
<1>6. ASSUME NEW p \in DataPage, NEW v \in Value, WritePage(p, v)
      PROVE  Backed'
  BY <1>3, <1>6, PageFacts DEF WritePage, Executing, Running, Stopped, RollingBack
<1>7. ASSUME NEW p \in DataPage, AllocatePage(p)
      PROVE  Backed'
  BY <1>3, <1>7, PageFacts DEF AllocatePage, Executing, Running, Stopped, RollingBack
<1>8. ASSUME NEW p \in DataPage, FreePage(p)
      PROVE  Backed'
  <2>1. /\ Running
        /\ UNCHANGED <<log, synced, filePages, diskPages>>
        /\ owned' = owned \ {p}
        /\ dirty' = dirty \ {p} /\ logged' = logged \ {p}
        /\ image' = [q \in Page |-> IF q \in {p} THEN Blank ELSE image[q]]
    BY <1>8 DEF FreePage, DropFrames, Running, Stopped, RollingBack
  <2>2. \A q \in logged' : q \in logged /\ image'[q] = image[q]
    BY <1>0, <2>1
  <2>3. (owned' \cup {CatalogPage}) \ dirty' \subseteq (owned \cup {CatalogPage}) \ dirty
    BY <2>1, PageFacts
  <2> QED
    BY <1>0, <2>1, <2>2, <2>3 DEF Backed
<1>9. ASSUME FinishStatement
      PROVE  Backed'
  <2>1. Running
    BY <1>9 DEF FinishStatement, Executing, Running, Stopped, RollingBack
  <2>2. CASE transactionOpen
    BY <1>2, <1>9, <2>1, <2>2 DEF FinishStatement
  <2>3. CASE ~transactionOpen
    BY <1>4, <1>9, <2>1, <2>3 DEF FinishStatement
  <2> QED
    BY <2>2, <2>3
<1>10. ASSUME CommitTransaction
       PROVE  Backed'
  BY <1>4, <1>10 DEF CommitTransaction, Running, Stopped, RollingBack
<1>11. ASSUME NEW p \in Page, AppendFrame(p)
       PROVE  Backed'
  <2>1. /\ log' = Append(log, LogFrame(p, todo = {p}))
        /\ Running
        /\ UNCHANGED <<synced, image, dirty, logged, owned, filePages, diskPages>>
    BY <1>11 DEF AppendFrame, Running, Stopped, RollingBack
  <2>2. LogFrame(p, todo = {p}) \in Frame
    BY LogFrameType DEF PagerInv, TypeInv, TypeOK
  <2>3. \A i \in 1 .. synced : log'[i] = log[i]
    BY <1>0, <2>1, <2>2, AppendProperties
  <2>4. synced \in Nat
    BY <1>0
  <2>5. /\ \A q, c : LogHolds(log', synced, q, c) <=> LogHolds(log, synced, q, c)
        /\ \A disk, q, c : Replays(log', synced, disk, q, c)
                             <=> Replays(log, synced, disk, q, c)
    BY <2>3, <2>4, SameFrames
  <2> QED
    BY <1>0, <2>1, <2>5 DEF Backed
<1>12. ASSUME SyncLog
       PROVE  Backed'
  <2>1. /\ phase = "sync"
        /\ synced' = Len(log) /\ logged' = dirty
        /\ UNCHANGED <<log, image, dirty, owned, filePages, diskPages>>
    BY <1>12 DEF SyncLog
  <2> QED
    BY <2>1, SyncedPages DEF Backed
<1>13. ASSUME NEW p \in Page, p \in dirty => p \in logged /\ WriteFilePage(p, image[p]),
              p \notin dirty => UNCHANGED <<filePages, diskPages>>,
              dirty' = dirty \ {p}, logged' = logged \ {p},
              \A q \in logged' : image'[q] = image[q],
              Running, UNCHANGED <<log, synced, owned>>
       PROVE  Backed'
  <2>1. ASSUME NEW q \in logged'
        PROVE  LogHolds(log', synced', q, image'[q])
    BY <1>0, <1>13 DEF Backed
  <2>2. ASSUME NEW q \in (owned' \cup {CatalogPage}) \ dirty'
        PROVE  Replays(log', synced', diskPages', q, filePages'[q])
    <3>1. CASE q \in dirty
      <4>1. q = p /\ q \in logged /\ filePages'[q] = image[q]
        BY <1>0, <1>13, <3>1 DEF WriteFilePage
      <4> QED
        BY <1>0, <1>13, <4>1 DEF Backed, Replays
    <3>2. CASE q \notin dirty
      <4>1. filePages'[q] = filePages[q] /\ diskPages'[q] = diskPages[q]
        BY <1>0, <1>1, <1>13, <3>2, <2>2 DEF WriteFilePage
      <4>2. Replays(log, synced, diskPages, q, filePages[q])
        BY <1>0, <1>13, <2>2, <3>2 DEF Backed
      <4> QED
        BY <1>13, <4>1, <4>2 DEF Replays
    <3> QED
      BY <3>1, <3>2
  <2> QED
    BY <2>1, <2>2 DEF Backed
<1>14. ASSUME NEW p \in Page, EvictPage(p)
       PROVE  Backed'
  <2>1. \A q \in logged \ {p} : image'[q] = image[q]
    BY <1>0, <1>14 DEF EvictPage, DropFrames
  <2>2. Running /\ UNCHANGED <<log, synced, owned>>
    BY <1>14 DEF EvictPage, Executing, Running, Stopped, RollingBack
  <2> QED
    BY <1>13, <1>14, <2>1, <2>2 DEF EvictPage, DropFrames
<1>15. ASSUME NEW p \in Page, FlushFrame(p)
       PROVE  Backed'
  <2>1. p \in dirty /\ p \in logged /\ Running
    BY <1>0, <1>15 DEF FlushFrame, PagerInv, LoggedInv, Purposes, Running, Stopped,
       RollingBack, Checkpointing
  <2> QED
    BY <1>13, <1>15, <2>1 DEF FlushFrame
<1>16. ASSUME NEW p \in Page, FaultPage(p)
       PROVE  Backed'
  <2>1. /\ p \notin resident
        /\ UNCHANGED <<log, synced, dirty, logged, owned, filePages, diskPages>>
        /\ image' = [image EXCEPT ![p] = filePages[p]]
        /\ Running
    BY <1>16 DEF FaultPage, Executing, Running, Stopped, RollingBack
  <2>2. \A q \in logged : image'[q] = image[q]
    BY <1>0, <2>1
  <2> QED
    BY <1>0, <2>1, <2>2 DEF Backed
<1>17. ASSUME BeginTransaction \/ CloseDatabase \/ WriteHeader
       PROVE  Backed'
  BY <1>2, <1>17 DEF BeginTransaction, CloseDatabase, StartCheckpoint, WriteHeader,
     Running, Stopped, RollingBack
<1>18. ASSUME FailFlush
       PROVE  Backed'
  BY <1>0, <1>2, <1>18 DEF FailFlush, Running, Stopped, RollingBack, Purposes, Checkpointing
<1>19. ASSUME SyncFile
       PROVE  Backed'
  <2>1. /\ diskPages' = [q \in Page |-> {filePages[q]}]
        /\ UNCHANGED <<log, synced, image, dirty, logged, owned, filePages>>
        /\ Running' => Running
    BY <1>19 DEF SyncFile, SyncHandle, Running, Stopped, RollingBack
  <2>2. ASSUME NEW q \in Page, Replays(log, synced, diskPages, q, filePages[q])
        PROVE  Replays(log, synced, diskPages', q, filePages[q])
    BY <2>1, <2>2 DEF Replays
  <2> QED
    BY <1>0, <1>1, <2>1, <2>2 DEF Backed
<1>20. ASSUME TruncateLog
       PROVE  Backed'
  <2>1. phase = "truncate" /\ UNCHANGED <<image, dirty, logged, owned, filePages, diskPages,
                                          purpose>>
    BY <1>20 DEF TruncateLog
  <2>2. log' = <<>> /\ synced' = 0
    BY <1>20 DEF TruncateLog, RemoveLog, PagerInv, LoggedInv
  <2>3. CASE RollingBack
    <3>1. log = <<>> /\ synced = 0
      BY <1>0, <2>3, EmptySeq DEF PagerInv, DurableInv, LogShape
    <3>2. ~Running'
      BY <1>20, <2>1, <2>3 DEF TruncateLog, Running, RollingBack
    <3> QED
      BY <1>0, <2>1, <2>2, <3>1, <3>2 DEF Backed
  <2>4. CASE ~RollingBack
    <3>1. dirty = {} /\ logged = {}
      BY <1>0, <2>1, <2>4 DEF PagerInv, DurableInv, Settled
    <3>2. \A q \in Page : diskPages[q] = {filePages[q]}
      BY <2>1 DEF PagerInv, DurableInv, FileShape
    <3>3. \A q : ~InLog(log', 0, q)
      BY DEF InLog
    <3> QED
      BY <1>1, <2>1, <2>2, <3>1, <3>2, <3>3 DEF Backed, Replays
  <2> QED
    BY <2>3, <2>4
<1>21. ASSUME EndCheckpoint
       PROVE  Backed'
  <2>1. CASE purpose = "begin"
    BY <1>2, <1>21, <2>1 DEF EndCheckpoint, Running, Stopped, RollingBack
  <2>2. CASE purpose # "begin"
    <3>1. ~Running' /\ UNCHANGED <<log, synced>>
      BY <1>21, <2>2 DEF EndCheckpoint, Running, Stopped, RollingBack
    <3>2. logged' = {} \/ (logged' = logged /\ image' = image)
      BY <1>21, <2>2 DEF EndCheckpoint, ForgetMemory
    <3> QED
      BY <1>0, <3>1, <3>2 DEF Backed
  <2> QED
    BY <2>1, <2>2
<1>22. ASSUME ~Running', logged' = {}
       PROVE  Backed'
  BY <1>22 DEF Backed
<1>23. ASSUME RollbackTransaction \/ Crash \/ RefuseDatabase
       PROVE  Backed'
  <2>1. ~Running'
    BY <1>23 DEF RollbackTransaction, StartCheckpoint, Crash, RefuseDatabase, Running,
       Stopped, RollingBack
  <2>2. logged' = {}
    BY <1>0, <1>23 DEF RollbackTransaction, DropFrames, Crash, RefuseDatabase, ForgetMemory
  <2> QED
    BY <1>22, <2>1, <2>2
<1>24. ASSUME Recover \/ ReplayFrame \/ ReplayHeader \/ FinishRecovery
       PROVE  Backed'
  <2>1. ~Running'
    BY <1>24 DEF Recover, ReplayFrame, ReplayHeader, FinishRecovery, Running, Stopped,
       PagerInv, LoggedInv
  <2>2. logged' = {}
    BY <1>0, <1>24 DEF Recover, ReplayFrame, ReplayHeader, FinishRecovery, PagerInv,
       CleanInv, StoppedIsEmpty
  <2> QED
    BY <1>22, <2>1, <2>2
<1>25. ASSUME LoadDatabase
       PROVE  Backed'
  <2>1. log = <<>> /\ synced = 0
    BY <1>0, <1>25, EmptySeq DEF LoadDatabase, PagerInv, DurableInv, LogShape
  <2>2. \A p \in PagesOf(committed) : diskPages[p] = {filePages[p]}
    BY <2>1, EmptyLogFile
  <2>3. filePages[CatalogPage] = DOMAIN committed
    BY <2>1, EmptyLogFile DEF PagesOf, ContentOf
  <2>4. \A q : ~InLog(log, 0, q)
    BY DEF InLog
  <2>5. /\ logged' = {} /\ dirty' = {}
        /\ owned' = filePages[CatalogPage]
        /\ UNCHANGED <<log, synced, filePages, diskPages>>
    BY <1>25 DEF LoadDatabase
  <2> QED
    BY <2>1, <2>2, <2>3, <2>4, <2>5 DEF Backed, Replays, PagesOf
<1>26. ~FailStatement /\ ~FailSync /\ ~FailTruncate /\ (\A p \in Page : ~FailAppend(p))
  BY DEF FailStatement, FailSync, FailTruncate, FailAppend
<1>27. CASE UNCHANGED vars
  BY <1>2, <1>27 DEF vars, Running, Stopped, RollingBack
<1> QED
  BY <1>5, <1>6, <1>7, <1>8, <1>9, <1>10, <1>11, <1>12, <1>14, <1>15, <1>16, <1>17,
     <1>18, <1>19, <1>20, <1>21, <1>23, <1>24, <1>25, <1>26, <1>27 DEF Next, Progress

\* A replay puts the frames it has come past into the file, in their order.
LEMMA NextReplayed == PagerInv /\ [Next]_vars => Replayed'
<1> SUFFICES ASSUME PagerInv, [Next]_vars PROVE Replayed'
  OBVIOUS
<1> USE DEF poolVars, memoryVars, txVars, fileVars, logVars, openVars, stepVars,
            ghostVars, counterVars
<1>0. /\ Replayed
      /\ filePages \in [Page -> Content]
      /\ log \in Seq(Frame) /\ Len(log) \in Nat
      /\ LastGood(log) \in 0 .. Len(log)
      /\ position \in Nat
      /\ phase = "replay" => position >= 1
  BY LastGoodType DEF PagerInv, DurableInv, TypeInv, TypeOK, FileOK, LogOK, StepOK,
     StepsAreInOrder
<1>1. ASSUME Recover
      PROVE  Replayed'
  <2>1. CASE LastGood(log) = 0
    BY <1>1, <2>1 DEF Recover, Replayed
  <2>2. CASE LastGood(log) # 0
    BY <1>0, <1>1, <2>2 DEF Recover, Replayed
  <2> QED
    BY <2>1, <2>2
<1>2. ASSUME ReplayFrame
      PROVE  Replayed'
  <2>1. /\ phase = "replay" /\ phase' = "replay"
        /\ position <= LastGood(log) /\ position' = position + 1
        /\ log' = log
        /\ filePages' = [filePages EXCEPT ![log[position].page] = log[position].image]
    BY <1>2 DEF ReplayFrame, WriteFilePage
  <2>2. \A i \in 1 .. position : log[i].page \in Page
    <3> TAKE i \in 1 .. position
    <3>1. i \in 1 .. Len(log)
      BY <1>0, <2>1
    <3>2. log[i] \in Frame
      BY <1>0, <3>1, ElementOfSeq
    <3> QED
      BY <3>2 DEF Frame
  <2>3. ASSUME NEW i \in 1 .. position,
               \A j \in i + 1 .. position : log[j].page # log[i].page
        PROVE  filePages'[log[i].page] = log[i].image
    <3>1. CASE i = position
      BY <1>0, <2>1, <2>2, <3>1
    <3>2. CASE i # position
      <4>1. log[position].page # log[i].page
        BY <1>0, <2>1, <2>3, <3>2
      <4>2. filePages[log[i].page] = log[i].image
        BY <1>0, <2>1, <2>3, <3>2 DEF Replayed
      <4>3. filePages'[log[i].page] = filePages[log[i].page]
        BY <1>0, <2>1, <2>2, <4>1
      <4> QED
        BY <4>2, <4>3
    <3> QED
      BY <3>1, <3>2
  <2>4. position' - 1 = position /\ position' <= LastGood(log) + 1
    BY <1>0, <2>1
  <2>5. LastGood(log') # 0
    BY <1>0, <2>1 DEF Replayed
  <2> QED
    BY <2>1, <2>3, <2>4, <2>5 DEF Replayed
<1>3. ASSUME ReplayHeader
      PROVE  Replayed'
  <2>1. /\ phase = "replay" /\ phase' = "recovered"
        /\ position > LastGood(log)
        /\ fileCount' = log[LastGood(log)].pageCount
        /\ UNCHANGED <<position, log, filePages>>
    BY <1>3 DEF ReplayHeader, WriteHeaderCount
  <2>2. position = LastGood(log) + 1
    BY <1>0, <2>1 DEF Replayed
  <2> QED
    BY <1>0, <2>1, <2>2 DEF Replayed
<1>4. ASSUME NEW kind \in {"rows", "schema"}, StartStatement(kind)
      PROVE  phase' \notin {"replay", "recovered"}
  BY <1>4 DEF StartStatement
<1>5. ASSUME NEW p, NEW v, WritePage(p, v)
      PROVE  phase' \notin {"replay", "recovered"}
  BY <1>5 DEF WritePage, Executing
<1>6. ASSUME NEW p, \/ AllocatePage(p) \/ FreePage(p) \/ EvictPage(p) \/ FaultPage(p)
                    \/ AppendFrame(p) \/ FailAppend(p) \/ FlushFrame(p)
      PROVE  phase' \notin {"replay", "recovered"}
  BY <1>6 DEF AllocatePage, FreePage, EvictPage, FaultPage, AppendFrame, FailAppend,
     FlushFrame, Executing
<1>7. ASSUME FinishStatement \/ CommitTransaction \/ FailStatement \/ FailSync \/ SyncLog
      PROVE  phase' \notin {"replay", "recovered"}
  BY <1>7 DEF FinishStatement, CommitTransaction, CommitDatabase, Executing, FailStatement,
     FailSync, SyncLog
<1>8. ASSUME \/ BeginTransaction \/ RollbackTransaction \/ CloseDatabase \/ WriteHeader
             \/ SyncFile \/ TruncateLog \/ FailTruncate \/ FailFlush \/ EndCheckpoint
      PROVE  phase' \notin {"replay", "recovered"}
  BY <1>8 DEF BeginTransaction, RollbackTransaction, CloseDatabase, StartCheckpoint,
     WriteHeader, SyncFile, TruncateLog, FailTruncate, FailFlush, EndCheckpoint
<1>9. ASSUME Crash \/ FinishRecovery \/ LoadDatabase \/ RefuseDatabase
      PROVE  phase' \notin {"replay", "recovered"}
  BY <1>9 DEF Crash, FinishRecovery, LoadDatabase, RefuseDatabase
<1>10. phase' \notin {"replay", "recovered"} => Replayed'
  BY DEF Replayed
<1>11. CASE UNCHANGED vars
  BY <1>0, <1>11 DEF vars, Replayed
<1> QED
  BY <1>1, <1>2, <1>3, <1>4, <1>5, <1>6, <1>7, <1>8, <1>9, <1>10, <1>11 DEF Next, Progress

-----------------------------------------------------------------------------
(* The write-ahead rule. *)

\* A commit that writes nothing has nothing to keep.
LEMMA NothingToCommit ==
    ASSUME PagerInv, Running, dirty = {}, ~schemaChanged, phase # "schema"
    PROVE  current = committed
<1>1. /\ PageImage(CatalogPage) = owned /\ DOMAIN committed = owned
      /\ Seen = current
      /\ \A p \in owned : Replays(log, synced, diskPages, p, filePages[p])
  BY DEF PagerInv, DurableInv, CatalogFollows, Viewed, Backed
<1>2. /\ committed \in Database
      /\ \A p \in owned : Replays(log, synced, diskPages, p, ContentOf(committed, p))
  BY <1>1 DEF PagerInv, DurableInv, Kept, Rebuilds, Trusted, Running, PagesOf
<1>3. synced \in Nat /\ CatalogPage \notin owned
  BY PageFacts DEF PagerInv, TypeInv, TypeOK, LogOK, MemoryOK
<1>4. \A p \in owned : filePages[p] = committed[p]
  BY <1>1, <1>2, <1>3, ReplaysOnce DEF ContentOf
<1>5. Seen = [p \in owned |-> filePages[p]]
  BY ImageOfPage DEF Seen
<1>6. committed = [p \in owned |-> committed[p]]
  BY <1>1, <1>2 DEF Database
<1> QED
  BY <1>1, <1>4, <1>5, <1>6

\* A log that is synced ends in a marker, and recovery trusts all of it.
LEMMA TrustedIsLastGood ==
    ASSUME PagerInv, NEW n \in synced .. Len(log), ~(phase = "sync" /\ n = Len(log))
    PROVE  /\ LastGood(SubSeq(log, 1, n)) = Trusted
           /\ Trusted \in 0 .. n
           /\ \A i \in 1 .. Trusted : SubSeq(log, 1, n)[i] = log[i]
<1> DEFINE cut == SubSeq(log, 1, n)
<1>1. log \in Seq(Frame) /\ Len(log) \in Nat /\ synced \in 0 .. Len(log) /\ n \in 0 .. Len(log)
  BY DEF PagerInv, TypeInv, TypeOK, LogOK
<1>2. /\ cut \in Seq(Frame) /\ Len(cut) = n
      /\ \A i \in 1 .. n : cut[i] = log[i]
      /\ n = Len(log) => cut = log
  BY <1>1, FirstFrames
<1>3. LogShape
  BY DEF PagerInv, DurableInv
<1> HIDE DEF cut
<1>4. CASE Stopped
  <2>1. n = Len(log)
    BY <1>1, <1>3, <1>4 DEF LogShape, Stopped
  <2>2. Trusted \in 0 .. n
    BY <1>1, <1>4, <2>1, LastGoodType DEF Trusted
  <2> QED
    BY <1>2, <1>4, <2>1, <2>2 DEF Trusted, cut
<1>5. CASE ~Stopped
  <2>1. Trusted = synced /\ synced \in 0 .. n
    BY <1>1, <1>5 DEF Trusted
  <2>2. \A i \in 1 .. synced : cut[i].whole
    BY <1>1, <1>2, <1>3 DEF LogShape
  <2>3. synced = 0 \/ cut[synced].commit
    BY <1>1, <1>2, <1>3, <1>5 DEF LogShape
  <2>4. \A i \in synced + 1 .. n : ~cut[i].commit
    BY <1>1, <1>2, <1>3 DEF LogShape
  <2>5. LastGood(cut) = synced
    BY <1>2, <2>1, <2>2, <2>3, <2>4, LastGoodIs
  <2> QED
    BY <1>1, <1>2, <2>1, <2>5 DEF cut
<1> QED
  BY <1>4, <1>5

\* What was committed is rebuilt from what a crash leaves, whatever is written,
\* synced, removed or torn.
LEMMA NextKept ==
    ASSUME Faults \cap {"statement", "append", "truncate"} = {}
    PROVE  PagerInv /\ [Next]_vars => Kept'
<1> SUFFICES ASSUME PagerInv, [Next]_vars PROVE Kept'
  OBVIOUS
<1> USE DEF poolVars, memoryVars, txVars, fileVars, logVars, openVars, stepVars,
            ghostVars, counterVars
<1>0. /\ Kept /\ Purposes
      /\ log \in Seq(Frame) /\ Len(log) \in Nat /\ synced \in 0 .. Len(log)
      /\ staleLog \in Seq(Frame)
      /\ filePages \in [Page -> Content] /\ diskPages \in [Page -> SUBSET Content]
      /\ PagesOf(committed) \subseteq Page
      /\ synced > 0 => staleLog = <<>>
      /\ phase \notin {"down", "replay", "recovered", "load", "refused"} => walIsOpen
  BY PageFacts DEF PagerInv, DurableInv, TypeInv, TypeOK, LogOK, FileOK, GhostOK, PagesOf,
     LogShape, LoggedInv
<1>1. ASSUME UNCHANGED <<log, diskPages, diskCount, committed, staleLog>>,
             Trusted' = Trusted
      PROVE  Kept'
  BY <1>0, <1>1 DEF Kept
<1>2. ASSUME UNCHANGED <<log, synced, diskPages, diskCount, committed, staleLog>>,
             ~Stopped, ~Stopped'
      PROVE  Kept'
  BY <1>1, <1>2 DEF Trusted
<1>3. ASSUME log = <<>>, UNCHANGED <<log, synced, diskPages, diskCount, committed, staleLog>>
      PROVE  Kept'
  <2>1. synced = 0
    BY <1>0, <1>3, EmptySeq
  <2>2. LastGood(log) = 0
    BY <1>3, NothingLogged
  <2> QED
    BY <1>1, <1>3, <2>1, <2>2 DEF Trusted
<1>4. ASSUME NEW kind \in {"rows", "schema"}, StartStatement(kind)
      PROVE  Kept'
  BY <1>2, <1>4 DEF StartStatement, Stopped
<1>5. ASSUME NEW p \in DataPage, NEW v \in Value, WritePage(p, v)
      PROVE  Kept'
  BY <1>2, <1>5 DEF WritePage, Executing, Stopped
<1>6. ASSUME NEW p \in DataPage, AllocatePage(p) \/ FreePage(p)
      PROVE  Kept'
  BY <1>2, <1>6 DEF AllocatePage, FreePage, Executing, Stopped
<1>7. ASSUME NEW changed, CommitDatabase(changed), walIsOpen, Running,
             ~changed => ~schemaChanged /\ phase # "schema"
      PROVE  committed' = committed
  <2>1. CASE dirty = {} /\ ~changed
    BY <1>7, <2>1, NothingToCommit DEF CommitDatabase
  <2>2. CASE ~(dirty = {} /\ ~changed)
    BY <1>7, <2>2 DEF CommitDatabase
  <2> QED
    BY <2>1, <2>2
<1>8. ASSUME FinishStatement
      PROVE  Kept'
  <2>1. Running /\ walIsOpen /\ ~Stopped /\ ~Stopped'
    BY <1>0, <1>8 DEF FinishStatement, CommitDatabase, Executing, Running, Stopped, RollingBack
  <2>2. UNCHANGED <<log, synced, diskPages, diskCount, staleLog>>
    BY <1>8 DEF FinishStatement
  <2>3. CASE transactionOpen
    BY <1>2, <1>8, <2>1, <2>2, <2>3 DEF FinishStatement
  <2>4. CASE ~transactionOpen
    <3>1. CommitDatabase(schemaChanged') /\ schemaChanged' = (schemaChanged \/ phase = "schema")
      BY <1>8, <2>4 DEF FinishStatement
    <3>2. ~schemaChanged' => ~schemaChanged /\ phase # "schema"
      BY <3>1
    <3> QED
      BY <1>2, <1>7, <2>1, <2>2, <3>1, <3>2
  <2> QED
    BY <2>3, <2>4
<1>9. ASSUME CommitTransaction
      PROVE  Kept'
  <2>1. Running /\ walIsOpen /\ ~Stopped /\ ~Stopped' /\ phase # "schema"
    BY <1>0, <1>9 DEF CommitTransaction, CommitDatabase, Running, Stopped, RollingBack
  <2>2. UNCHANGED <<log, synced, diskPages, diskCount, staleLog>> /\ CommitDatabase(schemaChanged)
    BY <1>9 DEF CommitTransaction
  <2> QED
    BY <1>2, <1>7, <2>1, <2>2
<1>10. ASSUME NEW p \in Page, AppendFrame(p)
       PROVE  Kept'
  <2>1. /\ log' = Append(log, LogFrame(p, todo = {p}))
        /\ ~Stopped /\ ~Stopped'
        /\ UNCHANGED <<synced, diskPages, diskCount, committed, staleLog>>
    BY <1>10 DEF AppendFrame, Stopped
  <2>2. LogFrame(p, todo = {p}) \in Frame
    BY LogFrameType DEF PagerInv, TypeInv, TypeOK
  <2>3. \A i \in 1 .. synced : log'[i] = log[i]
    BY <1>0, <2>1, <2>2, AppendProperties
  <2>4. synced \in Nat
    BY <1>0
  <2>5. \A disk, counts, db : Rebuilds(log', synced, disk, counts, db)
                                <=> Rebuilds(log, synced, disk, counts, db)
    BY <2>3, <2>4, SameFrames
  <2> QED
    BY <1>0, <2>1, <2>5 DEF Kept, Trusted
<1>11. ASSUME SyncLog
       PROVE  Kept'
  <2>1. /\ phase = "sync"
        /\ synced' = Len(log) /\ staleLog' = <<>> /\ committed' = current
        /\ UNCHANGED <<log, diskPages, diskCount>>
        /\ ~Stopped'
    BY <1>11 DEF SyncLog, Stopped
  <2> QED
    BY <2>1, SyncedRebuilds DEF Kept, Trusted
<1>12. ASSUME NEW p \in Page, p \in logged, WriteFilePage(p, image[p]), ~Stopped, ~Stopped',
              UNCHANGED <<log, synced, diskCount, committed, staleLog>>
       PROVE  Kept'
  <2>1. InLog(log, synced, p)
    BY <1>12 DEF PagerInv, DurableInv, Backed, LogHolds, InLog
  <2>2. synced > 0 /\ staleLog = <<>>
    BY <1>0, <2>1 DEF InLog
  <2>3. \A q \in PagesOf(committed) : diskPages'[q] = diskPages[q] \/ InLog(log, synced, q)
    BY <1>0, <1>12, <2>1 DEF WriteFilePage
  <2>4. Rebuilds(log, synced, diskPages, diskCount, committed)
    BY <1>0, <1>12 DEF Kept, Trusted
  <2>5. Rebuilds(log, synced, diskPages', diskCount, committed)
    BY <2>2, <2>3, <2>4, WritesUnderTheLog
  <2> QED
    BY <1>0, <1>12, <2>2, <2>5 DEF Kept, Trusted
<1>13. ASSUME NEW p \in Page, EvictPage(p)
       PROVE  Kept'
  <2>1. /\ ~Stopped /\ ~Stopped'
        /\ UNCHANGED <<log, synced, diskCount, committed, staleLog>>
        /\ p \in dirty => p \in logged /\ WriteFilePage(p, image[p])
        /\ p \notin dirty => UNCHANGED diskPages
    BY <1>13 DEF EvictPage, Executing, Stopped
  <2> QED
    BY <1>2, <1>12, <2>1
<1>14. ASSUME NEW p \in Page, FlushFrame(p)
       PROVE  Kept'
  <2>1. p \in logged
    BY <1>14 DEF FlushFrame, PagerInv, TypeInv, TypeOK, StepOK, LoggedInv
  <2>2. /\ ~Stopped /\ ~Stopped' /\ WriteFilePage(p, image[p])
        /\ UNCHANGED <<log, synced, diskCount, committed, staleLog>>
    BY <1>14 DEF FlushFrame, Stopped
  <2> QED
    BY <1>12, <2>1, <2>2
<1>15. ASSUME NEW p \in Page, FaultPage(p)
       PROVE  Kept'
  BY <1>2, <1>15 DEF FaultPage, Executing, Stopped
<1>16. ASSUME BeginTransaction \/ RollbackTransaction \/ CloseDatabase
       PROVE  Kept'
  BY <1>2, <1>16 DEF BeginTransaction, RollbackTransaction, CloseDatabase,
     StartCheckpoint, Stopped
<1>17. ASSUME FailFlush
       PROVE  Kept'
  BY <1>0, <1>2, <1>17 DEF FailFlush, Stopped, Purposes, Checkpointing
<1>18. ASSUME WriteHeader
       PROVE  Kept'
  <2>1. /\ diskCount' = diskCount \cup {pageCount}
        /\ UNCHANGED <<log, synced, diskPages, committed, staleLog>>
        /\ ~Stopped /\ ~Stopped'
    BY <1>18 DEF WriteHeader, WriteHeaderCount, Stopped
  <2>2. \A p \in DOMAIN committed : \A m \in diskCount' : m \in diskCount \/ p < m
    BY <2>1 DEF PagerInv, DurableInv, Counted
  <2>3. ASSUME NEW frames, NEW n, Rebuilds(frames, n, diskPages, diskCount, committed)
        PROVE  Rebuilds(frames, n, diskPages', diskCount', committed)
    BY <2>1, <2>2, <2>3, WritesUnderTheLog
  <2> QED
    BY <1>0, <2>1, <2>3 DEF Kept, Trusted
<1>19. ASSUME SyncHandle, UNCHANGED filePages
       PROVE  /\ \A p \in PagesOf(committed) : \A c : diskPages[p] = {c} => diskPages'[p] = {c}
              /\ diskCount' \subseteq diskCount
  BY <1>0, <1>19 DEF SyncHandle, PagerInv, DurableInv, FileShape
<1>20. ASSUME SyncFile
       PROVE  Kept'
  <2>1. /\ SyncHandle
        /\ UNCHANGED <<log, synced, filePages, committed, staleLog>>
        /\ ~Stopped /\ ~Stopped'
    BY <1>20 DEF SyncFile, Stopped
  <2>2. ASSUME NEW frames, NEW n, Rebuilds(frames, n, diskPages, diskCount, committed)
        PROVE  Rebuilds(frames, n, diskPages', diskCount', committed)
    BY <1>19, <2>1, <2>2, SyncKeeps
  <2> QED
    BY <1>0, <2>1, <2>2 DEF Kept, Trusted
<1>21. ASSUME TruncateLog
       PROVE  Kept'
  <2>1. /\ phase = "truncate" /\ RemoveLog
        /\ UNCHANGED <<diskPages, diskCount, committed>>
        /\ ~Stopped /\ ~Stopped'
    BY <1>0, <1>21 DEF TruncateLog, Stopped
  <2>2. CASE log = <<>>
    <3>1. synced = 0
      BY <1>0, <2>2, EmptySeq
    <3> QED
      BY <1>3, <2>1, <2>2, <3>1 DEF RemoveLog
  <2>3. CASE log # <<>>
    <3>1. ~RollingBack /\ Running /\ synced = Len(log)
      BY <2>1, <2>3 DEF PagerInv, DurableInv, LogShape, Running
    <3>2. dirty = {} /\ committed = current
      BY <2>1, <3>1 DEF PagerInv, DurableInv, Settled, Checkpointing
    <3>3. /\ \A p \in Page : diskPages[p] = {filePages[p]}
          /\ diskCount = {pageCount}
      BY <2>1 DEF PagerInv, DurableInv, FileShape
    <3>4. /\ PagesOf(committed) = owned \cup {CatalogPage}
          /\ DOMAIN committed = owned /\ \A p \in owned : p < pageCount
      BY <3>1, <3>2 DEF PagerInv, DurableInv, Viewed, Seen, PagesOf
    <3>5. Rebuilds(log, synced, diskPages, diskCount, committed)
      BY <1>0, <2>1 DEF Kept, Trusted
    <3>6. ASSUME NEW p \in PagesOf(committed)
          PROVE  filePages[p] = ContentOf(committed, p)
      <4>1. Replays(log, synced, diskPages, p, filePages[p])
        BY <3>1, <3>2, <3>4 DEF PagerInv, DurableInv, Backed
      <4>2. Replays(log, synced, diskPages, p, ContentOf(committed, p))
        BY <3>5 DEF Rebuilds
      <4>3. synced \in Nat
        BY <1>0
      <4> QED
        BY <4>1, <4>2, <4>3, ReplaysOnce
    <3>7. Rebuilds(log', 0, diskPages, diskCount, committed)
      BY <1>0, <3>3, <3>4, <3>6, NoFrames
    <3>8. LastGood(log) = synced
      <4>1. synced \in synced .. Len(log) /\ SubSeq(log, 1, synced) = log
        BY <1>0, <3>1, FirstFrames
      <4> QED
        BY <2>1, <4>1, TrustedIsLastGood DEF Trusted
    <3> QED
      BY <1>0, <2>1, <2>3, <3>5, <3>7, <3>8 DEF Kept, Trusted, RemoveLog
  <2> QED
    BY <2>2, <2>3
<1>22. ASSUME EndCheckpoint
       PROVE  Kept'
  <2>1. log = <<>> /\ UNCHANGED <<log, synced, diskPages, diskCount, committed, staleLog>>
    BY <1>22 DEF EndCheckpoint, PagerInv, DurableInv, LogShape
  <2> QED
    BY <1>3, <2>1
<1>23. ASSUME Crash
       PROVE  Kept'
  <2>1. /\ staleLog' = <<>> /\ Trusted' = LastGood(log')
        /\ \A p \in Page : \/ filePages'[p] \in diskPages[p]
                           \/ filePages'[p] = Torn /\ Cardinality(diskPages[p]) > 1
        /\ diskPages' = [p \in Page |-> {filePages'[p]}]
        /\ diskCount' \subseteq diskCount
    BY <1>23 DEF Crash, Trusted, Stopped
  <2>2. ASSUME NEW p \in Page, NEW c, diskPages[p] = {c}
        PROVE  diskPages'[p] = {c}
    <3>1. Cardinality(diskPages[p]) = 1
      BY <2>2, FS_Singleton
    <3>2. ~(Cardinality(diskPages[p]) > 1)
      BY <3>1
    <3>3. filePages'[p] = c
      BY <2>1, <2>2, <3>2
    <3> QED
      BY <2>1, <3>3
  <2>3. ASSUME NEW frames, NEW n, NEW db, PagesOf(db) \subseteq Page,
               Rebuilds(frames, n, diskPages, diskCount, db)
        PROVE  Rebuilds(frames, n, diskPages', diskCount', db)
    <3>1. \A p \in PagesOf(db) : \A c : diskPages[p] = {c} => diskPages'[p] = {c}
      BY <2>2, <2>3
    <3>2. diskCount' \subseteq diskCount
      BY <2>1
    <3> QED
      BY <2>3, <3>1, <3>2, SyncKeeps
  <2>4. ASSUME NEW n \in synced .. Len(log), log' = SubSeq(log, 1, n),
               committed' = IF phase = "sync" /\ n = Len(log) THEN current ELSE committed
        PROVE  Kept'
    <3>1. CASE phase = "sync" /\ n = Len(log)
      <4>1. log' = log
        BY <1>0, <2>4, <3>1, FirstFrames
      <4>2. LastGood(log) = Len(log)
        <5>1. LogShape
          BY DEF PagerInv, DurableInv
        <5>2. /\ Len(log) \in 0 .. Len(log)
              /\ \A i \in 1 .. Len(log) : log[i].whole
              /\ log[Len(log)].commit
              /\ \A i \in Len(log) + 1 .. Len(log) : ~log[i].commit
          BY <1>0, <3>1, <5>1 DEF LogShape
        <5> QED
          BY <1>0, <5>2, LastGoodIs
      <4>3. current \in Database /\ Rebuilds(log, Len(log), diskPages, diskCount, current)
        BY <3>1, SyncedRebuilds
      <4>4. PagesOf(current) \subseteq Page
        BY <4>3, PageFacts DEF PagesOf, Database
      <4> QED
        BY <2>1, <2>3, <2>4, <3>1, <4>1, <4>2, <4>3, <4>4 DEF Kept
    <3>2. CASE ~(phase = "sync" /\ n = Len(log))
      <4>1. /\ LastGood(log') = Trusted
            /\ Trusted \in Nat
            /\ \A i \in 1 .. Trusted : log'[i] = log[i]
        BY <1>0, <2>4, <3>2, TrustedIsLastGood
      <4>2. Rebuilds(log, Trusted, diskPages', diskCount', committed)
        BY <1>0, <2>3 DEF Kept
      <4>3. Rebuilds(log', Trusted, diskPages', diskCount', committed)
        BY <4>1, <4>2, SameFrames
      <4> QED
        BY <1>0, <2>1, <2>4, <3>2, <4>1, <4>3 DEF Kept
    <3> QED
      BY <3>1, <3>2
  <2>5. ASSUME staleLog # <<>>, log' = staleLog, committed' = committed
        PROVE  Kept'
    BY <1>0, <2>1, <2>3, <2>5 DEF Kept
  <2> QED
    BY <1>23, <2>4, <2>5 DEF Crash
<1>24. ASSUME Recover
       PROVE  Kept'
  <2>1. Stopped /\ Stopped' /\ UNCHANGED <<diskPages, diskCount, committed>>
    BY <1>24 DEF Recover, Stopped
  <2>2. CASE LastGood(log) = 0
    <3>1. log' = <<>> /\ staleLog' = IF log = <<>> THEN staleLog ELSE log
      BY <1>24, <2>2 DEF Recover, RemoveLog
    <3>2. Rebuilds(log, 0, diskPages, diskCount, committed)
      BY <1>0, <2>1, <2>2 DEF Kept, Trusted
    <3>3. Rebuilds(log', 0, diskPages, diskCount, committed)
      BY <3>2, NoFrames
    <3>4. LastGood(log') = 0
      BY <3>1, NothingLogged
    <3> QED
      BY <1>0, <2>1, <2>2, <3>1, <3>2, <3>3, <3>4 DEF Kept, Trusted
  <2>3. CASE LastGood(log) # 0
    BY <1>1, <1>24, <2>1, <2>3 DEF Recover, Trusted
  <2> QED
    BY <2>2, <2>3
<1>25. ASSUME phase \in {"replay", "recovered"}
       PROVE  /\ LastGood(log) \in 1 .. Len(log)
              /\ Stopped /\ staleLog = <<>>
              /\ Rebuilds(log, LastGood(log), diskPages, diskCount, committed)
  <2>1. LastGood(log) # 0
    BY <1>25 DEF PagerInv, DurableInv, Replayed
  <2>2. LastGood(log) \in 1 .. Len(log)
    BY <1>0, <2>1, LastGoodType
  <2>3. synced = Len(log) /\ synced > 0
    BY <1>0, <1>25, <2>2 DEF PagerInv, DurableInv, LogShape
  <2> QED
    BY <1>0, <1>25, <2>2, <2>3 DEF Stopped, Kept, Trusted
<1>26. ASSUME ReplayFrame
       PROVE  Kept'
  <2>1. /\ phase = "replay" /\ Stopped'
        /\ position \in 1 .. LastGood(log)
        /\ diskPages' = [diskPages EXCEPT ![log[position].page] = @ \cup {log[position].image}]
        /\ UNCHANGED <<log, diskCount, committed, staleLog>>
    <3>1. position \in Nat /\ position >= 1
      BY <1>26 DEF ReplayFrame, PagerInv, TypeInv, TypeOK, StepOK, StepsAreInOrder
    <3> QED
      BY <1>25, <1>26, <3>1 DEF ReplayFrame, WriteFilePage, Stopped
  <2>2. \A q \in PagesOf(committed) :
           diskPages'[q] = diskPages[q] \/ InLog(log, LastGood(log), q)
    BY <1>0, <2>1 DEF InLog
  <2>3. Rebuilds(log, LastGood(log), diskPages', diskCount', committed)
    BY <1>25, <2>1, <2>2, WritesUnderTheLog
  <2> QED
    BY <1>0, <1>25, <2>1, <2>3 DEF Kept, Trusted
<1>27. ASSUME ReplayHeader
       PROVE  Kept'
  <2>1. /\ phase = "replay" /\ Stopped'
        /\ UNCHANGED <<log, diskPages, committed, staleLog>>
    BY <1>27 DEF ReplayHeader, Stopped
  <2>2. Rebuilds(log, LastGood(log), diskPages', diskCount', committed)
    BY <1>25, <2>1, WritesUnderTheLog
  <2> QED
    BY <1>0, <1>25, <2>1, <2>2 DEF Kept, Trusted
<1>28. ASSUME FinishRecovery
       PROVE  Kept'
  <2>1. /\ phase = "recovered" /\ Stopped'
        /\ SyncHandle /\ RemoveLog
        /\ UNCHANGED <<filePages, fileCount, committed>>
    BY <1>28 DEF FinishRecovery, Stopped, PagerInv, LoggedInv
  <2>2. LastGood(log) \in 1 .. Len(log) /\ staleLog = <<>>
    BY <1>25, <2>1
  <2>3. Rebuilds(log, LastGood(log), diskPages, diskCount, committed)
    BY <1>25, <2>1
  <2>4. /\ position = LastGood(log) + 1
        /\ fileCount = log[LastGood(log)].pageCount
        /\ \A i \in 1 .. position - 1 :
             (\A j \in i + 1 .. position - 1 : log[j].page # log[i].page)
                => filePages[log[i].page] = log[i].image
    BY <2>1 DEF PagerInv, DurableInv, Replayed
  <2>5. ASSUME NEW p \in PagesOf(committed)
        PROVE  filePages[p] = ContentOf(committed, p)
    <3>1. CASE LogHolds(log, LastGood(log), p, ContentOf(committed, p))
      <4>1. PICK i \in 1 .. LastGood(log) :
                  /\ log[i].page = p /\ log[i].image = ContentOf(committed, p)
                  /\ \A j \in i + 1 .. LastGood(log) : log[j].page # p
        BY <3>1 DEF LogHolds
      <4>2. position - 1 = LastGood(log)
        BY <2>2, <2>4
      <4> QED
        BY <2>4, <4>1, <4>2
    <3>2. CASE diskPages[p] = {ContentOf(committed, p)}
      BY <1>0, <3>2 DEF PagerInv, DurableInv, FileShape
    <3> QED
      BY <2>3, <3>1, <3>2 DEF Rebuilds, Replays
  <2>6. /\ \A p \in PagesOf(committed) : diskPages'[p] = {ContentOf(committed, p)}
        /\ \A p \in DOMAIN committed : \A m \in diskCount' : p < m
    <3>1. \A p \in DOMAIN committed : p < fileCount
      BY <2>2, <2>3, <2>4 DEF Rebuilds, CountCovers
    <3> QED
      BY <1>0, <2>1, <2>5, <3>1 DEF SyncHandle
  <2>7. Rebuilds(log', 0, diskPages', diskCount', committed)
    BY <2>6, NoFrames
  <2>8. Rebuilds(log, LastGood(log), diskPages', diskCount', committed)
    BY <1>19, <2>1, <2>3, SyncKeeps
  <2>9. log' = <<>> /\ staleLog' \in {log, staleLog}
    BY <2>1 DEF RemoveLog
  <2>10. LastGood(log') = 0
    BY <2>9, NothingLogged
  <2> QED
    BY <1>0, <2>1, <2>2, <2>7, <2>8, <2>9, <2>10 DEF Kept, Trusted
<1>29. ASSUME LoadDatabase \/ RefuseDatabase
       PROVE  Kept'
  <2>1. log = <<>> /\ UNCHANGED <<log, synced, diskPages, diskCount, committed, staleLog>>
    BY <1>29 DEF LoadDatabase, RefuseDatabase, PagerInv, DurableInv, LogShape
  <2> QED
    BY <1>3, <2>1
<1>30. ~FailStatement /\ ~FailSync /\ ~FailTruncate /\ (\A p \in Page : ~FailAppend(p))
  BY DEF FailStatement, FailSync, FailTruncate, FailAppend
<1>31. CASE UNCHANGED vars
  BY <1>1, <1>31 DEF vars, Trusted, Stopped
<1> QED
  BY <1>4, <1>5, <1>6, <1>8, <1>9, <1>10, <1>11, <1>13, <1>14, <1>15, <1>16, <1>17,
     <1>18, <1>20, <1>21, <1>22, <1>23, <1>24, <1>26, <1>27, <1>28, <1>29, <1>30,
     <1>31 DEF Next, Progress

-----------------------------------------------------------------------------
(* The theorems. *)

LEMMA InitDurableInv == Init => DurableInv
<1> SUFFICES ASSUME Init PROVE DurableInv
  OBVIOUS
<1> USE DEF Init
<1>1. Len(log) = 0 /\ Len(staleLog) = 0
  BY EmptySeq
<1>2. current = [p \in {} |-> Blank] /\ committed = [p \in {} |-> Blank]
  OBVIOUS
<1>3. DOMAIN committed = {} /\ committed \in Database
  BY <1>2 DEF Database
<1>4. /\ filePages[CatalogPage] = {} /\ \A p \in Page : diskPages[p] = {filePages[p]}
  BY PageFacts
<1>5. Rebuilds(log, 0, diskPages, diskCount, committed)
  BY <1>3, <1>4, NoFrames, PageFacts DEF PagesOf, ContentOf
<1>6. LogShape
  BY <1>1 DEF LogShape, Stopped, RollingBack
<1>7. Purposes /\ Settled /\ Appending /\ Replayed
  BY <1>2 DEF Purposes, Settled, Checkpointing, Appending, Replayed
<1>8. FileShape
  BY <1>4 DEF FileShape
<1>9. Kept
  BY <1>3, <1>5 DEF Kept, Trusted, Stopped
<1>10. Viewed
  BY <1>2 DEF Viewed, Seen
<1>11. Backed
  <2>1. ~InLog(log, 0, CatalogPage)
    BY DEF InLog
  <2> QED
    BY <1>4, <2>1, PageFacts DEF Backed, Replays
<1>12. CatalogFollows /\ Counted
  BY <1>3, PageFacts DEF CatalogFollows, Counted, PageImage
<1> QED
  BY <1>6, <1>7, <1>8, <1>9, <1>10, <1>11, <1>12 DEF DurableInv

LEMMA NextPagerInv ==
    ASSUME Faults \cap {"statement", "append", "truncate"} = {}
    PROVE  PagerInv /\ [Next]_vars => PagerInv'
<1>1. PagerInv => TypeInv /\ CleanInv /\ TransactionInv /\ LoggedInv
  BY DEF PagerInv
<1>2. PagerInv /\ [Next]_vars => DurableInv'
  BY NextLogShape, NextPurposes, NextFileShape, NextSettled, NextKept, NextAppending,
     NextViewed, NextBacked, NextCatalogFollows, NextCounted, NextReplayed DEF DurableInv
<1>3. PagerInv /\ [Next]_vars => TypeInv' /\ CleanInv' /\ TransactionInv' /\ LoggedInv'
  BY <1>1, NextTypeInv, NextCleanInv, NextTransactionInv, NextLoggedInv
<1> QED
  BY <1>2, <1>3 DEF PagerInv

LEMMA PagerInvHolds ==
    ASSUME Faults \cap {"statement", "append", "truncate"} = {}
    PROVE  Spec => []PagerInv
<1>1. Init => PagerInv
  <2>1. Init => CleanInv /\ LoggedInv
    BY DEF Init, CleanInv, CleanMatchesFile, StoppedIsEmpty, LoggedInv
  <2> QED
    BY <2>1, InitTypeInv, InitTransactionInv, InitDurableInv DEF PagerInv
<1> QED
  BY <1>1, NextPagerInv, PTL DEF Spec

\* When no statement fails half way, no append fails and the log can always be
\* created again, a running session reads exactly what its statements wrote on
\* top of what was committed, through evictions, checkpoints, rollbacks,
\* crashes and replays, and whichever flushes fail.
THEOREM ReadsItsWrites ==
    ASSUME Faults \cap {"statement", "append", "truncate"} = {}
    PROVE  Spec => []ReadsLatest
<1>1. PagerInv => ReadsLatest
  BY DEF PagerInv, DurableInv, Viewed, Running, ReadsLatest
<1> QED
  BY <1>1, PagerInvHolds, PTL

\* Under the same conditions a crash at any moment, one during recovery
\* included, leaves enough to rebuild every committed page: the synced log has
\* it, or no version of it on the disk is any other.
THEOREM WriteAheadRule ==
    ASSUME Faults \cap {"statement", "append", "truncate"} = {}
    PROVE  Spec => []WriteAhead
<1>1. ASSUME PagerInv PROVE WriteAhead
  <2>1. log \in Seq(Frame) /\ Len(log) \in Nat /\ synced \in 0 .. Len(log)
    BY <1>1 DEF PagerInv, TypeInv, TypeOK, LogOK
  <2>2. ~(phase = "sync" /\ synced = Len(log))
    BY <1>1, <2>1 DEF PagerInv, DurableInv, LogShape
  <2>3. LastGood(SubSeq(log, 1, synced)) = Trusted /\ Trusted \in Nat
    BY <1>1, <2>1, <2>2, TrustedIsLastGood
  <2>4. ASSUME NEW p \in DOMAIN committed \cup {CatalogPage}
        PROVE  LET writes == {i \in 1 .. Trusted : log[i].page = p} IN
               IF writes = {}
                  THEN diskPages[p] = {CommittedContent(p)}
                  ELSE log[Max(writes)].image = CommittedContent(p)
    <3> DEFINE writes == {i \in 1 .. Trusted : log[i].page = p}
               c == ContentOf(committed, p)
    <3>1. Replays(log, Trusted, diskPages, p, c) /\ c = CommittedContent(p)
      BY <1>1, <2>4 DEF PagerInv, DurableInv, Kept, Rebuilds, PagesOf, ContentOf,
         CommittedContent
    <3>2. CASE ~InLog(log, Trusted, p)
      <4>1. writes = {} /\ ~LogHolds(log, Trusted, p, c)
        BY <3>2 DEF InLog, LogHolds
      <4> QED
        BY <3>1, <4>1 DEF Replays
    <3>3. CASE InLog(log, Trusted, p)
      <4>1. PICK i \in 1 .. Trusted : /\ log[i].page = p
                                      /\ log[i].image = c
                                      /\ \A j \in i + 1 .. Trusted : log[j].page # p
        BY <3>1, <3>3 DEF Replays, LogHolds
      <4>2. writes \in SUBSET (0 .. Trusted) /\ i \in writes /\ \A j \in writes : j <= i
        BY <2>3, <4>1
      <4>3. Max(writes) \in writes /\ \A j \in writes : j <= Max(writes)
        BY <2>3, <4>2, MaxIsLargest
      <4>4. i <= Max(writes) /\ Max(writes) <= i /\ Max(writes) \in Nat
        BY <2>3, <4>2, <4>3
      <4>5. Max(writes) = i
        BY <4>4
      <4> QED
        BY <3>1, <4>1, <4>2, <4>5
    <3> QED
      BY <3>2, <3>3
  <2> QED
    BY <2>3, <2>4 DEF WriteAhead
<1> QED
  BY <1>1, PagerInvHolds, PTL

-----------------------------------------------------------------------------
(* The pager implements the abstract store. *)

\* What the refinement mapping makes of a state.
View == IF Stopped THEN committed ELSE Seen
Mode == CASE Stopped                      -> "down"
          [] RollingBack                  -> "work"
          [] phase \in {"append", "sync"}  -> "commit"
          [] Executing \/ transactionOpen -> "work"
          [] OTHER                        -> "idle"

\* What the mapping makes of each kind of state; its cases exclude each other.
Mapped ==
    /\ Stopped => Mode = "down" /\ View = committed
    /\ ~Stopped => View = Seen /\ View \in Database
    /\ Running => View = current
    /\ RollingBack => Mode = "work" /\ ~Stopped
    /\ phase \in {"append", "sync"} => Mode = "commit" /\ Running
    /\ Executing => Mode = "work" /\ Running
    /\ phase = "idle" => Running /\ Mode = IF transactionOpen THEN "work" ELSE "idle"
    /\ Checkpointing /\ ~RollingBack => Mode = "idle" /\ Running
    /\ phase = "load" => Stopped \/ RollingBack

LEMMA StateIsMapped == PagerInv => Mapped
<1> SUFFICES ASSUME PagerInv PROVE Mapped
  OBVIOUS
<1>1. /\ transactionOpen => phase \in {"idle", "rows", "schema"}
      /\ transactionOpen \in BOOLEAN
      /\ phase = "load" => purpose \in {"start", "rollback"}
  BY DEF PagerInv, TransactionInv, TypeInv, TypeOK, FlagsOK, DurableInv, Purposes
<1>2. /\ Stopped => View = committed
      /\ ~Stopped => View = Seen /\ View \in Database
      /\ Running => View = current
  BY SeenIsDatabase DEF PagerInv, DurableInv, Viewed, Running, View
<1>3. /\ Stopped => Mode = "down"
      /\ RollingBack => Mode = "work" /\ ~Stopped
      /\ phase \in {"append", "sync"} => Mode = "commit" /\ Running
      /\ Executing => Mode = "work" /\ Running
      /\ phase = "idle" => Running /\ Mode = IF transactionOpen THEN "work" ELSE "idle"
      /\ Checkpointing /\ ~RollingBack => Mode = "idle" /\ Running
      /\ phase = "load" => Stopped \/ RollingBack
  BY <1>1 DEF Mode, Stopped, RollingBack, Executing, Running, Checkpointing
<1> QED
  BY <1>2, <1>3 DEF Mapped

\* Each step of the pager is a step of the store, or none.
LEMMA StepSimulates ==
    ASSUME Faults \cap {"statement", "append", "truncate"} = {}
    PROVE  PagerInv /\ PagerInv' /\ [Next]_vars => [Abstract!Next]_(Abstract!avars)
<1> DEFINE Stutter  == UNCHANGED <<View, committed, Mode>>
           Start    == Mode = "idle" /\ Mode' = "work" /\ UNCHANGED <<View, committed>>
           Modify   == Mode = "work" /\ View' \in Database /\ UNCHANGED <<committed, Mode>>
           AskCommit == Mode = "work" /\ Mode' = "commit" /\ UNCHANGED <<View, committed>>
           Commit   == /\ Mode \in {"work", "commit"}
                       /\ committed' = View /\ Mode' = "idle" /\ UNCHANGED View
           Rollback == /\ Mode = "work"
                       /\ View' = committed /\ Mode' = "idle" /\ UNCHANGED committed
           Fail     == /\ Mode' = "down"
                       /\ committed' = committed \/ (Mode = "commit" /\ committed' = View)
                       /\ View' = committed'
           Restart  == Mode = "down" /\ Mode' = "idle" /\ UNCHANGED <<View, committed>>
           Step == \/ Stutter \/ Start \/ Modify \/ AskCommit \/ Commit
                   \/ Rollback \/ Fail \/ Restart
<1>1. ASSUME Step PROVE [Abstract!Next]_(Abstract!avars)
  <2>1. ASSUME Stutter PROVE UNCHANGED Abstract!avars
    BY <2>1 DEF View, Mode, Abstract!avars
  <2>2. ASSUME Start PROVE Abstract!Start
    BY <2>2 DEF View, Mode, Abstract!Start
  <2>3. ASSUME Modify PROVE Abstract!Modify
    BY <2>3 DEF View, Mode, Abstract!Modify, Abstract!Database, Database
  <2>4. ASSUME AskCommit PROVE Abstract!AskCommit
    BY <2>4 DEF View, Mode, Abstract!AskCommit
  <2>5. ASSUME Commit PROVE Abstract!Commit
    BY <2>5 DEF View, Mode, Abstract!Commit
  <2>6. ASSUME Rollback PROVE Abstract!Rollback
    BY <2>6 DEF View, Mode, Abstract!Rollback
  <2>7. ASSUME Fail PROVE Abstract!Fail
    BY <2>7 DEF View, Mode, Abstract!Fail
  <2>8. ASSUME Restart PROVE Abstract!Restart
    BY <2>8 DEF View, Mode, Abstract!Restart
  <2> HIDE DEF Stutter, Start, Modify, AskCommit, Commit, Rollback, Fail, Restart
  <2> QED
    BY <1>1, <2>1, <2>2, <2>3, <2>4, <2>5, <2>6, <2>7, <2>8 DEF Abstract!Next
<1>0. PagerInv' => Mapped'
  BY StateIsMapped, PTL
<1> SUFFICES ASSUME PagerInv, PagerInv', [Next]_vars PROVE Step
  BY <1>1
<1> HIDE DEF Step
<1> USE DEF poolVars, memoryVars, txVars, fileVars, logVars, openVars, stepVars,
            ghostVars, counterVars
<1>2. Mapped
  BY StateIsMapped
<1>3. Mapped'
  BY <1>0
<1> USE DEF Mapped
<1>4. transactionOpen \in BOOLEAN /\ Purposes /\ LoggedInv /\ TransactionInv
  BY DEF PagerInv, DurableInv, TypeInv, TypeOK, FlagsOK
<1>5. ASSUME NEW kind \in {"rows", "schema"}, StartStatement(kind)
      PROVE  Step
  <2>1. phase = "idle" /\ Executing' /\ UNCHANGED <<current, committed>>
    BY <1>5 DEF StartStatement, Executing
  <2> QED
    BY <1>2, <1>3, <2>1 DEF Step
<1>6. ASSUME NEW p \in DataPage,
             AllocatePage(p) \/ FreePage(p) \/ \E v \in Value : WritePage(p, v)
      PROVE  Step
  <2>1. Executing /\ Executing' /\ ~Stopped' /\ UNCHANGED committed
    BY <1>6 DEF AllocatePage, FreePage, WritePage, Executing, Stopped
  <2> QED
    BY <1>2, <1>3, <2>1 DEF Step
<1>7. ASSUME NEW changed, CommitDatabase(changed), walIsOpen, Mode = "work", Running,
              current' = current, ~transactionOpen'
       PROVE  Step
  <2>1. CASE dirty = {} /\ ~changed
    BY <1>2, <1>3, <1>7, <2>1 DEF CommitDatabase, Step
  <2>2. CASE ~(dirty = {} /\ ~changed)
    BY <1>2, <1>3, <1>7, <2>2 DEF CommitDatabase, Step
  <2> QED
    BY <2>1, <2>2
<1>8. ASSUME FinishStatement
       PROVE  Step
  <2>1. Executing /\ walIsOpen /\ UNCHANGED <<current, transactionOpen>>
    BY <1>4, <1>8 DEF FinishStatement, Executing, LoggedInv
  <2>2. CASE transactionOpen
    BY <1>2, <1>3, <1>8, <2>1, <2>2 DEF FinishStatement, Step
  <2>3. CASE ~transactionOpen
    BY <1>2, <1>7, <1>8, <2>1, <2>3 DEF FinishStatement
  <2> QED
    BY <2>2, <2>3
<1>9. ASSUME CommitTransaction
       PROVE  Step
  BY <1>2, <1>4, <1>7, <1>9 DEF CommitTransaction, LoggedInv
<1>10. ASSUME NEW p \in Page, AppendFrame(p)
       PROVE  Step
  <2>1. phase = "append" /\ phase' \in {"append", "sync"} /\ UNCHANGED <<current, committed>>
    BY <1>10 DEF AppendFrame
  <2> QED
    BY <1>2, <1>3, <2>1 DEF Step
<1>11. ASSUME SyncLog
       PROVE  Step
  <2>1. /\ phase = "sync" /\ phase' = "idle" /\ committed' = current
        /\ UNCHANGED <<current, transactionOpen>>
    BY <1>11 DEF SyncLog
  <2>2. ~transactionOpen
    BY <1>4, <2>1 DEF TransactionInv
  <2> QED
    BY <1>2, <1>3, <2>1, <2>2 DEF Step
<1>12. ASSUME NEW p \in Page, EvictPage(p) \/ FaultPage(p)
       PROVE  Step
  <2>1. /\ phase = "idle" \/ Executing
        /\ UNCHANGED <<phase, transactionOpen, current, committed>>
    BY <1>12 DEF EvictPage, FaultPage
  <2> QED
    BY <1>2, <1>3, <2>1 DEF Step, Executing
<1>13. ASSUME BeginTransaction \/ CloseDatabase
       PROVE  Step
  <2>1. /\ phase = "idle" /\ ~transactionOpen /\ UNCHANGED <<current, committed>>
        /\ Checkpointing' /\ ~RollingBack'
    BY <1>13 DEF BeginTransaction, CloseDatabase, StartCheckpoint, Checkpointing, RollingBack
  <2> QED
    BY <1>2, <1>3, <2>1 DEF Step
<1>14. ASSUME RollbackTransaction
       PROVE  Step
  <2>1. phase = "idle" /\ transactionOpen /\ RollingBack' /\ UNCHANGED committed
    BY <1>14 DEF RollbackTransaction, StartCheckpoint, RollingBack
  <2> QED
    BY <1>2, <1>3, <2>1 DEF Step
<1>15. ASSUME Checkpointing, Checkpointing', RollingBack' <=> RollingBack,
              UNCHANGED <<current, committed>>, RollingBack => Seen' = Seen
       PROVE  Step
  BY <1>2, <1>3, <1>15 DEF Step
<1>16. ASSUME NEW p \in Page, FlushFrame(p)
       PROVE  Step
  <2>1. Checkpointing /\ Checkpointing' /\ UNCHANGED <<current, committed, phase, purpose>>
    BY <1>16 DEF FlushFrame, Checkpointing
  <2>2. ~RollingBack
    BY <1>4, <1>16 DEF FlushFrame, LoggedInv, RollingBack
  <2> QED
    BY <1>15, <2>1, <2>2 DEF RollingBack
<1>17. ASSUME WriteHeader \/ SyncFile \/ TruncateLog
       PROVE  Step
  <2>1. /\ Checkpointing /\ Checkpointing' /\ UNCHANGED <<current, committed, purpose>>
        /\ UNCHANGED <<resident, image, filePages, owned>>
    BY <1>17 DEF WriteHeader, SyncFile, TruncateLog, Checkpointing
  <2> QED
    BY <1>15, <2>1 DEF RollingBack, Checkpointing, Seen, PageImage
<1>18. ASSUME FailFlush
       PROVE  Step
  <2>1. /\ Checkpointing /\ UNCHANGED <<current, committed, transactionOpen>>
        /\ UNCHANGED <<resident, image, filePages, owned>>
        /\ purpose \in {"begin", "rollback"}
        /\ ~transactionOpen
    BY <1>4, <1>18 DEF FailFlush, Checkpointing, Purposes, TransactionInv
  <2>2. CASE purpose = "begin"
    <3>1. ~RollingBack /\ phase' = "idle"
      BY <1>18, <2>2 DEF FailFlush, RollingBack
    <3> QED
      BY <1>2, <1>3, <2>1, <3>1 DEF Step
  <2>3. CASE purpose = "rollback"
    <3>1. RollingBack /\ RollingBack' /\ Seen' = Seen
      BY <1>18, <2>1, <2>3 DEF FailFlush, RollingBack, Seen, PageImage
    <3> QED
      BY <1>2, <1>3, <2>1, <3>1 DEF Step
  <2> QED
    BY <2>1, <2>2, <2>3
<1>19. ASSUME EndCheckpoint
       PROVE  Step
  <2>1. Checkpointing /\ committed' = committed
    BY <1>19 DEF EndCheckpoint, Checkpointing
  <2>2. CASE purpose = "begin"
    <3>1. ~RollingBack /\ phase' = "idle" /\ transactionOpen' /\ current' = current
      BY <1>19, <2>2 DEF EndCheckpoint, RollingBack
    <3> QED
      BY <1>2, <1>3, <2>1, <3>1 DEF Step
  <2>3. CASE purpose = "rollback"
    <3>1. RollingBack /\ RollingBack' /\ Seen' = Seen
      BY <1>19, <2>3 DEF EndCheckpoint, RollingBack, Seen, PageImage
    <3> QED
      BY <1>2, <1>3, <2>1, <3>1 DEF Step
  <2>4. CASE purpose = "close"
    <3>1. Stopped'
      BY <1>19, <2>4 DEF EndCheckpoint, Stopped
    <3> QED
      BY <1>3, <2>1, <3>1 DEF Step
  <2> QED
    BY <1>4, <2>1, <2>2, <2>3, <2>4 DEF Purposes
<1>20. ASSUME Crash
       PROVE  Step
  <2>1. Stopped'
    BY <1>20 DEF Crash, Stopped
  <2>2. committed' = committed \/ (phase = "sync" /\ committed' = current)
    BY <1>20 DEF Crash
  <2> QED
    BY <1>2, <1>3, <2>1, <2>2 DEF Step
<1>21. ASSUME Recover \/ ReplayFrame \/ ReplayHeader \/ FinishRecovery
       PROVE  Step
  <2>1. Stopped /\ Stopped' /\ committed' = committed
    BY <1>4, <1>21 DEF Recover, ReplayFrame, ReplayHeader, FinishRecovery, Stopped, LoggedInv
  <2> QED
    BY <1>2, <1>3, <2>1 DEF Step
<1>22. ASSUME LoadDatabase
       PROVE  Step
  <2>1. /\ phase = "load" /\ phase' = "idle" /\ current' = committed
        /\ UNCHANGED <<committed, transactionOpen>>
    BY <1>22 DEF LoadDatabase
  <2>2. ~transactionOpen
    BY <1>4, <2>1 DEF TransactionInv
  <2> QED
    BY <1>2, <1>3, <2>1, <2>2 DEF Step
<1>23. ASSUME RefuseDatabase
       PROVE  Step
  <2>1. Stopped' /\ committed' = committed
    BY <1>23 DEF RefuseDatabase, Stopped
  <2> QED
    BY <1>3, <2>1 DEF Step
<1>24. ~FailStatement /\ ~FailSync /\ ~FailTruncate /\ (\A p \in Page : ~FailAppend(p))
  BY DEF FailStatement, FailSync, FailTruncate, FailAppend
<1>25. ASSUME UNCHANGED vars
       PROVE  Step
  BY <1>25 DEF vars, Step, View, Mode, Stopped, RollingBack, Executing, Seen, PageImage
<1> QED
  BY <1>5, <1>6, <1>8, <1>9, <1>10, <1>11, <1>12, <1>13, <1>14, <1>16, <1>17, <1>18,
     <1>19, <1>20, <1>21, <1>22, <1>23, <1>24, <1>25 DEF Next, Progress

\* Under the same conditions the pager implements AtomicStore: whatever step a
\* crash falls on, a statement outside a transaction and a transaction are kept
\* or lost as a whole, and what the client was told is kept is kept.
THEOREM PagerIsAtomic ==
    ASSUME Faults \cap {"statement", "append", "truncate"} = {}
    PROVE  Spec => ImplementsAtomicStore
<1>1. Init => Abstract!Init
  <2> SUFFICES ASSUME Init PROVE Abstract!Init
    OBVIOUS
  <2>1. DurableInv
    BY InitDurableInv
  <2>2. /\ ~Stopped /\ ~RollingBack /\ ~Executing
        /\ phase = "idle" /\ transactionOpen = FALSE /\ current = committed
    BY DEF Init, Stopped, RollingBack, Executing
  <2>3. Seen = committed /\ committed \in Database
    BY <2>1, <2>2 DEF DurableInv, Viewed, Kept, Running
  <2> QED
    BY <2>2, <2>3 DEF Abstract!Init, Abstract!Database, Database
<1>2. Spec => []PagerInv
  BY PagerInvHolds
<1>3. PagerInv /\ PagerInv' /\ [Next]_vars => [Abstract!Next]_(Abstract!avars)
  BY StepSimulates
<1> QED
  BY <1>1, <1>2, <1>3, PTL DEF Spec, ImplementsAtomicStore, Abstract!Spec
=============================================================================
