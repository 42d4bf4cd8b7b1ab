-------------------------- MODULE PageOwnersProofs --------------------------
(***************************************************************************)
(* Proofs about the threads of Sessions.tla, for any number of connections *)
(* and slots, and about the pages PageOwners.tla gives them.  The          *)
(* composition adds pages to the threads and takes nothing away from them: *)
(* every step of it is a step of Sessions.tla or leaves that module's      *)
(* variables alone, so what is proved of the lock there holds of it here.  *)
(***************************************************************************)
EXTENDS PageOwners, FiniteSetTheorems, SequenceTheorems, TLAPS

-----------------------------------------------------------------------------
(* The threads: every step and behaviour of Sessions.tla *)

Types ==
    /\ pc \in [Session -> Places]
    /\ kind \in [Session -> Kinds \cup {"none"}]
    /\ readers \subseteq Session
    /\ writer \in Session \cup {None}
    /\ transactionOpen \in BOOLEAN
    /\ holdingForTransaction \in [Session -> BOOLEAN]

\* A slot may be taken by nobody, but nobody is served without one.
CountInv ==
    /\ sessionCount \in Nat
    /\ Cardinality(Connected) <= sessionCount
    /\ sessionCount <= MaxSessions

TypeInv == Types /\ CountInv

LEMMA InitTypes == Init => TypeInv
<1> SUFFICES ASSUME Init PROVE TypeInv
  OBVIOUS
<1> USE SessionsAssumption DEF Init
<1>1. Types
  BY DEF Types, Places, Kinds
<1>2. Connected = {}
  BY DEF Connected
<1>3. CountInv
  BY <1>2, FS_EmptySet DEF CountInv
<1> QED
  BY <1>1, <1>3 DEF TypeInv

\* What each action does to the set of connections.
LEMMA ConnectedIsFinite ==
  /\ IsFiniteSet(Connected)
  /\ Cardinality(Connected) \in Nat
<1>1. Connected \subseteq Session
  BY DEF Connected
<1> QED
  BY <1>1, SessionsAssumption, FS_Subset, FS_CardinalityType

LEMMA NextTypes == TypeInv /\ [Next]_sessionVars => TypeInv'
<1> SUFFICES ASSUME TypeInv, [Next]_sessionVars PROVE TypeInv'
  OBVIOUS
<1> USE SessionsAssumption DEF TypeInv, Types, CountInv
<1>1. CASE UNCHANGED sessionVars
  <2>1. Connected' = Connected
    BY <1>1 DEF Connected, sessionVars, threadVars
  <2> QED
    BY <1>1, <2>1 DEF sessionVars, threadVars, lockVars, transactionVars
<1>2. CASE Next
  <2>1. PICK s \in Session : \/ Accept(s) \/ AcceptNoMemory(s) \/ Disconnect(s)
                             \/ Ask(s) \/ Serve(s)
    BY <1>2 DEF Next
  <2> USE DEF threadVars, lockVars, transactionVars, GoTo
  <2>2. CASE Accept(s)
    <3>1. Connected' = Connected \cup {s} /\ s \notin Connected
      BY <2>2 DEF Accept, Connected
    <3>2. Cardinality(Connected') = Cardinality(Connected) + 1
      BY <3>1, ConnectedIsFinite, FS_AddElement
    <3>3. CountInv'
      BY <2>2, <3>2, ConnectedIsFinite DEF Accept
    <3> QED
      BY <2>2, <3>3 DEF Accept, Places
  <2>3. CASE AcceptNoMemory(s)
    <3>1. Connected' = Connected
      BY <2>3 DEF AcceptNoMemory, Connected
    <3> QED
      BY <2>3, <3>1, ConnectedIsFinite DEF AcceptNoMemory
  <2>4. CASE ReleaseSlot(s)
    <3>1. Connected' = Connected \ {s} /\ s \in Connected
      BY <2>4 DEF ReleaseSlot, Connected
    <3>2. Cardinality(Connected') = Cardinality(Connected) - 1
      BY <3>1, ConnectedIsFinite, FS_RemoveElement
    <3>3. Connected # {}
      BY <3>1
    <3>4. Cardinality(Connected) # 0
      BY <3>3, ConnectedIsFinite, FS_EmptySet
    <3>5. CountInv'
      BY <2>4, <3>2, <3>4, ConnectedIsFinite DEF ReleaseSlot
    <3> QED
      BY <2>4, <3>5 DEF ReleaseSlot, Places
  <2>5. ASSUME NEW place \in Places \ {"none"}, pc[s] # "none", GoTo(s, place)
        PROVE  Connected' = Connected
    BY <2>5 DEF Connected
  <2>6. CASE Disconnect(s)
    <3>1. Connected' = Connected
      BY <2>6, <2>5 DEF Disconnect, Places
    <3> QED
      BY <2>6, <3>1 DEF Disconnect, Places
  <2>7. CASE Ask(s)
    <3>1. PICK k \in Kinds : Submit(s, k)
      BY <2>7 DEF Ask
    <3>2. Connected' = Connected
      BY <3>1, <2>5 DEF Submit, Places
    <3> QED
      BY <3>1, <3>2 DEF Submit, Places
  <2>8. CASE TakeShared(s)
    <3>1. Connected' = Connected
      BY <2>8, <2>5 DEF TakeShared, Places
    <3> QED
      BY <2>8, <3>1 DEF TakeShared, Places
  <2>9. CASE TakeExclusive(s)
    <3>1. Connected' = Connected
      BY <2>9, <2>5 DEF TakeExclusive, Places
    <3> QED
      BY <2>9, <3>1 DEF TakeExclusive, Places
  <2>10. CASE Run(s)
    <3>1. PICK k \in Kinds : Ran(s, k)
      BY <2>10 DEF Run, RunSelect, RunWrite, RunBegin, RunCommit, RunRollback,
                   FailStatement, Kinds
    <3>2. Connected' = Connected
      BY <3>1, <2>5 DEF Ran, Places
    <3>3. transactionOpen' \in BOOLEAN
      BY <2>10 DEF Run, RunSelect, RunWrite, RunBegin, RunCommit, RunRollback,
                   FailStatement
    <3> QED
      BY <3>1, <3>2, <3>3 DEF Ran, Places
  <2>11. CASE ReleaseLock(s)
    <3>1. Connected' = Connected
      BY <2>11, <2>5 DEF ReleaseLock, Places
    <3>2. Types'
      BY <2>11 DEF ReleaseLock, Places
    <3>3. sessionCount' = sessionCount
      BY <2>11 DEF ReleaseLock
    <3> QED
      BY <3>1, <3>2, <3>3
  <2>12. CASE Reply(s)
    <3>1. Connected' = Connected
      BY <2>12, <2>5 DEF Reply, Places
    <3> QED
      BY <2>12, <3>1 DEF Reply, Places
  <2>13. CASE TimeOut(s)
    <3>1. Connected' = Connected
      BY <2>13, <2>5 DEF TimeOut, Places
    <3> QED
      BY <2>13, <3>1 DEF TimeOut, Places
  <2>14. CASE EndSession(s)
    <3>1. Connected' = Connected
      BY <2>14, <2>5 DEF EndSession, Places
    <3>2. Types'
      BY <2>14 DEF EndSession, Places
    <3>3. sessionCount' = sessionCount
      BY <2>14 DEF EndSession
    <3> QED
      BY <3>1, <3>2, <3>3
  <2> QED
    BY <2>1, <2>2, <2>3, <2>4, <2>6, <2>7, <2>8, <2>9, <2>10, <2>11, <2>12,
       <2>13, <2>14 DEF Serve
<1> QED
  BY <1>1, <1>2

\* Every variable keeps its type: above all, the count of slots never goes
\* below zero nor above MAX_SESSIONS.
THEOREM TypeCorrect == Spec => []TypeOK
<1>1. TypeInv => TypeOK
  BY SessionsAssumption DEF TypeInv, Types, CountInv, TypeOK
<1> QED
  BY InitTypes, NextTypes, <1>1, PTL DEF Spec

\* No more connections are served at once than MAX_SESSIONS.
THEOREM SlotsSuffice == Spec => []SlotsAreEnough
<1>1. TypeInv => SlotsAreEnough
  BY ConnectedIsFinite, SessionsAssumption DEF TypeInv, CountInv, SlotsAreEnough
<1> QED
  BY InitTypes, NextTypes, <1>1, PTL DEF Spec

-----------------------------------------------------------------------------
(* The lock. *)

AtWork == {"running", "ran"}

\* A thread that is not holding for a transaction has the lock exactly while
\* its statement is at work, shared for a SELECT and exclusive otherwise; one
\* that is holding has it exclusively, and is somewhere it can come back from.
HolderInv ==
    \A s \in Session :
        IF holdingForTransaction[s]
           THEN /\ writer = s /\ s \notin readers
                /\ pc[s] \in AtWork \cup {"idle", "replying", "closing"}
           ELSE /\ s \in readers <=> pc[s] \in AtWork /\ kind[s] = "select"
                /\ writer = s <=> pc[s] \in AtWork /\ kind[s] # "select"

ExclusionInv == writer # None => readers = {}

\* Only the owner of the lock has the transaction, and the two flags differ
\* only between its statement and the end of ProcessStatement.
FlagInv ==
    /\ transactionOpen => writer # None
    /\ \A s \in Session :
         /\ holdingForTransaction[s] => transactionOpen \/ pc[s] = "ran"
         /\ transactionOpen /\ writer = s
               => holdingForTransaction[s] \/ pc[s] = "ran"

LockInv == Types /\ HolderInv /\ ExclusionInv /\ FlagInv

LEMMA InitLocks == Init => LockInv
BY SessionsAssumption
   DEF Init, LockInv, Types, HolderInv, ExclusionInv, FlagInv, AtWork, Places, Kinds

LEMMA NextLocks == TypeInv /\ LockInv /\ [Next]_sessionVars => LockInv'
<1> SUFFICES ASSUME TypeInv, LockInv, [Next]_sessionVars PROVE LockInv'
  OBVIOUS
<1>0. Types'
  BY NextTypes DEF TypeInv
<1> USE SessionsAssumption DEF LockInv, HolderInv, ExclusionInv, FlagInv, AtWork
<1>1. CASE UNCHANGED sessionVars
  BY <1>0, <1>1 DEF sessionVars, threadVars, lockVars, transactionVars, Types
<1>2. CASE Next
  <2>1. PICK s \in Session : \/ Accept(s) \/ AcceptNoMemory(s) \/ Disconnect(s)
                             \/ Ask(s) \/ Serve(s)
    BY <1>2 DEF Next
  <2> USE <1>0 DEF threadVars, lockVars, transactionVars, GoTo, Types
  <2>2. CASE Accept(s)
    BY <2>2 DEF Accept
  <2>3. CASE AcceptNoMemory(s)
    BY <2>3 DEF AcceptNoMemory
  <2>4. CASE Disconnect(s)
    BY <2>4 DEF Disconnect
  <2>5. CASE Ask(s)
    BY <2>5 DEF Ask, Submit
  <2>6. CASE TakeShared(s)
    BY <2>6 DEF TakeShared
  <2>7. CASE TakeExclusive(s)
    BY <2>7 DEF TakeExclusive
  <2>8. CASE RunSelect(s)
    BY <2>8 DEF RunSelect, Ran
  <2>9. CASE RunWrite(s)
    BY <2>9 DEF RunWrite, Ran
  <2>10. CASE RunBegin(s)
    BY <2>10 DEF RunBegin, Ran
  <2>11. CASE RunCommit(s)
    BY <2>11 DEF RunCommit, Ran
  <2>12. CASE RunRollback(s)
    BY <2>12 DEF RunRollback, Ran
  <2>13. CASE FailStatement(s)
    BY <2>13 DEF FailStatement, Ran
  <2>14. CASE ReleaseLock(s)
    BY <2>14 DEF ReleaseLock
  <2>15. CASE Reply(s)
    BY <2>15 DEF Reply
  <2>16. CASE TimeOut(s)
    BY <2>16 DEF TimeOut
  <2>17. CASE EndSession(s)
    BY <2>17 DEF EndSession
  <2>18. CASE ReleaseSlot(s)
    BY <2>18 DEF ReleaseSlot
  <2> QED
    BY <2>1, <2>2, <2>3, <2>4, <2>5, <2>6, <2>7, <2>8, <2>9, <2>10, <2>11, <2>12, <2>13, <2>14, <2>15, <2>16, <2>17, <2>18 DEF Serve, Run
<1> QED
  BY <1>1, <1>2

LEMMA LocksInvariant == Spec => [](TypeInv /\ LockInv)
BY InitTypes, NextTypes, InitLocks, NextLocks, PTL DEF Spec

\* An open transaction has exactly one owner, and it has the lock.
THEOREM TransactionIsOwned == Spec => []TransactionHasOwner
<1>1. LockInv => TransactionHasOwner
  BY SessionsAssumption DEF LockInv, Types, HolderInv, FlagInv, TransactionHasOwner
<1> QED
  BY LocksInvariant, <1>1, PTL

\* A SELECT outside a transaction never sees work that may be rolled back.
THEOREM ReadersAreAlone == Spec => []ReadersSeeNoTransaction
<1>1. LockInv => ReadersSeeNoTransaction
  BY DEF LockInv, ExclusionInv, FlagInv, ReadersSeeNoTransaction
<1> QED
  BY LocksInvariant, <1>1, PTL

\* Every way out of a statement or a connection gives the lock back.
THEOREM LockIsReturned == Spec => []NoLockLeft
<1>1. LockInv => NoLockLeft
  BY DEF LockInv, Types, HolderInv, NoLockLeft, AtWork
<1> QED
  BY LocksInvariant, <1>1, PTL

-----------------------------------------------------------------------------
(* The composition *)

LEMMA NextIsNext == [OwnersNext]_ownerVars => [Next]_sessionVars
<1> SUFFICES ASSUME [OwnersNext]_ownerVars PROVE [Next]_sessionVars
  OBVIOUS
<1>1. CASE UNCHANGED ownerVars
  BY <1>1 DEF ownerVars
<1>2. CASE OwnersNext
  <2>1. PICK s \in Session :
          \/ TouchNoPage(s) \/ EndStatement(s) \/ LeaveSession(s)
          \/ StartJoin(s) \/ FreeScratch(s) \/ FillScratch(s) \/ JoinRow(s)
          \/ ReturnSelect(s) \/ ReturnWrite(s) \/ ReturnBegin(s) \/ ReturnCommit(s)
          \/ ReturnRollback(s) \/ ReturnFailed(s)
          \/ \E t \in Table : \/ GrowTable(s, t) \/ DropTable(s, t)
                              \/ CompactTable(s, t) \/ FailCompaction(s, t)
    BY <1>2 DEF OwnersNext
  <2>2. CASE TouchNoPage(s)
    BY <2>2 DEF TouchNoPage, Next, Serve
  <2>3. CASE EndStatement(s) \/ LeaveSession(s)
    BY <2>3 DEF EndStatement, LeaveSession, Next, Serve
  <2>4. CASE StartJoin(s) \/ FreeScratch(s) \/ FillScratch(s) \/ JoinRow(s)
    BY <2>4 DEF StartJoin, FreeScratch, FillScratch, JoinRow
  <2>5. CASE \/ ReturnSelect(s) \/ ReturnWrite(s) \/ ReturnBegin(s)
             \/ ReturnCommit(s) \/ ReturnRollback(s) \/ ReturnFailed(s)
    BY <2>5 DEF ReturnSelect, ReturnWrite, ReturnBegin, ReturnCommit,
                ReturnRollback, ReturnFailed, Next, Serve, Run
  <2>6. ASSUME NEW t \in Table,
               \/ GrowTable(s, t) \/ DropTable(s, t)
               \/ CompactTable(s, t) \/ FailCompaction(s, t)
        PROVE  UNCHANGED sessionVars
    BY <2>6 DEF GrowTable, DropTable, CompactTable, FailCompaction, Rewrite
  <2> QED
    BY <2>1, <2>2, <2>3, <2>4, <2>5, <2>6
<1> QED
  BY <1>1, <1>2

\* The composition implements Sessions.tla: pages are managed without a step
\* that the threads and their lock do not allow.
THEOREM OwnersImplementSessions == OwnersSpec => Spec
<1>1. OwnersInit => Init
  BY DEF OwnersInit
<1> QED
  BY <1>1, NextIsNext, PTL DEF OwnersSpec, Spec

\* A thread that changes a table has the lock exclusively.
LEMMA WriterHasLock ==
  ASSUME NEW s \in Session, TypeInv, LockInv, pc[s] = "running", kind[s] # "select"
  PROVE  writer = s
BY DEF LockInv, Types, HolderInv, AtWork

LEMMA HeapChangesUnderLock ==
  ASSUME TypeInv, LockInv, OwnersNext, heap' # heap
  PROVE  writer # None
<1>1. PICK s \in Session :
        \/ TouchNoPage(s) \/ EndStatement(s) \/ LeaveSession(s)
        \/ StartJoin(s) \/ FreeScratch(s) \/ FillScratch(s) \/ JoinRow(s)
        \/ ReturnSelect(s) \/ ReturnWrite(s) \/ ReturnBegin(s) \/ ReturnCommit(s)
        \/ ReturnRollback(s) \/ ReturnFailed(s)
        \/ \E t \in Table : \/ GrowTable(s, t) \/ DropTable(s, t)
                            \/ CompactTable(s, t) \/ FailCompaction(s, t)
  BY DEF OwnersNext
<1>2. CASE \E t \in Table : \/ GrowTable(s, t) \/ DropTable(s, t)
                            \/ CompactTable(s, t) \/ FailCompaction(s, t)
  <2>1. pc[s] = "running" /\ kind[s] # "select"
    BY <1>2 DEF GrowTable, DropTable, CompactTable, FailCompaction, Rewrite
  <2> QED
    BY <2>1, WriterHasLock, SessionsAssumption
<1>3. CASE ReturnRollback(s)
  <2>1. pc[s] = "running" /\ kind[s] # "select"
    BY <1>3 DEF ReturnRollback, RunRollback, Ran
  <2> QED
    BY <2>1, WriterHasLock, SessionsAssumption
<1>4. CASE LeaveSession(s)
  <2>1. holdingForTransaction[s]
    BY <1>4 DEF LeaveSession
  <2> QED
    BY <2>1, SessionsAssumption DEF LockInv, HolderInv
<1>5. CASE \/ TouchNoPage(s) \/ EndStatement(s) \/ StartJoin(s) \/ FreeScratch(s)
           \/ FillScratch(s) \/ JoinRow(s) \/ ReturnSelect(s) \/ ReturnWrite(s)
           \/ ReturnBegin(s) \/ ReturnCommit(s) \/ ReturnFailed(s)
  BY <1>5 DEF TouchNoPage, EndStatement, StartJoin, FreeScratch, FillScratch, JoinRow,
              ReturnSelect, ReturnWrite, ReturnBegin, ReturnCommit, ReturnFailed,
              pageVars
<1> QED
  BY <1>1, <1>2, <1>3, <1>4, <1>5

\* No table gains or loses a page while a SELECT holds the lock.
THEOREM TablesStandStill == OwnersSpec => TablesKeepStill
<1>1. TypeInv /\ LockInv /\ [OwnersNext]_ownerVars
        => [readers # {} => heap' = heap]_ownerVars
  BY HeapChangesUnderLock DEF LockInv, ExclusionInv, ownerVars, pageVars
<1> QED
  BY <1>1, OwnersImplementSessions, LocksInvariant, PTL DEF OwnersSpec, TablesKeepStill

-----------------------------------------------------------------------------
(* Who owns a page.  The invariant speaks of the lists of pages as sets: the *)
(* places in them matter only for the allocator's stack.                     *)

Distinct(list) == \A i, j \in DOMAIN list : list[i] = list[j] => i = j

\* A list of pages that were given out before page n was.
IsList(list, n) ==
    /\ list \in Seq(Nat)
    /\ Distinct(list)
    /\ \A p \in ToSet(list) : p < n

\* Tables, joins and the allocator have a page each to themselves.
Apart ==
    /\ \A g \in Holder : IsList(Holding(g), pageCount)
    /\ \A g, h \in Holder : g # h => ToSet(Holding(g)) \cap ToSet(Holding(h)) = {}

\* What a rollback would bring back: the tables of the last commit, made of pages
\* there were when the transaction began.
CatalogApart ==
    /\ \A t \in Table : IsList(catalog[t], pageCount)
    /\ \A t, u \in Table : t # u => ToSet(catalog[t]) \cap ToSet(catalog[u]) = {}
    /\ transactionOpen =>
         /\ transactionPages \in Nat
         /\ \A t \in Table : IsList(catalog[t], transactionPages)

Lists ==
    /\ heap = [t \in Table |-> heap[t]]
    /\ catalog = [t \in Table |-> catalog[t]]
    /\ joinHeap = [s \in Session |-> joinHeap[s]]
    /\ pageCount \in Nat

PagesInv == ~outlived => Lists /\ Apart /\ CatalogApart

\* Two lists end to end.
LEMMA JoinedLists ==
    ASSUME NEW a \in Seq(Nat), NEW b \in Seq(Nat)
    PROVE  /\ a \o b \in Seq(Nat)
           /\ ToSet(a \o b) = ToSet(a) \cup ToSet(b)
           /\ Distinct(a) /\ Distinct(b) /\ ToSet(a) \cap ToSet(b) = {}
                => Distinct(a \o b)
<1> DEFINE c == a \o b
<1>1. /\ Len(a) \in Nat /\ Len(b) \in Nat
      /\ DOMAIN a = 1 .. Len(a) /\ DOMAIN b = 1 .. Len(b)
  BY LenProperties
<1>2. /\ c \in Seq(Nat) /\ Len(c) = Len(a) + Len(b)
      /\ \A i \in 1 .. Len(a) + Len(b) :
           c[i] = IF i <= Len(a) THEN a[i] ELSE b[i - Len(a)]
  BY ConcatProperties
<1> HIDE DEF c
<1>3. DOMAIN c = 1 .. Len(a) + Len(b)
  BY <1>2, LenProperties
<1>4. \A i \in DOMAIN a : i \in DOMAIN c /\ c[i] = a[i]
  BY <1>1, <1>2, <1>3
<1>5. \A i \in DOMAIN b : i + Len(a) \in DOMAIN c /\ c[i + Len(a)] = b[i]
  <2> TAKE i \in DOMAIN b
  <2>1. PICK k \in 1 .. Len(a) + Len(b) : k = i + Len(a)
    BY <1>1
  <2>2. ~(k <= Len(a)) /\ k - Len(a) = i
    BY <2>1, <1>1
  <2>3. c[k] = b[i]
    BY <2>2, <1>2
  <2> QED
    BY <2>1, <2>3, <1>3
<1>6. \A i \in DOMAIN c : \/ i \in DOMAIN a /\ c[i] = a[i]
                          \/ i - Len(a) \in DOMAIN b /\ c[i] = b[i - Len(a)]
  BY <1>1, <1>2, <1>3
<1>7. ToSet(c) = ToSet(a) \cup ToSet(b)
  <2>1. \A p : p \in ToSet(c) => p \in ToSet(a) \/ p \in ToSet(b)
    BY <1>6 DEF ToSet
  <2>2. \A p : p \in ToSet(a) => p \in ToSet(c)
    BY <1>4 DEF ToSet
  <2>3. \A p : p \in ToSet(b) => p \in ToSet(c)
    BY <1>5 DEF ToSet
  <2> QED
    BY <2>1, <2>2, <2>3
<1>8. ASSUME Distinct(a), Distinct(b), ToSet(a) \cap ToSet(b) = {},
             NEW i \in DOMAIN c, NEW j \in DOMAIN c, c[i] = c[j]
      PROVE  i = j
  <2>1. \A k \in DOMAIN a : a[k] \in ToSet(a)
    BY DEF ToSet
  <2>2. \A k \in DOMAIN b : b[k] \in ToSet(b)
    BY DEF ToSet
  <2>3. i \in Int /\ j \in Int /\ Len(a) \in Int
    BY <1>1, <1>3
  <2>4. CASE i \in DOMAIN a /\ c[i] = a[i] /\ j \in DOMAIN a /\ c[j] = a[j]
    BY <2>4, <1>8 DEF Distinct
  <2>5. CASE /\ i - Len(a) \in DOMAIN b /\ c[i] = b[i - Len(a)]
             /\ j - Len(a) \in DOMAIN b /\ c[j] = b[j - Len(a)]
    <3>1. i - Len(a) = j - Len(a)
      BY <2>5, <1>8 DEF Distinct
    <3> QED
      BY <3>1, <2>3
  <2>6. CASE i \in DOMAIN a /\ c[i] = a[i] /\ j - Len(a) \in DOMAIN b /\ c[j] = b[j - Len(a)]
    BY <2>1, <2>2, <2>6, <1>8
  <2>7. CASE j \in DOMAIN a /\ c[j] = a[j] /\ i - Len(a) \in DOMAIN b /\ c[i] = b[i - Len(a)]
    BY <2>1, <2>2, <2>7, <1>8
  <2> QED
    BY <2>4, <2>5, <2>6, <2>7, <1>6
<1>9. Distinct(a) /\ Distinct(b) /\ ToSet(a) \cap ToSet(b) = {} => Distinct(c)
  BY <1>8 DEF Distinct
<1> QED
  BY <1>2, <1>7, <1>9 DEF c

LEMMA EmptyList ==
    /\ <<>> \in Seq(Nat) /\ Distinct(<<>>) /\ ToSet(<<>>) = {}
    /\ \A n : IsList(<<>>, n)
<1>1. <<>> \in Seq(Nat) /\ DOMAIN <<>> = {}
  OBVIOUS
<1>2. Distinct(<<>>) /\ ToSet(<<>>) = {}
  BY <1>1 DEF Distinct, ToSet
<1> QED
  BY <1>1, <1>2 DEF IsList

\* A page list without its first page.
LEMMA HeadAndTail ==
    ASSUME NEW s \in Seq(Nat), s # <<>>, Distinct(s)
    PROVE  /\ <<Head(s)>> \in Seq(Nat) /\ Tail(s) \in Seq(Nat)
           /\ Distinct(<<Head(s)>>) /\ Distinct(Tail(s))
           /\ ToSet(s) = ToSet(<<Head(s)>>) \cup ToSet(Tail(s))
           /\ ToSet(<<Head(s)>>) \cap ToSet(Tail(s)) = {}
<1> DEFINE h == Head(s)
           t == Tail(s)
<1>a. /\ Len(s) \in Nat \ {0} /\ DOMAIN s = 1 .. Len(s)
      /\ h = s[1] /\ h \in Nat
  BY EmptySeq, LenProperties, HeadTailProperties
<1>b. /\ t \in Seq(Nat) /\ Len(t) = Len(s) - 1 /\ DOMAIN t = 1 .. Len(s) - 1
      /\ \A i \in 1 .. Len(s) - 1 : t[i] = s[i + 1]
  BY <1>a, HeadTailProperties, LenProperties
<1>c. PICK len \in Nat \ {0} : len = Len(s)
  BY <1>a
<1>1. DOMAIN s = 1 .. len /\ h = s[1] /\ h \in Nat
  BY <1>a, <1>c
<1>2. /\ t \in Seq(Nat) /\ DOMAIN t = 1 .. len - 1
      /\ \A i \in 1 .. len - 1 : t[i] = s[i + 1]
  BY <1>b, <1>c
<1>d. \A i \in DOMAIN t : i \in 1 .. len - 1 /\ i + 1 \in DOMAIN s /\ i \in Nat /\ i # 0
  BY <1>1, <1>2
<1> HIDE DEF h, t
<1>3. /\ <<h>> \in Seq(Nat) /\ DOMAIN <<h>> = {1} /\ <<h>>[1] = h
  BY <1>1
<1>4. ToSet(<<h>>) = {h} /\ Distinct(<<h>>)
  BY <1>3 DEF ToSet, Distinct
<1>5. Distinct(t)
  <2> SUFFICES ASSUME NEW i \in DOMAIN t, NEW j \in DOMAIN t, t[i] = t[j]
               PROVE  i = j
    BY DEF Distinct
  <2>1. /\ i + 1 \in DOMAIN s /\ j + 1 \in DOMAIN s /\ s[i + 1] = s[j + 1]
        /\ i \in Int /\ j \in Int
    <3>1. t[i] = s[i + 1] /\ t[j] = s[j + 1]
      BY <1>d, <1>2
    <3>2. s[i + 1] = s[j + 1]
      BY <3>1
    <3>3. i + 1 \in DOMAIN s /\ j + 1 \in DOMAIN s /\ i \in Nat /\ j \in Nat
      BY <1>d
    <3> QED
      BY <3>2, <3>3
  <2>2. i + 1 = j + 1
    BY <2>1 DEF Distinct
  <2> QED
    BY <2>1, <2>2
<1>6. h \notin ToSet(t)
  <2> SUFFICES ASSUME NEW i \in DOMAIN t, t[i] = h PROVE FALSE
    BY DEF ToSet
  <2>1. /\ i + 1 \in DOMAIN s /\ 1 \in DOMAIN s /\ s[i + 1] = s[1]
        /\ i \in Nat /\ i # 0
    <3>1. t[i] = s[i + 1]
      BY <1>d, <1>2
    <3>2. 1 \in DOMAIN s
      BY <1>1
    <3> QED
      BY <3>1, <3>2, <1>1, <1>d
  <2>2. i + 1 = 1
    BY <2>1 DEF Distinct
  <2> QED
    BY <2>1, <2>2
<1>7. ToSet(s) = {h} \cup ToSet(t)
  <2>1. \A i \in DOMAIN s : s[i] = h \/ \E j \in DOMAIN t : t[j] = s[i]
    <3> TAKE i \in DOMAIN s
    <3>1. CASE i = 1
      BY <3>1, <1>1
    <3>2. CASE i # 1
      <4>1. i - 1 \in DOMAIN t /\ t[i - 1] = s[i]
        BY <3>2, <1>1, <1>2
      <4> QED
        BY <4>1
    <3> QED
      BY <3>1, <3>2
  <2>2. \A j \in DOMAIN t : j + 1 \in DOMAIN s /\ s[j + 1] = t[j]
    BY <1>1, <1>2
  <2>3. 1 \in DOMAIN s
    BY <1>1
  <2> QED
    BY <2>1, <2>2, <2>3, <1>1 DEF ToSet
<1> QED
  BY <1>2, <1>3, <1>4, <1>5, <1>6, <1>7 DEF h, t

\* allocateLocked: what is taken was free or is new, no page twice, and what is
\* left of the stack is what was not taken.
LEMMA AllocatedPages ==
    ASSUME pageCount \in Nat, IsList(freeIds, pageCount), NEW n \in Nat
    PROVE  LET taken == Allocated(n)
               rest == SubSeq(freeIds, 1, Len(freeIds) - n)
               after == pageCount + (IF n > Len(freeIds) THEN n - Len(freeIds) ELSE 0)
           IN  /\ taken \in Seq(Nat) /\ Distinct(taken)
               /\ \A p \in ToSet(taken) : /\ p < after
                                          /\ p \in ToSet(freeIds) \/ p >= pageCount
               /\ rest \in Seq(Nat) /\ Distinct(rest)
               /\ ToSet(rest) \subseteq ToSet(freeIds)
               /\ ToSet(rest) \cap ToSet(taken) = {}
               /\ after \in Nat /\ pageCount <= after
<1> DEFINE taken == Allocated(n)
           spare == Len(freeIds)
           rest == SubSeq(freeIds, 1, spare - n)
           after == pageCount + (IF n > spare THEN n - spare ELSE 0)
<1>1. /\ freeIds \in Seq(Nat) /\ spare \in Nat /\ DOMAIN freeIds = 1 .. spare
      /\ \A i \in 1 .. spare : freeIds[i] \in Nat /\ freeIds[i] \in ToSet(freeIds)
      /\ \A i, j \in 1 .. spare : freeIds[i] = freeIds[j] => i = j
      /\ \A p \in ToSet(freeIds) : p < pageCount
  BY LenProperties, ElementOfSeq DEF IsList, Distinct, ToSet
<1>2. taken = [i \in 1 .. n |-> IF i <= spare THEN freeIds[spare + 1 - i]
                                              ELSE pageCount + i - spare - 1]
  BY DEF Allocated
<1> HIDE DEF spare, taken
<1>3. \A i \in 1 .. n :
        IF i <= spare THEN /\ spare + 1 - i \in 1 .. spare
                           /\ taken[i] = freeIds[spare + 1 - i]
                      ELSE taken[i] = pageCount + i - spare - 1
  BY <1>1, <1>2
<1>4. DOMAIN taken = 1 .. n /\ \A i \in 1 .. n : taken[i] \in Nat
  BY <1>1, <1>2, <1>3
<1>5. taken \in Seq(Nat)
  BY <1>2, <1>4
<1>6. Distinct(taken)
  <2> SUFFICES ASSUME NEW i \in 1 .. n, NEW j \in 1 .. n, taken[i] = taken[j]
               PROVE  i = j
    BY <1>4 DEF Distinct
  <2>1. CASE i <= spare /\ j <= spare
    <3>1. spare + 1 - i = spare + 1 - j
      BY <2>1, <1>1, <1>3
    <3> QED
      BY <3>1, <1>1
  <2>2. CASE ~(i <= spare) /\ ~(j <= spare)
    BY <2>2, <1>1, <1>3
  <2>3. CASE i <= spare /\ ~(j <= spare)
    <3>1. taken[i] < pageCount /\ taken[j] >= pageCount
      BY <2>3, <1>1, <1>3
    <3> QED
      BY <3>1, <1>4
  <2>4. CASE ~(i <= spare) /\ j <= spare
    <3>1. taken[j] < pageCount /\ taken[i] >= pageCount
      BY <2>4, <1>1, <1>3
    <3> QED
      BY <3>1, <1>4
  <2> QED
    BY <2>1, <2>2, <2>3, <2>4
<1>7. after \in Nat /\ pageCount <= after
  BY <1>1
<1>8. ASSUME NEW p \in ToSet(taken)
      PROVE  p < after /\ (p \in ToSet(freeIds) \/ p >= pageCount)
  <2>1. PICK i \in 1 .. n : p = taken[i]
    BY <1>4 DEF ToSet
  <2>2. CASE i <= spare
    <3>1. p \in ToSet(freeIds) /\ p < pageCount /\ p \in Nat
      BY <2>1, <2>2, <1>1, <1>3
    <3> QED
      BY <3>1, <1>7
  <2>3. CASE ~(i <= spare)
    BY <2>1, <2>3, <1>1, <1>3
  <2> QED
    BY <2>2, <2>3
<1>9. /\ rest \in Seq(Nat)
      /\ \A i \in DOMAIN rest : i \in 1 .. spare - n /\ i \in 1 .. spare /\ rest[i] = freeIds[i]
  <2>1. spare - n \in Int /\ \A i \in 1 .. spare - n : i \in 1 .. spare
    BY <1>1
  <2>2. /\ rest \in Seq(Nat)
        /\ Len(rest) = IF 1 <= spare - n THEN spare - n - 1 + 1 ELSE 0
        /\ \A i \in 1 .. spare - n - 1 + 1 : rest[i] = freeIds[1 + i - 1]
    <3>1. \A i \in 1 .. spare - n : freeIds[i] \in Nat
      BY <2>1, <1>1
    <3> QED
      BY <3>1, <2>1, SubSeqProperties
  <2>3. DOMAIN rest = 1 .. Len(rest)
    BY <2>2, LenProperties
  <2> HIDE DEF rest
  <2> QED
    BY <2>1, <2>2, <2>3
<1> HIDE DEF rest
<1>10. Distinct(rest) /\ ToSet(rest) \subseteq ToSet(freeIds)
  BY <1>1, <1>9 DEF Distinct, ToSet
<1>11. ToSet(rest) \cap ToSet(taken) = {}
  <2> SUFFICES ASSUME NEW i \in DOMAIN rest, NEW j \in 1 .. n, rest[i] = taken[j]
               PROVE  FALSE
    BY <1>4 DEF ToSet
  <2>1. i \in 1 .. spare - n /\ i \in 1 .. spare /\ freeIds[i] = taken[j]
    BY <1>9
  <2>2. CASE j <= spare
    <3>1. i = spare + 1 - j
      BY <2>1, <2>2, <1>1, <1>3
    <3> QED
      BY <3>1, <2>1, <1>1
  <2>3. CASE ~(j <= spare)
    <3>1. freeIds[i] < pageCount /\ taken[j] >= pageCount /\ freeIds[i] \in Nat
      BY <2>1, <2>3, <1>1, <1>3
    <3> QED
      BY <3>1, <2>1
  <2> QED
    BY <2>2, <2>3
<1> QED
  BY <1>5, <1>6, <1>7, <1>8, <1>9, <1>10, <1>11 DEF taken, rest, spare

\* Where the pages of each holder are.
LEMMA HoldingIs ==
    /\ \A t \in Table : Holding(t) = heap[t] /\ Holding(t)' = heap'[t]
    /\ \A s \in Session : Holding(s) = joinHeap[s] /\ Holding(s)' = joinHeap'[s]
    /\ Holding(None) = freeIds /\ Holding(None)' = freeIds'
BY PageOwnersAssumption, SessionsAssumption DEF Holding

\* One holder gives some of its pages and of n new ones back to the allocator,
\* and keeps some of the others.
LEMMA Exchange ==
    ASSUME pageCount \in Nat, Apart,
           NEW g \in Table \cup Session, NEW n \in Nat, NEW returned \in Seq(Nat),
           Reallocate(n, returned), Distinct(returned),
           Holding(g)' \in Seq(Nat), Distinct(Holding(g)'),
           ToSet(Holding(g)') \subseteq ToSet(Holding(g)) \cup ToSet(Allocated(n)),
           ToSet(returned) \subseteq ToSet(Holding(g)) \cup ToSet(Allocated(n)),
           ToSet(Holding(g)') \cap ToSet(returned) = {},
           \A h \in (Table \cup Session) \ {g} : Holding(h)' = Holding(h)
    PROVE  Apart' /\ pageCount' \in Nat /\ pageCount <= pageCount'
<1> DEFINE taken == Allocated(n)
           rest == SubSeq(freeIds, 1, Len(freeIds) - n)
           G == ToSet(Holding(g))
           F == ToSet(freeIds)
<1>1. Holding(None) = freeIds /\ Holding(None)' = freeIds'
  BY HoldingIs
<1>2. /\ None \in Holder /\ g \in Holder /\ g # None
      /\ \A h \in Holder : h = g \/ h = None \/ h \in (Table \cup Session) \ {g}
  BY PageOwnersAssumption, SessionsAssumption DEF Holder
<1>3. IsList(freeIds, pageCount) /\ IsList(Holding(g), pageCount) /\ G \cap F = {}
  BY <1>1, <1>2 DEF Apart
<1>4. /\ taken \in Seq(Nat) /\ Distinct(taken)
      /\ \A p \in ToSet(taken) : p < pageCount' /\ (p \in F \/ p >= pageCount)
      /\ rest \in Seq(Nat) /\ Distinct(rest)
      /\ ToSet(rest) \subseteq F /\ ToSet(rest) \cap ToSet(taken) = {}
      /\ pageCount' \in Nat /\ pageCount <= pageCount'
      /\ freeIds' = rest \o returned
  BY <1>3, AllocatedPages DEF Reallocate
<1>5. \A list \in Seq(Nat) : ToSet(list) \subseteq Nat
  BY LenProperties, ElementOfSeq DEF ToSet
<1>6. /\ \A p \in G : p < pageCount /\ p \in Nat
      /\ \A p \in F : p < pageCount /\ p \in Nat
      /\ \A p \in ToSet(taken) : p \in Nat
  BY <1>3, <1>4, <1>5 DEF IsList
<1> HIDE DEF taken, rest, G, F
<1>7. /\ ToSet(Holding(g)') \subseteq G \cup ToSet(taken)
      /\ ToSet(returned) \subseteq G \cup ToSet(taken)
  BY DEF G, taken
<1>8. \A p \in G \cup ToSet(taken) : p < pageCount'
  BY <1>4, <1>6
<1>9. /\ freeIds' \in Seq(Nat) /\ Distinct(freeIds')
      /\ ToSet(freeIds') = ToSet(rest) \cup ToSet(returned)
  <2>1. ToSet(rest) \cap ToSet(returned) = {}
    BY <1>3, <1>4, <1>7
  <2> QED
    BY <1>4, <2>1, JoinedLists
<1>10. IsList(freeIds', pageCount') /\ IsList(Holding(g)', pageCount')
  <2>1. \A p \in ToSet(freeIds') : p < pageCount'
    <3>1. \A p \in F : p < pageCount'
      BY <1>4, <1>6
    <3> QED
      BY <3>1, <1>4, <1>7, <1>8, <1>9
  <2>2. \A p \in ToSet(Holding(g)') : p < pageCount'
    BY <1>7, <1>8
  <2> QED
    BY <2>1, <2>2, <1>9 DEF IsList
<1>11. ToSet(Holding(g)') \cap ToSet(freeIds') = {}
  BY <1>3, <1>4, <1>7, <1>9
<1>12. ASSUME NEW h \in (Table \cup Session) \ {g}
       PROVE  /\ IsList(Holding(h)', pageCount')
              /\ ToSet(Holding(h)') \cap ToSet(Holding(g)') = {}
              /\ ToSet(Holding(h)') \cap ToSet(freeIds') = {}
  <2>1. Holding(h)' = Holding(h) /\ h \in Holder /\ h # None
    BY PageOwnersAssumption, SessionsAssumption DEF Holder
  <2>2. /\ IsList(Holding(h), pageCount)
        /\ ToSet(Holding(h)) \cap G = {} /\ ToSet(Holding(h)) \cap F = {}
    BY <2>1, <1>1, <1>2 DEF Apart, G, F
  <2>3. \A p \in ToSet(Holding(h)) : p \in Nat /\ p < pageCount
    BY <2>2, <1>5 DEF IsList
  <2>4. ToSet(Holding(h)) \cap ToSet(taken) = {}
    BY <2>2, <2>3, <1>4
  <2>5. \A p \in ToSet(Holding(h)) : p < pageCount'
    BY <2>3, <1>4
  <2> QED
    BY <2>1, <2>2, <2>4, <2>5, <1>4, <1>7, <1>9 DEF IsList
<1>13. \A h \in Holder : IsList(Holding(h)', pageCount')
  BY <1>1, <1>2, <1>10, <1>12
<1>14. ASSUME NEW h \in Holder, NEW k \in Holder, h # k
       PROVE  ToSet(Holding(h)') \cap ToSet(Holding(k)') = {}
  <2>1. CASE h \in (Table \cup Session) \ {g} /\ k \in (Table \cup Session) \ {g}
    <3>1. Holding(h)' = Holding(h) /\ Holding(k)' = Holding(k)
      BY <2>1
    <3> QED
      BY <3>1, <1>14 DEF Apart
  <2>2. CASE h \in (Table \cup Session) \ {g} /\ k \in {g, None}
    BY <2>2, <1>1, <1>12
  <2>3. CASE k \in (Table \cup Session) \ {g} /\ h \in {g, None}
    BY <2>3, <1>1, <1>12
  <2>4. CASE h \in {g, None} /\ k \in {g, None}
    BY <2>4, <1>1, <1>11, <1>14
  <2> QED
    BY <1>2, <2>1, <2>2, <2>3, <2>4
<1> QED
  BY <1>4, <1>13, <1>14 DEF Apart

\* What the allocator hands out is nobody's.
LEMMA TakenIsNobodys ==
    ASSUME pageCount \in Nat, Apart, NEW g \in Table \cup Session, NEW n \in Nat
    PROVE  /\ Allocated(n) \in Seq(Nat) /\ Distinct(Allocated(n))
           /\ ToSet(Holding(g)) \cap ToSet(Allocated(n)) = {}
           /\ n = 0 => ToSet(Allocated(n)) = {}
<1>1. Holding(None) = freeIds /\ None \in Holder /\ g \in Holder /\ g # None
  BY HoldingIs, PageOwnersAssumption, SessionsAssumption DEF Holder
<1>2. /\ IsList(freeIds, pageCount) /\ IsList(Holding(g), pageCount)
      /\ ToSet(Holding(g)) \cap ToSet(freeIds) = {}
  BY <1>1 DEF Apart
<1>3. /\ Allocated(n) \in Seq(Nat) /\ Distinct(Allocated(n))
      /\ \A p \in ToSet(Allocated(n)) : p \in ToSet(freeIds) \/ p >= pageCount
  BY <1>2, AllocatedPages
<1>4. \A p \in ToSet(Holding(g)) : p \in Nat /\ p < pageCount
  <2>1. \A list \in Seq(Nat) : ToSet(list) \subseteq Nat
    BY LenProperties, ElementOfSeq DEF ToSet
  <2> QED
    BY <2>1, <1>2 DEF IsList
<1>5. n = 0 => ToSet(Allocated(n)) = {}
  <2> SUFFICES ASSUME n = 0 PROVE DOMAIN Allocated(n) = {}
    BY DEF ToSet
  <2> QED
    BY DEF Allocated
<1> QED
  BY <1>2, <1>3, <1>4, <1>5

\* A step that gives one table, or one join, another list of pages.
LEMMA TableChanges ==
    ASSUME Lists, NEW t \in Table, NEW list,
           heap' = [heap EXCEPT ![t] = list], UNCHANGED <<joinHeap, catalog>>
    PROVE  /\ Holding(t)' = list
           /\ \A h \in (Table \cup Session) \ {t} : Holding(h)' = Holding(h)
           /\ pageCount' \in Nat => Lists'
<1>1. /\ heap'[t] = list /\ \A u \in Table \ {t} : heap'[u] = heap[u]
      /\ heap' = [u \in Table |-> heap'[u]]
  BY DEF Lists
<1> QED
  BY <1>1, HoldingIs DEF Lists

LEMMA JoinChanges ==
    ASSUME Lists, NEW s \in Session, NEW list,
           joinHeap' = [joinHeap EXCEPT ![s] = list], UNCHANGED <<heap, catalog>>
    PROVE  /\ Holding(s)' = list
           /\ \A h \in (Table \cup Session) \ {s} : Holding(h)' = Holding(h)
           /\ pageCount' \in Nat => Lists'
<1>1. /\ joinHeap'[s] = list /\ \A u \in Session \ {s} : joinHeap'[u] = joinHeap[u]
      /\ joinHeap' = [u \in Session |-> joinHeap'[u]]
  BY DEF Lists
<1> QED
  BY <1>1, HoldingIs DEF Lists

\* A step in which nobody gains a page.
LEMMA ApartStays ==
    ASSUME Apart, pageCount' = pageCount,
           \A h \in Holder : Holding(h)' = Holding(h) \/ Holding(h)' = <<>>
    PROVE  Apart'
<1>1. \A h \in Holder : IsList(Holding(h)', pageCount')
  BY EmptyList DEF Apart
<1>2. \A g, h \in Holder : g # h => ToSet(Holding(g)') \cap ToSet(Holding(h)') = {}
  BY EmptyList DEF Apart
<1> QED
  BY <1>1, <1>2 DEF Apart

\* A longer file, and no more of a transaction than there was.
LEMMA CatalogStays ==
    ASSUME CatalogApart, catalog' = catalog,
           pageCount \in Nat, pageCount' \in Nat, pageCount <= pageCount',
           transactionOpen' => transactionOpen /\ transactionPages' = transactionPages
    PROVE  CatalogApart'
<1>1. ASSUME NEW t \in Table PROVE IsList(catalog[t], pageCount')
  <2>1. IsList(catalog[t], pageCount)
    BY DEF CatalogApart
  <2>2. \A p \in ToSet(catalog[t]) : p \in Nat /\ p < pageCount
    <3>1. \A list \in Seq(Nat) : ToSet(list) \subseteq Nat
      BY LenProperties, ElementOfSeq DEF ToSet
    <3> QED
      BY <2>1, <3>1 DEF IsList
  <2>3. \A p \in ToSet(catalog[t]) : p < pageCount'
    BY <2>2
  <2> QED
    BY <2>1, <2>3 DEF IsList
<1> QED
  BY <1>1 DEF CatalogApart

\* loadDatabase: where no join still counts a page as its own that is given away,
\* the tables of the last commit and the joins are all there is.
LEMMA ReloadKeeps ==
    ASSUME Lists, Apart, CatalogApart, transactionOpen, ~transactionOpen', ReloadDatabase,
           ~outlived', joinHeap' = [s \in Session |-> joinHeap'[s]],
           \A s \in Session : joinHeap'[s] = joinHeap[s] \/ joinHeap'[s] = <<>>
    PROVE  Lists' /\ Apart' /\ CatalogApart'
<1>1. /\ \A t \in Table : Holding(t)' = catalog[t]
      /\ \A s \in Session : Holding(s)' = joinHeap'[s]
      /\ Holding(None)' = <<>>
  BY HoldingIs DEF ReloadDatabase
<1>2. /\ transactionPages \in Nat /\ pageCount' = transactionPages
      /\ \A t \in Table : IsList(catalog[t], transactionPages)
      /\ \A t, u \in Table : t # u => ToSet(catalog[t]) \cap ToSet(catalog[u]) = {}
  BY DEF CatalogApart, ReloadDatabase
<1>3. \A s \in Session : IsList(joinHeap'[s], pageCount)
  <2>1. \A s \in Session : IsList(joinHeap[s], pageCount)
    BY HoldingIs DEF Apart, Holder
  <2> QED
    BY <2>1, EmptyList
<1>4. ASSUME NEW s \in Session, NEW p \in ToSet(joinHeap'[s])
      PROVE  p < transactionPages /\ \A t \in Table : p \notin ToSet(catalog[t])
  <2>1. ~(p >= transactionPages) /\ \A t \in Table : p \notin ToSet(catalog[t])
    BY DEF ReloadDatabase
  <2>2. p \in Nat
    <3>1. \A list \in Seq(Nat) : ToSet(list) \subseteq Nat
      BY LenProperties, ElementOfSeq DEF ToSet
    <3> QED
      BY <1>3, <3>1 DEF IsList
  <2> QED
    BY <2>1, <2>2, <1>2
<1>5. \A s \in Session : IsList(joinHeap'[s], transactionPages)
  BY <1>3, <1>4 DEF IsList
<1>6. \A s, u \in Session : s # u => ToSet(joinHeap'[s]) \cap ToSet(joinHeap'[u]) = {}
  <2>1. \A s, u \in Session : s # u => ToSet(joinHeap[s]) \cap ToSet(joinHeap[u]) = {}
    BY HoldingIs DEF Apart, Holder
  <2> QED
    BY <2>1, EmptyList
<1>7. \A h \in Holder : IsList(Holding(h)', pageCount')
  BY <1>1, <1>2, <1>5, EmptyList DEF Holder
<1>8. ASSUME NEW g \in Holder, NEW h \in Holder, g # h
      PROVE  ToSet(Holding(g)') \cap ToSet(Holding(h)') = {}
  <2>1. CASE g = None \/ h = None
    BY <2>1, <1>1, EmptyList
  <2>2. CASE g \in Table /\ h \in Table
    BY <2>2, <1>1, <1>2, <1>8
  <2>3. CASE g \in Session /\ h \in Session
    BY <2>3, <1>1, <1>6, <1>8
  <2>4. CASE g \in Table /\ h \in Session
    BY <2>4, <1>1, <1>4
  <2>5. CASE g \in Session /\ h \in Table
    BY <2>5, <1>1, <1>4
  <2> QED
    BY <2>1, <2>2, <2>3, <2>4, <2>5 DEF Holder
<1>9. Apart'
  BY <1>7, <1>8 DEF Apart
<1>10. Lists'
  BY <1>2 DEF Lists, ReloadDatabase
<1>11. CatalogApart'
  BY <1>2 DEF CatalogApart, ReloadDatabase
<1> QED
  BY <1>9, <1>10, <1>11

\* The six steps that move pages between a holder and the allocator.
LEMMA JoinStepsKeep ==
    ASSUME Lists, Apart, CatalogApart, NEW s \in Session, FreeScratch(s) \/ JoinRow(s)
    PROVE  Lists' /\ Apart' /\ CatalogApart'
<1>1. pageCount \in Nat /\ Holding(s) = joinHeap[s]
  BY HoldingIs DEF Lists
<1>2. /\ UNCHANGED <<heap, catalog>>
      /\ transactionOpen' => transactionOpen /\ transactionPages' = transactionPages
  BY DEF FreeScratch, JoinRow, sessionVars, transactionVars, rollbackVars
<1>3. joinHeap[s] \in Seq(Nat) /\ Distinct(joinHeap[s])
  BY <1>1, SessionsAssumption DEF Apart, Holder, IsList
<1>4. CASE FreeScratch(s)
  <2> DEFINE h == <<Head(joinHeap[s])>>
             t == Tail(joinHeap[s])
  <2>1. /\ joinHeap[s] # <<>> /\ Reallocate(0, h)
        /\ joinHeap' = [joinHeap EXCEPT ![s] = t]
    BY <1>4 DEF FreeScratch
  <2>2. /\ h \in Seq(Nat) /\ t \in Seq(Nat) /\ Distinct(h) /\ Distinct(t)
        /\ ToSet(joinHeap[s]) = ToSet(h) \cup ToSet(t) /\ ToSet(h) \cap ToSet(t) = {}
    BY <1>3, <2>1, HeadAndTail
  <2> HIDE DEF h, t
  <2>3. /\ Holding(s)' = t
        /\ \A g \in (Table \cup Session) \ {s} : Holding(g)' = Holding(g)
        /\ pageCount' \in Nat => Lists'
    BY <1>2, <2>1, JoinChanges
  <2>4. Apart' /\ pageCount' \in Nat /\ pageCount <= pageCount'
    BY <1>1, <2>1, <2>2, <2>3, Exchange
  <2> QED
    BY <1>1, <1>2, <2>3, <2>4, CatalogStays
<1>5. CASE JoinRow(s)
  <2> DEFINE a == Allocated(1)
  <2>1. Reallocate(1, <<>>) /\ joinHeap' = [joinHeap EXCEPT ![s] = joinHeap[s] \o a]
    BY <1>5 DEF JoinRow
  <2>2. a \in Seq(Nat) /\ Distinct(a) /\ ToSet(joinHeap[s]) \cap ToSet(a) = {}
    BY <1>1, TakenIsNobodys
  <2>3. /\ Holding(s)' = joinHeap[s] \o a
        /\ \A g \in (Table \cup Session) \ {s} : Holding(g)' = Holding(g)
        /\ pageCount' \in Nat => Lists'
    BY <1>2, <2>1, JoinChanges
  <2>4. /\ Holding(s)' \in Seq(Nat) /\ Distinct(Holding(s)')
        /\ ToSet(Holding(s)') = ToSet(Holding(s)) \cup ToSet(Allocated(1))
    BY <1>1, <1>3, <2>2, <2>3, JoinedLists
  <2>5. Apart' /\ pageCount' \in Nat /\ pageCount <= pageCount'
    BY <1>1, <2>1, <2>3, <2>4, EmptyList, Exchange
  <2> QED
    BY <1>1, <1>2, <2>3, <2>5, CatalogStays
<1> QED
  BY <1>4, <1>5

\* A table that is rewritten: what it keeps of its pages and what it takes are
\* two lists, and what goes back to the allocator is in neither.
LEMMA RewriteKeeps ==
    ASSUME Lists, Apart, CatalogApart, NEW s \in Session, NEW t \in Table,
           NEW kept \in Seq(Nat), NEW n \in Nat, NEW m \in Nat, NEW returned \in Seq(Nat),
           Rewrite(s, t, kept, n), Reallocate(m, returned),
           Distinct(kept), Distinct(returned),
           ToSet(kept) \subseteq ToSet(heap[t]),
           n = 0 \/ n = m,
           ToSet(returned) \subseteq ToSet(heap[t]) \cup ToSet(Allocated(m)),
           ToSet(returned) \cap (ToSet(kept) \cup ToSet(Allocated(n))) = {}
    PROVE  Lists' /\ Apart' /\ CatalogApart'
<1>1. pageCount \in Nat /\ Holding(t) = heap[t]
  BY HoldingIs DEF Lists
<1>2. /\ UNCHANGED <<joinHeap, catalog>>
      /\ transactionOpen' => transactionOpen /\ transactionPages' = transactionPages
      /\ heap' = [heap EXCEPT ![t] = kept \o Allocated(n)]
  BY DEF Rewrite, sessionVars, transactionVars, rollbackVars
<1>3. /\ Allocated(n) \in Seq(Nat) /\ Distinct(Allocated(n))
      /\ ToSet(heap[t]) \cap ToSet(Allocated(n)) = {}
      /\ n = 0 => ToSet(Allocated(n)) = {}
  BY <1>1, TakenIsNobodys
<1>4. /\ Holding(t)' = kept \o Allocated(n)
      /\ \A g \in (Table \cup Session) \ {t} : Holding(g)' = Holding(g)
      /\ pageCount' \in Nat => Lists'
  BY <1>2, TableChanges
<1>5. ToSet(kept) \cap ToSet(Allocated(n)) = {}
  BY <1>3
<1>6. /\ Holding(t)' \in Seq(Nat) /\ Distinct(Holding(t)')
      /\ ToSet(Holding(t)') = ToSet(kept) \cup ToSet(Allocated(n))
  BY <1>3, <1>4, <1>5, JoinedLists
<1>7. /\ ToSet(Holding(t)') \subseteq ToSet(Holding(t)) \cup ToSet(Allocated(m))
      /\ ToSet(returned) \subseteq ToSet(Holding(t)) \cup ToSet(Allocated(m))
      /\ ToSet(Holding(t)') \cap ToSet(returned) = {}
  BY <1>1, <1>3, <1>6
<1>8. Apart' /\ pageCount' \in Nat /\ pageCount <= pageCount'
  BY <1>1, <1>4, <1>6, <1>7, Exchange
<1> QED
  BY <1>1, <1>2, <1>4, <1>8, CatalogStays

LEMMA TableStepsKeep ==
    ASSUME Lists, Apart, CatalogApart, NEW s \in Session, NEW t \in Table,
           \/ GrowTable(s, t) \/ DropTable(s, t)
           \/ CompactTable(s, t) \/ FailCompaction(s, t)
    PROVE  Lists' /\ Apart' /\ CatalogApart'
<1>1. pageCount \in Nat /\ Holding(t) = heap[t]
  BY HoldingIs DEF Lists
<1>2. heap[t] \in Seq(Nat) /\ Distinct(heap[t])
  BY <1>1 DEF Apart, Holder, IsList
<1>3. \A n \in Nat : /\ Allocated(n) \in Seq(Nat) /\ Distinct(Allocated(n))
                     /\ ToSet(heap[t]) \cap ToSet(Allocated(n)) = {}
                     /\ n = 0 => ToSet(Allocated(n)) = {}
  BY <1>1, TakenIsNobodys
<1>4. <<>> \in Seq(Nat) /\ Distinct(<<>>) /\ ToSet(<<>>) = {}
  BY EmptyList
<1>5. \A n \in 0 .. Len(heap[t]) : n \in Nat
  OBVIOUS
<1>6. CASE GrowTable(s, t)
  BY <1>2, <1>4, <1>6, RewriteKeeps DEF GrowTable
<1>7. CASE DropTable(s, t)
  BY <1>2, <1>3, <1>4, <1>7, RewriteKeeps DEF DropTable
<1>8. CASE CompactTable(s, t)
  <2>1. PICK n \in Nat : Rewrite(s, t, <<>>, n) /\ Reallocate(n, heap[t])
    BY <1>5, <1>8 DEF CompactTable
  <2> QED
    BY <1>2, <1>3, <1>4, <2>1, RewriteKeeps
<1>9. CASE FailCompaction(s, t)
  <2>1. PICK n \in Nat : Rewrite(s, t, heap[t], 0) /\ Reallocate(n, Allocated(n))
    BY <1>5, <1>9 DEF FailCompaction
  <2> QED
    BY <1>2, <1>3, <2>1, RewriteKeeps
<1> QED
  BY <1>6, <1>7, <1>8, <1>9

\* The steps that move no page, and those that commit, begin and roll back.
LEMMA QuietStepsKeep ==
    ASSUME Lists, Apart, CatalogApart, UNCHANGED <<heap, joinHeap, allocatorVars>>,
           \/ UNCHANGED <<catalog, transactionOpen, transactionPages>>
           \/ catalog' = heap /\ ~transactionOpen'
           \/ catalog' = catalog /\ transactionPages' = pageCount
    PROVE  Lists' /\ Apart' /\ CatalogApart'
<1>1. pageCount' = pageCount /\ pageCount \in Nat /\ freeIds' = freeIds
  BY DEF Lists, allocatorVars
<1>2. \A h \in Holder : Holding(h)' = Holding(h)
  BY <1>1, HoldingIs DEF Holder
<1>3. Apart'
  BY <1>1, <1>2, ApartStays
<1>4. Lists'
  BY <1>1 DEF Lists
<1>5. CASE UNCHANGED <<catalog, transactionOpen, transactionPages>>
  <2>1. pageCount' \in Nat /\ pageCount <= pageCount'
    BY <1>1
  <2> QED
    BY <1>1, <1>3, <1>4, <1>5, <2>1, CatalogStays
<1>6. CASE catalog' = heap /\ ~transactionOpen'
  <2>1. /\ \A t \in Table : IsList(heap[t], pageCount)
        /\ \A t, u \in Table : t # u => ToSet(heap[t]) \cap ToSet(heap[u]) = {}
    BY HoldingIs DEF Apart, Holder
  <2> QED
    BY <1>1, <1>3, <1>4, <1>6, <2>1 DEF CatalogApart
<1>7. CASE catalog' = catalog /\ transactionPages' = pageCount
  BY <1>1, <1>3, <1>4, <1>7 DEF CatalogApart
<1> QED
  BY <1>3, <1>4, <1>5, <1>6, <1>7

\* A thread that goes forgets its join's pages; a transaction it leaves open is
\* rolled back.
LEMMA LeaveSessionKeeps ==
    ASSUME TypeInv, LockInv, Lists, Apart, CatalogApart, NEW s \in Session, LeaveSession(s),
           ~outlived'
    PROVE  Lists' /\ Apart' /\ CatalogApart'
<1>1. /\ joinHeap' = [u \in Session |-> joinHeap'[u]]
      /\ \A u \in Session : joinHeap'[u] = joinHeap[u] \/ joinHeap'[u] = <<>>
  <2>1. joinHeap' = [joinHeap EXCEPT ![s] = <<>>]
    BY DEF LeaveSession
  <2> QED
    BY <2>1 DEF Lists
<1>2. CASE holdingForTransaction[s] /\ FileBacked
  <2>1. pc[s] = "closing" /\ ~transactionOpen' /\ ReloadDatabase
    BY <1>2 DEF LeaveSession, EndSession
  <2>2. transactionOpen
    BY <1>2, <2>1 DEF LockInv, FlagInv
  <2> QED
    BY <1>1, <2>1, <2>2, ReloadKeeps
<1>3. CASE ~(holdingForTransaction[s] /\ FileBacked)
  <2>1. /\ heap' = heap /\ catalog' = catalog /\ freeIds' = freeIds
        /\ pageCount' = pageCount /\ transactionPages' = transactionPages
    BY <1>3 DEF LeaveSession, allocatorVars, rollbackVars
  <2>2. transactionOpen' => transactionOpen
    BY DEF LeaveSession, EndSession, transactionVars
  <2>3. \A h \in Holder : Holding(h)' = Holding(h) \/ Holding(h)' = <<>>
    BY <1>1, <2>1, HoldingIs DEF Holder
  <2>4. Apart'
    BY <2>1, <2>3, ApartStays
  <2>5. Lists' /\ pageCount \in Nat
    BY <1>1, <2>1 DEF Lists
  <2>6. CatalogApart'
    BY <2>1, <2>2, <2>5, CatalogStays
  <2> QED
    BY <2>4, <2>5, <2>6
<1> QED
  BY <1>2, <1>3

LEMMA NextPages == TypeInv /\ LockInv /\ PagesInv /\ [OwnersNext]_ownerVars => PagesInv'
<1> SUFFICES ASSUME TypeInv, LockInv, PagesInv, [OwnersNext]_ownerVars, ~outlived'
             PROVE  Lists' /\ Apart' /\ CatalogApart'
  BY DEF PagesInv
<1> USE DEF sessionVars, transactionVars, rollbackVars, pageVars
<1>1. CASE UNCHANGED ownerVars
  <2>1. UNCHANGED <<outlived, heap, joinHeap, allocatorVars, catalog, transactionOpen,
                    transactionPages>>
    BY <1>1 DEF ownerVars
  <2> QED
    BY <2>1, QuietStepsKeep DEF PagesInv
<1>2. CASE OwnersNext
  <2>1. PICK s \in Session :
          \/ TouchNoPage(s) \/ EndStatement(s) \/ LeaveSession(s)
          \/ StartJoin(s) \/ FreeScratch(s) \/ FillScratch(s) \/ JoinRow(s)
          \/ ReturnSelect(s) \/ ReturnWrite(s) \/ ReturnBegin(s) \/ ReturnCommit(s)
          \/ ReturnRollback(s) \/ ReturnFailed(s)
          \/ \E t \in Table : \/ GrowTable(s, t) \/ DropTable(s, t)
                              \/ CompactTable(s, t) \/ FailCompaction(s, t)
    BY <1>2 DEF OwnersNext
  <2>2. CASE TouchNoPage(s)
    <3>1. UNCHANGED <<outlived, heap, joinHeap, allocatorVars, catalog, transactionOpen,
                      transactionPages>>
      BY <2>2 DEF TouchNoPage, Accept, AcceptNoMemory, Disconnect, Ask, Submit, TakeShared,
                  TakeExclusive, Reply, TimeOut, ReleaseSlot
    <3> QED
      BY <3>1, QuietStepsKeep DEF PagesInv
  <2>3. CASE EndStatement(s) \/ StartJoin(s) \/ FillScratch(s)
    <3>1. UNCHANGED <<outlived, heap, joinHeap, allocatorVars, catalog, transactionOpen,
                      transactionPages>>
      BY <2>3 DEF EndStatement, ReleaseLock, StartJoin, FillScratch
    <3> QED
      BY <3>1, QuietStepsKeep DEF PagesInv
  <2>4. CASE ReturnSelect(s) \/ ReturnFailed(s)
    <3>1. UNCHANGED <<outlived, heap, joinHeap, allocatorVars, catalog, transactionOpen,
                      transactionPages>>
      BY <2>4 DEF ReturnSelect, ReturnFailed, RunSelect, FailStatement
    <3> QED
      BY <3>1, QuietStepsKeep DEF PagesInv
  <2>5. CASE ReturnWrite(s)
    <3>1. /\ UNCHANGED <<outlived, heap, joinHeap, allocatorVars, transactionPages>>
          /\ UNCHANGED transactionOpen
          /\ catalog' = IF transactionOpen THEN catalog ELSE heap
      BY <2>5 DEF ReturnWrite, RunWrite
    <3> QED
      BY <3>1, QuietStepsKeep DEF PagesInv
  <2>6. CASE ReturnCommit(s)
    <3>1. /\ UNCHANGED <<outlived, heap, joinHeap, allocatorVars>>
          /\ catalog' = heap /\ ~transactionOpen'
      BY <2>6 DEF ReturnCommit, RunCommit
    <3> QED
      BY <3>1, QuietStepsKeep DEF PagesInv
  <2>7. CASE ReturnBegin(s)
    <3>1. /\ UNCHANGED <<outlived, heap, joinHeap, allocatorVars>>
          /\ catalog' = catalog /\ transactionPages' = pageCount
      BY <2>7 DEF ReturnBegin
    <3> QED
      BY <3>1, QuietStepsKeep DEF PagesInv
  <2>8. CASE ReturnRollback(s)
    <3>1. /\ transactionOpen /\ ~transactionOpen' /\ ReloadDatabase
          /\ joinHeap' = joinHeap
      BY <2>8 DEF ReturnRollback, RunRollback
    <3>2. ~outlived
      BY <3>1 DEF ReloadDatabase
    <3>3. Lists /\ Apart /\ CatalogApart
      BY <3>2 DEF PagesInv
    <3>4. joinHeap' = [u \in Session |-> joinHeap'[u]]
      BY <3>1, <3>3 DEF Lists
    <3> QED
      BY <3>1, <3>3, <3>4, ReloadKeeps
  <2>9. CASE LeaveSession(s)
    <3>1. ~outlived
      BY <2>9 DEF LeaveSession, ReloadDatabase
    <3> QED
      BY <3>1, <2>9, LeaveSessionKeeps DEF PagesInv
  <2>10. CASE FreeScratch(s) \/ JoinRow(s)
    <3>1. ~outlived
      BY <2>10 DEF FreeScratch, JoinRow
    <3> QED
      BY <3>1, <2>10, JoinStepsKeep DEF PagesInv
  <2>11. ASSUME NEW t \in Table,
                \/ GrowTable(s, t) \/ DropTable(s, t)
                \/ CompactTable(s, t) \/ FailCompaction(s, t)
         PROVE  Lists' /\ Apart' /\ CatalogApart'
    <3>1. ~outlived
      BY <2>11 DEF GrowTable, DropTable, CompactTable, FailCompaction, Rewrite
    <3> QED
      BY <3>1, <2>11, TableStepsKeep DEF PagesInv
  <2> QED
    BY <2>1, <2>2, <2>3, <2>4, <2>5, <2>6, <2>7, <2>8, <2>9, <2>10, <2>11
<1> QED
  BY <1>1, <1>2

LEMMA InitPages == OwnersInit => PagesInv
<1> SUFFICES ASSUME OwnersInit PROVE Lists /\ Apart /\ CatalogApart
  BY DEF PagesInv
<1> USE DEF OwnersInit
<1>1. Lists
  BY DEF Lists
<1>2. \A h \in Holder : Holding(h) = <<>>
  BY HoldingIs DEF Holder
<1>3. Apart
  BY <1>2, EmptyList DEF Apart
<1>4. CatalogApart
  BY EmptyList DEF CatalogApart, Init
<1> QED
  BY <1>1, <1>3, <1>4

\* No page id is handed out twice, whatever was dropped, compacted, joined, rolled
\* back or abandoned, until a rollback reclaims a page that a join still counts as
\* its own: poolAllocate and poolFree, heapCompact, dropHeap, heapReset and the
\* reload of ROLLBACK, under the lock of the statements that call them.
THEOREM PagesHaveOneOwner == OwnersSpec => []OneOwner
<1>1. PagesInv => OneOwner
  <2> SUFFICES ASSUME Apart, NEW g \in Holder, NEW h \in Holder,
                      NEW i \in DOMAIN Holding(g), NEW j \in DOMAIN Holding(h),
                      Holding(g)[i] = Holding(h)[j]
               PROVE  g = h /\ i = j
    BY DEF PagesInv, OneOwner
  <2>1. Holding(g)[i] \in ToSet(Holding(g)) /\ Holding(h)[j] \in ToSet(Holding(h))
    BY DEF ToSet
  <2>2. g = h
    BY <2>1 DEF Apart
  <2>3. Distinct(Holding(g))
    BY DEF Apart, IsList
  <2> QED
    BY <2>2, <2>3 DEF Distinct
<1> QED
  BY <1>1, InitPages, NextPages, OwnersImplementSessions, LocksInvariant, PTL DEF OwnersSpec
=============================================================================
