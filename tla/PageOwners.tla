----------------------------- MODULE PageOwners -----------------------------
(***************************************************************************)
(* Who owns which page id, composed with Sessions.tla.                     *)
(*                                                                         *)
(* Page ids come from one allocator (14_pool.c).  They are held by tables, *)
(* here anything that keeps pages of the database, and by the heap each    *)
(* thread materialises its joins in (joinHeap of 06_executor.c), which     *)
(* outlives the statement and is given back by the thread's next join.     *)
(* ROLLBACK rebuilds the tables and the allocator from the file             *)
(* (12_persist.c); it cannot reach the other kind of heap.                 *)
(***************************************************************************)
EXTENDS Sessions, Sequences, SequencesExt

CONSTANTS Table,
          MaxPages  \* bound: ids 0 .. MaxPages - 1; 0 is the catalog's

\* A table is not a thread.
ASSUME PageOwnersAssumption ==
    /\ MaxPages \in Nat \ {0}
    /\ Table \cap (Session \cup {None}) = {}

PageIds == 0 .. MaxPages - 1

VARIABLES
    heap,               \* the page list of each table, <<>> when there is none
    catalog,            \* those lists as the last commit put them in the file
    joinHeap,           \* the page list of each thread's joinHeap
    freeIds,            \* the stack of ids handed back
    pageCount,
    transactionPages,   \* pageCount at BEGIN
    stage,              \* how far a thread's statement has come
    outlived            \* ghost: a rollback has reclaimed a scratch page

allocatorVars == <<freeIds, pageCount>>
rollbackVars == <<catalog, transactionPages, outlived>>
pageVars == <<heap, joinHeap, allocatorVars, rollbackVars, stage>>
ownerVars == <<sessionVars, pageVars>>

AtStage(s, place) == stage' = [stage EXCEPT ![s] = place]

-----------------------------------------------------------------------------
(* The allocator. *)

\* The ids that n calls of allocateLocked return: freed ids, last in first
\* out, and then new ones.
Allocated(n) ==
    LET spare == Len(freeIds)
    IN  [i \in 1 .. n |-> IF i <= spare THEN freeIds[spare + 1 - i]
                                        ELSE pageCount + i - spare - 1]

\* n ids are taken and these are handed back after.
Reallocate(n, returned) ==
    LET spare == Len(freeIds)
    IN  /\ freeIds' = SubSeq(freeIds, 1, spare - n) \o returned
        /\ pageCount' = pageCount + (IF n > spare THEN n - spare ELSE 0)
        /\ pageCount' <= MaxPages

-----------------------------------------------------------------------------
(* Joins. *)

\* A statement that may join: any part of one that has not written yet.
Joining(s) ==
    /\ pc[s] = "running"
    /\ kind[s] \in {"select", "write"}
    /\ stage[s] # "writing"

\* buildJoin.
StartJoin(s) ==
    /\ Joining(s)
    /\ stage[s] # "freeing"
    /\ AtStage(s, "freeing")
    /\ UNCHANGED <<sessionVars, heap, joinHeap, allocatorVars, rollbackVars>>

\* heapReset hands the last join's pages back, one poolFree at a time.
FreeScratch(s) ==
    /\ Joining(s)
    /\ stage[s] = "freeing"
    /\ joinHeap[s] # <<>>
    /\ Reallocate(0, <<Head(joinHeap[s])>>)
    /\ joinHeap' = [joinHeap EXCEPT ![s] = Tail(@)]
    /\ UNCHANGED <<sessionVars, heap, rollbackVars, stage>>

FillScratch(s) ==
    /\ Joining(s)
    /\ stage[s] = "freeing"
    /\ joinHeap[s] = <<>>
    /\ AtStage(s, "filling")
    /\ UNCHANGED <<sessionVars, heap, joinHeap, allocatorVars, rollbackVars>>

\* A joined row that needs a page of its own.
JoinRow(s) ==
    /\ Joining(s)
    /\ stage[s] = "filling"
    /\ joinHeap' = [joinHeap EXCEPT ![s] = @ \o Allocated(1)]
    /\ Reallocate(1, <<>>)
    /\ UNCHANGED <<sessionVars, heap, rollbackVars, stage>>

-----------------------------------------------------------------------------
(* Writes. *)

\* The table's pages are exchanged for n new ones, after what it keeps.
Rewrite(s, t, kept, n) ==
    /\ pc[s] = "running"
    /\ kind[s] = "write"
    /\ stage[s] # "freeing"
    /\ heap' = [heap EXCEPT ![t] = kept \o Allocated(n)]
    /\ AtStage(s, "writing")
    /\ UNCHANGED <<sessionVars, joinHeap, rollbackVars>>

\* appendPage.
GrowTable(s, t) ==
    /\ Rewrite(s, t, heap[t], 1)
    /\ Reallocate(1, <<>>)

\* dropHeap.
DropTable(s, t) ==
    /\ heap[t] # <<>>
    /\ Rewrite(s, t, <<>>, 0)
    /\ Reallocate(0, heap[t])

\* (mutant) the old pages are handed back, but the ones taken for the copy are
\* neither off the free stack nor counted.
CompactTableEarly(s, t) ==
    \E n \in 0 .. Len(heap[t]) :
        /\ heap[t] # <<>>
        /\ Rewrite(s, t, <<>>, n)
        /\ freeIds' = freeIds \o heap[t]
        /\ UNCHANGED pageCount

\* heapCompact: fresh pages first, and only then are the old ones returned.
CompactTable(s, t) ==
    \E n \in 0 .. Len(heap[t]) :
        /\ heap[t] # <<>>
        /\ Rewrite(s, t, <<>>, n)
        /\ Reallocate(n, heap[t])

\* A row that cannot be copied: the pages taken so far are handed back.
FailCompaction(s, t) ==
    \E n \in 0 .. Len(heap[t]) :
        /\ heap[t] # <<>>
        /\ Rewrite(s, t, heap[t], 0)
        /\ Reallocate(n, Allocated(n))

-----------------------------------------------------------------------------
(* The end of a statement, and of a transaction. *)

\* A statement ends where its joins are either done or failed.
Returning(s) == stage[s] # "freeing"

ReturnSelect(s) == Returning(s) /\ RunSelect(s) /\ UNCHANGED pageVars

\* Outside a transaction the write is committed with it.
ReturnWrite(s) ==
    /\ Returning(s)
    /\ RunWrite(s)
    /\ catalog' = IF transactionOpen THEN catalog ELSE heap
    /\ UNCHANGED <<heap, joinHeap, allocatorVars, transactionPages, stage, outlived>>

ReturnBegin(s) ==
    /\ RunBegin(s)
    /\ transactionPages' = pageCount
    /\ UNCHANGED <<heap, catalog, joinHeap, allocatorVars, stage, outlived>>

ReturnCommit(s) ==
    /\ RunCommit(s)
    /\ catalog' = heap
    /\ UNCHANGED <<heap, joinHeap, allocatorVars, transactionPages, stage, outlived>>

ReturnFailed(s) == Returning(s) /\ FailStatement(s) /\ UNCHANGED pageVars

\* loadDatabase after poolRollback: the tables are what the catalog says, the
\* allocator starts again from the page count of BEGIN, and nothing is free.
\* The ghost notes whether a thread still holds a page this gives away.
ReloadDatabase ==
    /\ heap' = catalog
    /\ freeIds' = <<>>
    /\ pageCount' = transactionPages
    /\ outlived' = (outlived \/
            \E s \in Session : \E p \in ToSet(joinHeap'[s]) :
                p >= transactionPages \/ \E t \in Table : p \in ToSet(catalog[t]))
    /\ UNCHANGED <<catalog, transactionPages>>

ReturnRollback(s) ==
    /\ RunRollback(s)
    /\ UNCHANGED <<joinHeap, stage>>
    /\ ReloadDatabase

\* The thread goes, and what it knew of its scratch pages with it.
LeaveSession(s) ==
    /\ EndSession(s)
    /\ joinHeap' = [joinHeap EXCEPT ![s] = <<>>]
    /\ IF holdingForTransaction[s] /\ FileBacked
          THEN ReloadDatabase
          ELSE UNCHANGED <<heap, allocatorVars, rollbackVars>>
    /\ UNCHANGED stage

EndStatement(s) ==
    /\ ReleaseLock(s)
    /\ AtStage(s, "none")
    /\ UNCHANGED <<heap, joinHeap, allocatorVars, rollbackVars>>

-----------------------------------------------------------------------------
OwnersInit ==
    /\ Init
    /\ heap = [t \in Table |-> <<>>] /\ catalog = heap
    /\ joinHeap = [s \in Session |-> <<>>]
    /\ freeIds = <<>> /\ pageCount = 1 /\ transactionPages = 0
    /\ stage = [s \in Session |-> "none"]
    /\ outlived = FALSE

\* The steps of a thread that no page has a part in.
TouchNoPage(s) ==
    /\ \/ Accept(s) \/ AcceptNoMemory(s) \/ Disconnect(s) \/ Ask(s) \/ TakeShared(s)
       \/ TakeExclusive(s) \/ Reply(s) \/ TimeOut(s) \/ ReleaseSlot(s)
    /\ UNCHANGED pageVars

OwnersNext ==
    \E s \in Session :
        \/ TouchNoPage(s) \/ EndStatement(s) \/ LeaveSession(s)
        \/ StartJoin(s) \/ FreeScratch(s) \/ FillScratch(s) \/ JoinRow(s)
        \/ ReturnSelect(s) \/ ReturnWrite(s) \/ ReturnBegin(s) \/ ReturnCommit(s)
        \/ ReturnRollback(s) \/ ReturnFailed(s)
        \/ \E t \in Table : \/ GrowTable(s, t) \/ DropTable(s, t)
                            \/ CompactTable(s, t) \/ FailCompaction(s, t)

OwnersSpec == OwnersInit /\ [][OwnersNext]_ownerVars

-----------------------------------------------------------------------------
(* Properties. *)

Holder == Table \cup Session \cup {None}

Holding(h) == CASE h \in Table -> heap[h]
                [] h \in Session -> joinHeap[h]
                [] OTHER -> freeIds

\* A page belongs to one table, one thread's join, or nobody: no id is handed
\* out twice, whatever was dropped, compacted, joined, rolled back or abandoned.
\* It ends where a rollback reclaims a page that a join still counts as its own.
OneOwner ==
    ~outlived =>
        \A g, h \in Holder : \A i \in DOMAIN Holding(g) : \A j \in DOMAIN Holding(h) :
            Holding(g)[i] = Holding(h)[j] => g = h /\ i = j

\* What a statement reads keeps still: no table gains or loses a page while a
\* SELECT holds the lock, and no scan follows a page list that moves.
TablesKeepStill == [][readers # {} => heap' = heap]_ownerVars

\* "A SELECT changes no data": the pages its joins hand back are no table's.
SelectChangesNoData ==
    \A s \in Session : kind[s] = "select" /\ stage[s] = "freeing" =>
        \A t \in Table : ToSet(joinHeap[s]) \cap ToSet(heap[t]) = {}
=============================================================================
