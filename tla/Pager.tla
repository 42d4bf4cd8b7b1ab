------------------------------- MODULE Pager -------------------------------
(***************************************************************************)
(* The durable half of the engine: the buffer pool's page states           *)
(* (14_pool.c), the write-ahead log (15_wal.c), the transactions and the   *)
(* catalog writing of 12_persist.c, and the start-up that replays a log.   *)
(*                                                                         *)
(* Commit, checkpoint and recovery are cut into the writes and syncs they  *)
(* are made of, so that a crash can fall between any two of them.  A write *)
(* reaches the operating system first and the disk some time before the    *)
(* next fsync: diskPages says what a crash may leave of each page.         *)
(*                                                                         *)
(* Page 0 stands for the catalog chain.  Its content is the set of pages   *)
(* the tables own, which is what the catalog decides about the rest of the *)
(* file.  Which rows a page holds is left to Value.                        *)
(***************************************************************************)
EXTENDS Integers, Sequences, FiniteSets, FiniteSetsExt

CONSTANTS Value,        \* what a data page may hold
          Blank,        \* a page of zeroes
          Torn,         \* a page a crash cut in half
          MaxPages,     \* bound: ids 0 .. MaxPages - 1
          MaxStatements,\* bound: statements started in one behaviour
          MaxCrashes,   \* bound: crashes in one behaviour
          CrashAgain,   \* bound: the phases a crash after the first may fall in
          Faults        \* the failures that may strike a running session

\* What can go wrong short of a crash, one word for each.
FaultKinds == {"statement", "append", "flush", "truncate"}

Page == 0 .. MaxPages - 1
CatalogPage == 0
DataPage == Page \ {CatalogPage}
Content == Value \cup (SUBSET DataPage) \cup {Blank, Torn}
Frame == [page : Page, image : Content, commit : BOOLEAN,
          pageCount : 0 .. MaxPages, whole : BOOLEAN]
Database == UNION {[owned -> Content] : owned \in SUBSET DataPage}

ASSUME BoundsAssumption ==
    /\ MaxPages \in Nat \ {0}
    /\ MaxStatements \in Nat
    /\ MaxCrashes \in Nat
ASSUME ContentAssumption ==
    /\ Value # {}
    /\ Blank \notin Value /\ Torn \notin Value /\ Blank # Torn
    /\ \A s \in SUBSET DataPage : s \notin Value \cup {Blank, Torn}
ASSUME FaultsAssumption == Faults \subseteq FaultKinds

VARIABLES
    \* The pool: which pages are resident, and what each frame says.
    resident, image, dirty, logged,
    \* In-memory catalog and allocation state.
    owned, freeIds, pageCount, schemaChanged,
    \* transactionOpen and transactionPages of 12_persist.c.
    transactionOpen, transactionPages,
    \* The database file as the operating system has it, and what of it a
    \* crash may leave; the same for the page count in its header.
    filePages, diskPages, fileCount, diskCount,
    \* The log, how much of it is synced, and the removed log a crash may
    \* bring back; whether the session has a log open, and whether the pool
    \* holds a handle it may write through.
    log, synced, staleLog, walIsOpen, writable,
    \* What the session is doing, the pages left to do it to, the log frame
    \* recovery has reached, and what a checkpoint is for.
    phase, todo, position, purpose,
    \* Ghosts: what the statements so far add up to, and what the client was
    \* told is kept.  Nothing below reads them but themselves.
    current, committed,
    \* Counters for the bounds.
    statements, crashes

poolVars == <<resident, image, dirty, logged>>
memoryVars == <<owned, freeIds, pageCount, schemaChanged>>
txVars == <<transactionOpen, transactionPages>>
fileVars == <<filePages, diskPages, fileCount, diskCount>>
logVars == <<log, synced, staleLog>>
openVars == <<walIsOpen, writable>>
stepVars == <<phase, todo, position, purpose>>
ghostVars == <<current, committed>>
counterVars == <<statements, crashes>>
vars == <<poolVars, memoryVars, txVars, fileVars, logVars, openVars,
          stepVars, ghostVars, counterVars>>

-----------------------------------------------------------------------------
(* Reading a log. *)

\* The frames recovery trusts: whole, with only whole frames before them, up
\* to the last commit marker among them.  0 when nothing ever committed.
LastGood(frames) ==
    Max({0} \cup {n \in 1 .. Len(frames) :
                    /\ frames[n].commit
                    /\ \A i \in 1 .. n : frames[i].whole})

\* What a page reads as for the session: its frame, or the file.
PageImage(p) == IF p \in resident THEN image[p] ELSE filePages[p]

-----------------------------------------------------------------------------
(* The writes the steps below are made of. *)

\* A page written in place, but not yet known to be on the disk.
WriteFilePage(p, content) ==
    /\ filePages' = [filePages EXCEPT ![p] = content]
    /\ diskPages' = [diskPages EXCEPT ![p] = @ \cup {content}]

WriteHeaderCount(n) ==
    /\ fileCount' = n
    /\ diskCount' = diskCount \cup {n}

\* fsync of the database file.
SyncHandle ==
    /\ diskPages' = [p \in Page |-> {filePages[p]}]
    /\ diskCount' = {fileCount}

\* remove(): the log is gone, but not from the disk until something is synced.
RemoveLog ==
    /\ staleLog' = IF log = <<>> THEN staleLog ELSE log
    /\ log' = <<>>
    /\ synced' = 0

\* unpinLocked with dirty set: a frame changed, or just allocated.
DirtyFrame(p, content) ==
    /\ resident' = resident \cup {p}
    /\ image' = [image EXCEPT ![p] = content]
    /\ dirty' = dirty \cup {p}
    /\ logged' = logged \ {p}

\* (mutant) poolRollback and eviction forget one of the flags.
DropFramesKeepLogged(ps) ==
    /\ resident' = resident \ ps
    /\ image' = [p \in Page |-> IF p \in ps THEN Blank ELSE image[p]]
    /\ dirty' = dirty \ ps
    /\ UNCHANGED logged

\* The frames of these pages are handed back with whatever was in them.
DropFrames(ps) ==
    /\ resident' = resident \ ps
    /\ image' = [p \in Page |-> IF p \in ps THEN Blank ELSE image[p]]
    /\ dirty' = dirty \ ps
    /\ logged' = logged \ ps

\* The process is gone, and everything it held in memory with it.
ForgetMemory ==
    /\ resident' = {} /\ dirty' = {} /\ logged' = {}
    /\ image' = [p \in Page |-> Blank]
    /\ owned' = {} /\ freeIds' = {} /\ pageCount' = 0
    /\ schemaChanged' = FALSE
    /\ transactionOpen' = FALSE
    /\ walIsOpen' = FALSE /\ writable' = FALSE

-----------------------------------------------------------------------------
(* Statements. *)

Executing == phase \in {"rows", "schema"}

\* (ghost) The statement has given this page this content.
SetCurrent(p, content) ==
    current' = [q \in DOMAIN current \cup {p} |-> IF q = p THEN content
                                                          ELSE current[q]]

\* ProcessStatement has the lock and starts executeStatement.
StartStatement(kind) ==
    /\ phase = "idle"
    /\ statements < MaxStatements
    /\ statements' = statements + 1
    /\ phase' = kind
    /\ UNCHANGED <<poolVars, memoryVars, txVars, fileVars, logVars, openVars, todo,
                   position, purpose, ghostVars, crashes>>

\* Rows or index entries change on a page already owned.
WritePage(p, v) ==
    /\ Executing
    /\ p \in owned
    /\ DirtyFrame(p, v)
    /\ SetCurrent(p, v)
    /\ UNCHANGED <<memoryVars, txVars, fileVars, logVars, openVars, stepVars,
                   committed, counterVars>>

\* allocateLocked: a zeroed page under a freed id where there is one, and
\* under the next id otherwise.
AllocatePage(p) ==
    /\ Executing
    /\ IF freeIds # {}
          THEN p \in freeIds /\ UNCHANGED pageCount
          ELSE p = pageCount /\ pageCount' = pageCount + 1
    /\ freeIds' = freeIds \ {p}
    /\ owned' = owned \cup {p}
    /\ DirtyFrame(p, Blank)
    /\ SetCurrent(p, Blank)
    /\ UNCHANGED <<schemaChanged, txVars, fileVars, logVars, openVars, stepVars,
                   committed, counterVars>>

\* freeLocked: DROP, VACUUM and ALTER hand a heap's pages back.
FreePage(p) ==
    /\ phase = "schema"
    /\ p \in owned
    /\ DropFrames({p})
    /\ freeIds' = freeIds \cup {p}
    /\ owned' = owned \ {p}
    /\ current' = [q \in DOMAIN current \ {p} |-> current[q]]
    /\ UNCHANGED <<pageCount, schemaChanged, txVars, fileVars, logVars, openVars,
                   stepVars, committed, counterVars>>

\* commitDatabase up to the first frame: the catalog goes into its page, and
\* every dirty page not yet in the log has to be appended.  With no log, or
\* with nothing to keep, it reports success at once.
CommitDatabase(changed) ==
    IF ~walIsOpen \/ (dirty = {} /\ ~changed)
       THEN /\ phase' = "idle"
            /\ committed' = current
            /\ UNCHANGED <<poolVars, todo>>
       ELSE /\ DirtyFrame(CatalogPage, owned)
            /\ todo' = (dirty \ logged) \cup {CatalogPage}
            /\ phase' = "append"
            /\ UNCHANGED committed

\* The statement worked.  Inside a transaction that is all; outside, it is
\* made durable before anyone is told.
FinishStatement ==
    /\ Executing
    /\ schemaChanged' = (schemaChanged \/ phase = "schema")
    /\ IF transactionOpen
          THEN phase' = "idle" /\ UNCHANGED <<poolVars, todo, committed>>
          ELSE CommitDatabase(schemaChanged')
    /\ UNCHANGED <<owned, freeIds, pageCount, txVars, fileVars, logVars, openVars,
                   position, purpose, current, counterVars>>

\* The statement failed part way.  Nothing undoes the pages it has changed.
FailStatement ==
    /\ "statement" \in Faults
    /\ Executing
    /\ phase' = "idle"
    /\ UNCHANGED <<poolVars, memoryVars, txVars, fileVars, logVars, openVars, todo,
                   position, purpose, ghostVars, counterVars>>

-----------------------------------------------------------------------------
(* poolCommit. *)

\* (mutant) every frame of a commit carries the marker.
LogFrameMarked(p, last) ==
    [page |-> p, image |-> image[p], commit |-> TRUE,
     pageCount |-> pageCount, whole |-> TRUE]

LogFrame(p, last) ==
    [page |-> p, image |-> image[p], commit |-> last,
     pageCount |-> pageCount, whole |-> TRUE]

\* walAppend: one page image; the last one carries the commit marker.
AppendFrame(p) ==
    /\ phase = "append"
    /\ p \in todo
    /\ log' = Append(log, LogFrame(p, todo = {p}))
    /\ todo' = todo \ {p}
    /\ phase' = IF todo = {p} THEN "sync" ELSE "append"
    /\ UNCHANGED <<poolVars, memoryVars, txVars, fileVars, synced, staleLog,
                   openVars, position, purpose, ghostVars, counterVars>>

\* The disk is full: none of the frame, or a part of it, is in the log, and
\* the statement reports an error.
FailAppend(p) ==
    /\ "append" \in Faults
    /\ phase = "append"
    /\ p \in todo
    /\ log' \in {log, Append(log, [LogFrame(p, todo = {p})
                                     EXCEPT !.whole = FALSE])}
    /\ todo' = {}
    /\ phase' = "idle"
    /\ UNCHANGED <<poolVars, memoryVars, txVars, fileVars, synced, staleLog,
                   openVars, position, purpose, ghostVars, counterVars>>

\* The sync fails.  The frames stay in the log, whole or not, and so does the
\* marker; the statement reports an error.
FailSync ==
    /\ "append" \in Faults
    /\ phase = "sync"
    /\ phase' = "idle"
    /\ UNCHANGED <<poolVars, memoryVars, txVars, fileVars, logVars, openVars, todo,
                   position, purpose, ghostVars, counterVars>>

\* walSync, and the pages may now move.  The client is told.
SyncLog ==
    /\ phase = "sync"
    /\ synced' = Len(log)
    /\ staleLog' = <<>>
    /\ logged' = dirty
    /\ schemaChanged' = FALSE
    /\ committed' = current
    /\ phase' = "idle"
    /\ UNCHANGED <<resident, image, dirty, owned, freeIds, pageCount, txVars,
                   fileVars, log, openVars, todo, position, purpose,
                   current, counterVars>>

-----------------------------------------------------------------------------
(* The pool moving pages on its own account. *)

\* (mutant) acquireFrame does not ask whether a dirty page is logged.
EvictPageUnlogged(p) ==
    /\ phase = "idle" \/ Executing
    /\ p \in resident
    /\ p \in dirty => writable
    /\ IF p \in dirty
          THEN WriteFilePage(p, image[p])
          ELSE UNCHANGED <<filePages, diskPages>>
    /\ DropFrames({p})
    /\ UNCHANGED <<memoryVars, txVars, fileCount, diskCount, logVars, openVars,
                   stepVars, ghostVars, counterVars>>

\* acquireFrame takes a frame: a clean page is dropped, a logged one is
\* written in place first.
EvictPage(p) ==
    /\ phase = "idle" \/ Executing
    /\ p \in resident
    /\ p \in dirty => writable /\ p \in logged
    /\ IF p \in dirty
          THEN WriteFilePage(p, image[p])
          ELSE UNCHANGED <<filePages, diskPages>>
    /\ DropFrames({p})
    /\ UNCHANGED <<memoryVars, txVars, fileCount, diskCount, logVars, openVars,
                   stepVars, ghostVars, counterVars>>

\* pinLocked on a miss.
FaultPage(p) ==
    /\ phase = "idle" \/ Executing
    /\ p \in (owned \cup {CatalogPage}) \ resident
    /\ p < pageCount
    /\ filePages[p] # Torn
    /\ resident' = resident \cup {p}
    /\ image' = [image EXCEPT ![p] = filePages[p]]
    /\ UNCHANGED <<dirty, logged, memoryVars, txVars, fileVars, logVars, openVars,
                   stepVars, ghostVars, counterVars>>

-----------------------------------------------------------------------------
(* BEGIN, COMMIT, ROLLBACK and exit.  All but COMMIT run a checkpoint. *)

\* A pool with nothing to write through has nothing to fold.
StartCheckpoint(why, pages) ==
    /\ phase' = IF writable THEN "flush" ELSE "checkpointed"
    /\ purpose' = why
    /\ todo' = pages

\* (mutant) BEGIN empties the log without flushing the pages in it.
BeginTransactionUnflushed ==
    /\ phase = "idle"
    /\ ~transactionOpen
    /\ StartCheckpoint("begin", {})
    /\ UNCHANGED <<poolVars, memoryVars, txVars, fileVars, logVars, openVars, position,
                   ghostVars, counterVars>>

BeginTransaction ==
    /\ phase = "idle"
    /\ ~transactionOpen
    /\ StartCheckpoint("begin", dirty)
    /\ UNCHANGED <<poolVars, memoryVars, txVars, fileVars, logVars, openVars, position,
                   ghostVars, counterVars>>

CommitTransaction ==
    /\ phase = "idle"
    /\ transactionOpen
    /\ transactionOpen' = FALSE
    /\ CommitDatabase(schemaChanged)
    /\ UNCHANGED <<memoryVars, transactionPages, fileVars, logVars, openVars, position,
                   purpose, current, counterVars>>

\* poolRollback, then loadDatabase, which folds the log back before it reads.
RollbackTransaction ==
    /\ phase = "idle"
    /\ transactionOpen
    /\ transactionOpen' = FALSE
    /\ schemaChanged' = FALSE
    /\ DropFrames(dirty)
    /\ pageCount' = Min({pageCount, transactionPages})
    /\ IF walIsOpen
          THEN StartCheckpoint("rollback", {})
          ELSE phase' = "load" /\ purpose' = "rollback" /\ UNCHANGED todo
    /\ UNCHANGED <<owned, freeIds, transactionPages, fileVars, logVars, openVars,
                   position, ghostVars, counterVars>>

\* closeDatabase at the end of main: an open transaction is rolled back first.
CloseDatabase ==
    /\ phase = "idle"
    /\ ~transactionOpen
    /\ StartCheckpoint("close", dirty)
    /\ UNCHANGED <<poolVars, memoryVars, txVars, fileVars, logVars, openVars, position,
                   ghostVars, counterVars>>

-----------------------------------------------------------------------------
(* poolCheckpoint. *)

\* flushFrame: every dirty page goes to the file, logged or not.
FlushFrame(p) ==
    /\ phase = "flush"
    /\ p \in todo
    /\ WriteFilePage(p, image[p])
    /\ dirty' = dirty \ {p}
    /\ logged' = logged \ {p}
    /\ todo' = todo \ {p}
    /\ UNCHANGED <<resident, image, memoryVars, txVars, fileCount, diskCount,
                   logVars, openVars, phase, position, purpose, ghostVars, counterVars>>

\* (mutant) the checkpoint goes on without syncing the database file.
WriteHeaderUnsynced ==
    /\ phase = "flush"
    /\ todo = {}
    /\ WriteHeaderCount(pageCount)
    /\ phase' = "truncate"
    /\ UNCHANGED <<poolVars, memoryVars, txVars, filePages, diskPages,
                   logVars, openVars, todo, position, purpose, ghostVars, counterVars>>

WriteHeader ==
    /\ phase = "flush"
    /\ todo = {}
    /\ WriteHeaderCount(pageCount)
    /\ phase' = "fsync"
    /\ UNCHANGED <<poolVars, memoryVars, txVars, filePages, diskPages,
                   logVars, openVars, todo, position, purpose, ghostVars, counterVars>>

SyncFile ==
    /\ phase = "fsync"
    /\ SyncHandle
    /\ phase' = "truncate"
    /\ UNCHANGED <<poolVars, memoryVars, txVars, filePages, fileCount,
                   logVars, openVars, todo, position, purpose, ghostVars, counterVars>>

\* (mutant) the dirty flags are cleared whether or not the write worked.
FailFlushClean ==
    /\ "flush" \in Faults
    /\ phase \in {"flush", "fsync"}
    /\ purpose # "close"
    /\ phase' = IF purpose = "begin" THEN "idle" ELSE "load"
    /\ purpose' = IF purpose = "begin" THEN "none" ELSE purpose
    /\ todo' = {} /\ dirty' = {} /\ logged' = {}
    /\ UNCHANGED <<resident, image, memoryVars, txVars, fileVars, logVars, openVars,
                   position, ghostVars, counterVars>>

\* A write or a sync of the database file fails.  BEGIN reports it; a
\* ROLLBACK reads the file back regardless; at exit the process ends with the
\* log in place, which is what Crash leaves.
FailFlush ==
    /\ "flush" \in Faults
    /\ phase \in {"flush", "fsync"}
    /\ purpose # "close"
    /\ phase' = IF purpose = "begin" THEN "idle" ELSE "load"
    /\ purpose' = IF purpose = "begin" THEN "none" ELSE purpose
    /\ todo' = {}
    /\ UNCHANGED <<poolVars, memoryVars, txVars, fileVars, logVars, openVars,
                   position, ghostVars, counterVars>>

\* walTruncate: a new log under the old name.
TruncateLog ==
    /\ phase = "truncate"
    /\ IF walIsOpen THEN RemoveLog ELSE UNCHANGED logVars
    /\ phase' = "checkpointed"
    /\ UNCHANGED <<poolVars, memoryVars, txVars, fileVars, openVars, todo,
                   position, purpose, ghostVars, counterVars>>

\* Back to what asked for the checkpoint.
EndCheckpoint ==
    /\ phase = "checkpointed"
    /\ \/ /\ purpose = "begin"
          /\ phase' = "idle"
          /\ transactionOpen' = TRUE
          /\ transactionPages' = pageCount
          /\ UNCHANGED <<poolVars, memoryVars, openVars, current>>
       \/ /\ purpose = "rollback"
          /\ phase' = "load"
          /\ UNCHANGED <<poolVars, memoryVars, txVars, openVars, current>>
       \/ /\ purpose = "close"
          /\ phase' = "down"
          /\ ForgetMemory
          /\ current' = committed
          /\ UNCHANGED transactionPages
    /\ todo' = {}
    /\ purpose' = IF purpose = "rollback" THEN purpose ELSE "none"
    /\ UNCHANGED <<fileVars, logVars, position, committed, counterVars>>

\* The log was removed and could not be created again: BEGIN reports it, and
\* the session goes on without one.
FailTruncate ==
    /\ "truncate" \in Faults
    /\ phase = "truncate"
    /\ purpose = "begin"
    /\ walIsOpen
    /\ RemoveLog
    /\ walIsOpen' = FALSE
    /\ phase' = "idle"
    /\ purpose' = "none"
    /\ UNCHANGED <<poolVars, memoryVars, txVars, fileVars, writable, todo,
                   position, ghostVars, counterVars>>

-----------------------------------------------------------------------------
(* Stopping and starting. *)

\* The machine stops.  Of each page written since the last fsync any version
\* may be on the disk, or a piece of one; of the log, the synced frames and
\* some of those after them, or, until the new log is synced, the log that
\* was removed.  A commit whose marker made it has happened.
Crash ==
    /\ crashes < MaxCrashes
    /\ crashes = 0 \/ phase \in CrashAgain
    /\ crashes' = crashes + 1
    /\ filePages' \in
         {f \in [Page -> UNION {diskPages[p] : p \in Page} \cup {Torn}] :
            \A p \in Page : \/ f[p] \in diskPages[p]
                            \/ f[p] = Torn /\ Cardinality(diskPages[p]) > 1}
    /\ fileCount' \in diskCount
    /\ diskPages' = [p \in Page |-> {filePages'[p]}]
    /\ diskCount' = {fileCount'}
    /\ \/ \E n \in synced .. Len(log) :
            /\ log' = SubSeq(log, 1, n)
            /\ committed' = IF phase = "sync" /\ n = Len(log)
                               THEN current ELSE committed
       \/ /\ staleLog # <<>>
          /\ log' = staleLog
          /\ UNCHANGED committed
    /\ synced' = Len(log')
    /\ staleLog' = <<>>
    /\ phase' = "down"
    /\ todo' = {}
    /\ position' = 0
    /\ ForgetMemory
    /\ current' = committed'
    /\ purpose' = "none"
    /\ UNCHANGED <<transactionPages, statements>>

\* walRecover, first pass: a log that commits to nothing is thrown away.
Recover ==
    /\ phase = "down"
    /\ IF LastGood(log) = 0
          THEN /\ RemoveLog
               /\ phase' = "load"
               /\ UNCHANGED position
          ELSE /\ phase' = "replay"
               /\ position' = 1
               /\ UNCHANGED logVars
    /\ purpose' = "start"
    /\ UNCHANGED <<poolVars, memoryVars, txVars, fileVars, openVars, todo,
                   ghostVars, counterVars>>

\* (mutant) the replay loop does not move on.
ReplayFrameStuck ==
    /\ phase = "replay"
    /\ position <= LastGood(log)
    /\ WriteFilePage(log[position].page, log[position].image)
    /\ UNCHANGED <<poolVars, memoryVars, txVars, fileCount, diskCount,
                   logVars, openVars, stepVars, ghostVars, counterVars>>

\* Second pass: one frame into the file ...
ReplayFrame ==
    /\ phase = "replay"
    /\ position <= LastGood(log)
    /\ WriteFilePage(log[position].page, log[position].image)
    /\ position' = position + 1
    /\ UNCHANGED <<poolVars, memoryVars, txVars, fileCount, diskCount,
                   logVars, openVars, phase, todo, purpose, ghostVars, counterVars>>

\* ... then the header of the last commit ...
ReplayHeader ==
    /\ phase = "replay"
    /\ position > LastGood(log)
    /\ WriteHeaderCount(log[LastGood(log)].pageCount)
    /\ phase' = "recovered"
    /\ UNCHANGED <<poolVars, memoryVars, txVars, filePages, diskPages,
                   logVars, openVars, todo, position, purpose, ghostVars, counterVars>>

\* (mutant) the log is removed before what was replayed is synced.
FinishRecoveryUnsynced ==
    /\ phase = "recovered"
    /\ RemoveLog
    /\ phase' = "load"
    /\ position' = 0
    /\ UNCHANGED <<poolVars, memoryVars, txVars, fileVars,
                   openVars, todo, purpose, ghostVars, counterVars>>

\* ... then the file is synced and the log removed.
FinishRecovery ==
    /\ phase = "recovered"
    /\ SyncHandle
    /\ RemoveLog
    /\ phase' = "load"
    /\ position' = 0
    /\ UNCHANGED <<poolVars, memoryVars, txVars, filePages, fileCount,
                   openVars, todo, purpose, ghostVars, counterVars>>

\* loadDatabase: everything in memory is built from the file.  openForWrite
\* follows at start-up, and after a ROLLBACK of a session that had a log.
LoadDatabase ==
    /\ phase = "load"
    /\ filePages[CatalogPage] # Torn
    /\ resident' = {CatalogPage}
    /\ image' = [p \in Page |-> IF p = CatalogPage THEN filePages[p]
                                                   ELSE Blank]
    /\ dirty' = {} /\ logged' = {}
    /\ owned' = filePages[CatalogPage]
    /\ freeIds' = {}
    /\ pageCount' = fileCount
    /\ schemaChanged' = FALSE
    /\ walIsOpen' = (purpose = "start" \/ walIsOpen)
    /\ writable' = walIsOpen'
    /\ phase' = "idle"
    /\ purpose' = "none"
    /\ current' = committed
    /\ UNCHANGED <<txVars, fileVars, logVars, todo, position, committed,
                   counterVars>>

\* The catalog does not read back: main reports it and does not touch the file.
RefuseDatabase ==
    /\ phase = "load"
    /\ filePages[CatalogPage] = Torn
    /\ phase' = "refused"
    /\ ForgetMemory
    /\ current' = committed
    /\ UNCHANGED <<transactionPages, fileVars, logVars, todo, position,
                   purpose, committed, counterVars>>

-----------------------------------------------------------------------------
\* A database saveDatabase has just created: an empty catalog on page 0.
Init ==
    /\ resident = {CatalogPage}
    /\ image = [p \in Page |-> IF p = CatalogPage THEN {} ELSE Blank]
    /\ dirty = {} /\ logged = {}
    /\ owned = {} /\ freeIds = {} /\ pageCount = 1 /\ schemaChanged = FALSE
    /\ transactionOpen = FALSE /\ transactionPages = 0
    /\ filePages = image
    /\ diskPages = [p \in Page |-> {filePages[p]}]
    /\ fileCount = 1 /\ diskCount = {1}
    /\ log = <<>> /\ synced = 0 /\ staleLog = <<>>
    /\ walIsOpen = TRUE /\ writable = TRUE
    /\ phase = "idle" /\ todo = {} /\ position = 0 /\ purpose = "none"
    /\ current = <<>> /\ committed = <<>>
    /\ statements = 0 /\ crashes = 0

\* What the engine does by itself once it has been started on it.
Progress ==
    \/ FinishStatement \/ SyncLog
    \/ WriteHeader \/ SyncFile \/ TruncateLog \/ EndCheckpoint
    \/ Recover \/ ReplayFrame \/ ReplayHeader \/ FinishRecovery
    \/ LoadDatabase \/ RefuseDatabase
    \/ \E p \in Page : AppendFrame(p) \/ FlushFrame(p)

Next ==
    \/ Progress
    \/ \E kind \in {"rows", "schema"} : StartStatement(kind)
    \/ \E p \in DataPage : \/ AllocatePage(p) \/ FreePage(p)
                           \/ \E v \in Value : WritePage(p, v)
    \/ \E p \in Page : EvictPage(p) \/ FaultPage(p) \/ FailAppend(p)
    \/ BeginTransaction \/ CommitTransaction \/ RollbackTransaction
    \/ CloseDatabase
    \/ FailStatement \/ FailSync \/ FailFlush \/ FailTruncate
    \/ Crash

Spec == Init /\ [][Next]_vars

\* A call in progress returns: nothing in the engine waits for input between
\* the start of a commit, a checkpoint or a recovery and its end.
FairSpec == Spec /\ WF_vars(Progress)

-----------------------------------------------------------------------------
(* Properties. *)

Phases == {"idle", "rows", "schema", "append", "sync", "flush", "fsync",
           "truncate", "checkpointed", "down", "replay", "recovered", "load",
           "refused"}

PoolOK ==
    /\ resident \subseteq Page
    /\ image \in [Page -> Content]
    /\ dirty \subseteq resident
    /\ logged \subseteq dirty

MemoryOK ==
    /\ owned \subseteq DataPage
    /\ freeIds \subseteq DataPage
    /\ pageCount \in 0 .. MaxPages
    /\ transactionPages \in 0 .. MaxPages

FileOK ==
    /\ filePages \in [Page -> Content]
    /\ diskPages \in [Page -> SUBSET Content]
    /\ fileCount \in 0 .. MaxPages
    /\ diskCount \subseteq 0 .. MaxPages

LogOK ==
    /\ log \in Seq(Frame)
    /\ synced \in 0 .. Len(log)
    /\ staleLog \in Seq(Frame)

FlagsOK ==
    /\ schemaChanged \in BOOLEAN
    /\ transactionOpen \in BOOLEAN
    /\ walIsOpen \in BOOLEAN
    /\ writable \in BOOLEAN

StepOK ==
    /\ phase \in Phases
    /\ todo \subseteq dirty
    /\ position \in Nat
    /\ purpose \in {"none", "begin", "rollback", "close", "start"}

GhostOK ==
    /\ DOMAIN current \subseteq DataPage
    /\ DOMAIN committed \subseteq DataPage
    /\ statements \in 0 .. MaxStatements
    /\ crashes \in 0 .. MaxCrashes

\* Types, and what the flags of a frame imply of each other: a page is logged
\* only while it is dirty, dirty only while it is resident, and what a commit
\* or a checkpoint still has to write is always dirty.
TypeOK ==
    PoolOK /\ MemoryOK /\ FlagsOK /\ FileOK /\ LogOK /\ StepOK /\ GhostOK

Stopped ==
    \/ phase \in {"down", "replay", "recovered", "refused"}
    \/ phase = "load" /\ purpose = "start"

\* A ROLLBACK has dropped its pages and has not read the file back yet.
RollingBack ==
    /\ purpose = "rollback"
    /\ phase \in {"flush", "fsync", "truncate", "checkpointed", "load"}

\* The database the running session can read.
Seen == [p \in owned |-> PageImage(p)]

\* A session reads exactly what its statements wrote on top of what was
\* committed: no eviction, fault, checkpoint, rollback, crash or replay
\* changes a page behind its back.
ReadsLatest ==
    ~Stopped /\ ~RollingBack =>
        /\ Seen = current
        /\ \A p \in owned : p < pageCount

\* The committed content of a page: the catalog's is the pages it names.
CommittedContent(p) ==
    IF p = CatalogPage THEN DOMAIN committed ELSE committed[p]

\* The write-ahead rule: what a crash now would leave is enough to rebuild
\* every page that was committed.  Either the synced part of the log replays
\* it, or no version of the page on the disk is any other.
WriteAhead ==
    LET good == LastGood(SubSeq(log, 1, synced)) IN
    \A p \in DOMAIN committed \cup {CatalogPage} :
        LET writes == {i \in 1 .. good : log[i].page = p} IN
        IF writes = {}
           THEN diskPages[p] = {CommittedContent(p)}
           ELSE log[Max(writes)].image = CommittedContent(p)

\* Every commit marker on the disk is one recovery gets to: "recovery steps
\* straight over" the frames a failed statement left before it.
MarkersAreReached ==
    \A i \in 1 .. synced : log[i].commit /\ log[i].whole
                             => i <= LastGood(log)

\* While a transaction is open the database file does not change: "the file
\* is the before-image" a ROLLBACK goes back to.
FileIsBeforeImage ==
    [][transactionOpen /\ transactionOpen' =>
         UNCHANGED <<filePages, fileCount>>]_vars

\* "The log first, the database file second, never the other way round": a
\* running session overwrites a page of the file only with what a synced commit
\* has already put in the log.
LogBeforeFile ==
    [][\A p \in Page : filePages'[p] # filePages[p]
                         => Stopped \/ phase' = "down" \/ p \in logged]_vars

\* A frame that is clean holds what the file holds, so it can be dropped.
CleanMatchesFile ==
    \A p \in resident \ dirty : image[p] = filePages[p]

\* The pager implements the abstract store: statements and transactions are
\* atomic and durable whatever step a crash falls on.
Abstract == INSTANCE AtomicStore WITH
    Page   <- DataPage,
    Value  <- Content,
    view   <- IF Stopped THEN committed ELSE Seen,
    stable <- committed,
    mode   <- CASE Stopped                      -> "down"
                [] RollingBack                  -> "work"
                [] phase \in {"append", "sync"}  -> "commit"
                [] Executing \/ transactionOpen -> "work"
                [] OTHER                        -> "idle"

ImplementsAtomicStore == Abstract!Spec

\* A stopped engine comes back, or says that it cannot read its catalog, and a
\* call in progress returns, whatever fails in it.
Returns == phase \notin {"idle", "refused"} ~> phase \in {"idle", "refused"}
=============================================================================
