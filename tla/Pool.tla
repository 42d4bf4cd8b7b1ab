-------------------------------- MODULE Pool --------------------------------
(***************************************************************************)
(* The buffer pool of 14_pool.c as the threads of the engine share it:     *)
(* frames, pins, the page directory and the CLOCK hand.                    *)
(*                                                                         *)
(* A call into the pool is one step, because it is made under the pool's   *)
(* mutex.  What a thread does with the page it was given is not: it keeps  *)
(* a pointer to the frame until it unpins the page.  Statements are held   *)
(* apart by the engine lock, so either some threads read or one writes;    *)
(* but a reader allocates, writes and frees the pages of its own joins.    *)
(*                                                                         *)
(* Of a page's content all that matters is whether a copy is the one last  *)
(* written.  The database has a file and a log, so a pool whose pages have *)
(* nowhere to go (poolWritable) is not considered, nor is a rollback,      *)
(* which Pager.tla has.                                                    *)
(***************************************************************************)
EXTENDS Integers, FiniteSets

CONSTANTS Thread,
          InitialFrames,        \* INITIAL_FRAMES
          MaxFrames,            \* bound: frames the machine has memory for
          MaxPages              \* bound: ids 0 .. MaxPages - 1

\* The threads are the main one and one for each of MAX_SESSIONS connections.
ASSUME PoolAssumption ==
    /\ IsFiniteSet(Thread)
    /\ InitialFrames \in Nat \ {0}
    /\ MaxFrames \in Nat \ {0}
    /\ MaxPages \in Nat \ {0}

Page == 0 .. MaxPages - 1
Nowhere == -1           \* no page in a frame, no frame for a page

VARIABLES
    frames,             \* the frames, numbered from 0
    pageFrame,          \* the directory: where each page is resident
    hand,
    pageCount, freeIds,
    inFile,             \* the pages whose last written content the file has
    inLog,              \* and those whose the log has
    mode,               \* what the engine lock lets each thread do
    held,               \* the pointers each thread has, and which it wrote through
    tables,             \* the pages of tables and indexes
    scratch             \* the pages of each thread's joinHeap

frameVars == <<frames, pageFrame, hand>>
fileVars == <<inFile, inLog>>
idVars == <<pageCount, freeIds>>
ownerVars == <<tables, scratch>>
poolVars == <<frameVars, fileVars, idVars, mode, held, ownerVars>>

FrameCount == Cardinality(DOMAIN frames)

FreeFrame == [pageId |-> Nowhere, pins |-> 0, dirty |-> FALSE, logged |-> FALSE,
              referenced |-> FALSE, current |-> FALSE]

-----------------------------------------------------------------------------
(* acquireFrame. *)

IsFree(i) == frames[i].pageId = Nowhere

\* (mutant) a pin does not keep a frame.
EvictablePinned(i) ==
    /\ ~IsFree(i)
    /\ frames[i].dirty => frames[i].logged

\* Nobody has it pinned, and its changes, if any, are in the log.
Evictable(i) ==
    /\ ~IsFree(i)
    /\ frames[i].pins = 0
    /\ frames[i].dirty => frames[i].logged

\* (mutant) one sweep: nothing gets its second chance.
SweepOnce ==
    LET at(step) == (hand + step) % FrameCount
        stops == {step \in 0 .. FrameCount - 1 :
                    \/ IsFree(at(step))
                    \/ Evictable(at(step)) /\ ~frames[at(step)].referenced}
    IN  [victim |-> IF stops = {} THEN Nowhere
                    ELSE at(CHOOSE s \in stops : \A r \in stops : s <= r),
         referenced |-> {i \in DOMAIN frames : frames[i].referenced}]

\* The loop of acquireFrame: after so many steps, the frame it has stopped at
\* and the frames whose reference bit is still set.
Sweep ==
    LET after[steps \in 0 .. 2 * FrameCount] ==
            IF steps = 0
               THEN [victim |-> Nowhere,
                     referenced |-> {i \in DOMAIN frames : frames[i].referenced}]
               ELSE LET sofar == after[steps - 1]
                        i == (hand + steps - 1) % FrameCount
                    IN  IF sofar.victim # Nowhere \/ ~(IsFree(i) \/ Evictable(i))
                           THEN sofar
                        ELSE IF ~IsFree(i) /\ i \in sofar.referenced
                           THEN [sofar EXCEPT !.referenced = @ \ {i}]
                           ELSE [sofar EXCEPT !.victim = i]
    IN  after[2 * FrameCount]

\* The pool with a frame to spare: the one the sweep found, written to the file
\* first if it is dirty, and otherwise the first of the new ones.  The frame
\* still has the number of the page it held.
Acquired ==
    LET sweep == Sweep
        i == sweep.victim
        page == frames[i].pageId
        grown == IF FrameCount = 0 THEN InitialFrames ELSE 2 * FrameCount
    IN  IF i # Nowhere
           THEN {[frame |-> i,
                  frames |-> [j \in DOMAIN frames |->
                                 IF j = i THEN [frames[j] EXCEPT !.dirty = FALSE,
                                                                 !.logged = FALSE,
                                                                 !.referenced = FALSE]
                                 ELSE [frames[j] EXCEPT
                                         !.referenced = j \in sweep.referenced]],
                  pageFrame |-> [p \in Page |-> IF p = page THEN Nowhere
                                                            ELSE pageFrame[p]],
                  hand |-> (i + 1) % FrameCount,
                  inFile |-> IF frames[i].dirty /\ frames[i].current
                                THEN inFile \cup {page} ELSE inFile]}
           ELSE {[frame |-> FrameCount,
                  frames |-> [j \in 0 .. n - 1 |-> IF j < FrameCount THEN frames[j]
                                                                     ELSE FreeFrame],
                  pageFrame |-> pageFrame,
                  hand |-> 0,
                  inFile |-> inFile] : n \in {m \in FrameCount + 1 .. grown : m <= MaxFrames}}

\* (mutant) the hand does not wrap.
PlaceUnwrapped(a, p, content) ==
    /\ frames' = [a.frames EXCEPT ![a.frame] = content]
    /\ pageFrame' = [a.pageFrame EXCEPT ![p] = a.frame]
    /\ hand' = a.frame + 1

\* The acquired frame is given this content, and the directory this page.
Place(a, p, content) ==
    /\ frames' = [a.frames EXCEPT ![a.frame] = content]
    /\ pageFrame' = [a.pageFrame EXCEPT ![p] = a.frame]
    /\ hand' = a.hand

-----------------------------------------------------------------------------
(* Pins. *)

MayUse(t, p) ==
    /\ mode[t] # "idle"
    /\ p \in tables \cup scratch[t]
    /\ p < pageCount
    /\ \A h \in held[t] : h.page # p

Point(t, p, i) ==
    held' = [held EXCEPT ![t] = @ \cup {[page |-> p, frame |-> i, wrote |-> FALSE]}]

\* pinLocked: the page is resident ...
PinHit(t, p) ==
    LET i == pageFrame[p] IN
    /\ MayUse(t, p)
    /\ i # Nowhere
    /\ frames' = [frames EXCEPT ![i].pins = @ + 1, ![i].referenced = TRUE]
    /\ Point(t, p, i)
    /\ UNCHANGED <<pageFrame, hand, fileVars, idVars, mode, ownerVars>>

\* ... or is read from the file into a frame that is made free for it.
PinMiss(t, p) ==
    /\ MayUse(t, p)
    /\ pageFrame[p] = Nowhere
    /\ \E a \in Acquired :
         /\ Place(a, p, [FreeFrame EXCEPT !.pageId = p, !.pins = 1,
                                          !.current = p \in a.inFile])
         /\ inFile' = a.inFile
         /\ Point(t, p, a.frame)
    /\ UNCHANGED <<inLog, idVars, mode, ownerVars>>

\* (mutant) the frame keeps the number of the page it held.
PinFailsStale(t, p) ==
    /\ MayUse(t, p)
    /\ pageFrame[p] = Nowhere
    /\ \E a \in Acquired :
         /\ frames' = a.frames
         /\ pageFrame' = a.pageFrame
         /\ hand' = a.hand
         /\ inFile' = a.inFile
    /\ UNCHANGED <<inLog, idVars, mode, held, ownerVars>>

\* The read fails or the page's checksum does not match.  The frame has been
\* made free for nothing.
PinFails(t, p) ==
    /\ MayUse(t, p)
    /\ pageFrame[p] = Nowhere
    /\ \E a \in Acquired :
         /\ frames' = [a.frames EXCEPT ![a.frame] = FreeFrame]
         /\ pageFrame' = a.pageFrame
         /\ hand' = a.hand
         /\ inFile' = a.inFile
    /\ UNCHANGED <<inLog, idVars, mode, held, ownerVars>>

\* A thread writes through its pointer: into whatever the frame is by now.
\* Every other copy of the page is behind from here on.
WriteThrough(t, h) ==
    /\ h \in held[t]
    /\ mode[t] = "write" \/ h.page \in scratch[t]
    /\ frames' = [i \in DOMAIN frames |->
                     IF i = h.frame THEN [frames[i] EXCEPT !.current =
                                            frames[i].pageId = h.page]
                     ELSE IF frames[i].pageId = h.page
                        THEN [frames[i] EXCEPT !.current = FALSE]
                     ELSE frames[i]]
    /\ inFile' = inFile \ {h.page}
    /\ inLog' = inLog \ {h.page}
    /\ held' = [held EXCEPT ![t] = (@ \ {h}) \cup {[h EXCEPT !.wrote = TRUE]}]
    /\ UNCHANGED <<pageFrame, hand, idVars, mode, ownerVars>>

\* (mutant) a page changed again since it was logged is still called logged.
UnpinLogged(t, h) ==
    LET i == pageFrame[h.page] IN
    /\ h \in held[t]
    /\ frames' = IF i = Nowhere THEN frames
                 ELSE [frames EXCEPT ![i].pins = IF @ > 0 THEN @ - 1 ELSE 0,
                                     ![i].dirty = @ \/ h.wrote]
    /\ held' = [held EXCEPT ![t] = @ \ {h}]
    /\ UNCHANGED <<pageFrame, hand, fileVars, idVars, mode, ownerVars>>

\* unpinLocked finds the frame by its page, not by the pointer.
Unpin(t, h) ==
    LET i == pageFrame[h.page] IN
    /\ h \in held[t]
    /\ frames' = IF i = Nowhere THEN frames
                 ELSE [frames EXCEPT ![i].pins = IF @ > 0 THEN @ - 1 ELSE 0,
                                     ![i].dirty = @ \/ h.wrote,
                                     ![i].logged = @ /\ ~h.wrote]
    /\ held' = [held EXCEPT ![t] = @ \ {h}]
    /\ UNCHANGED <<pageFrame, hand, fileVars, idVars, mode, ownerVars>>

-----------------------------------------------------------------------------
(* Allocation. *)

\* The ids allocateLocked may return.
NextIds == IF freeIds # {} THEN freeIds ELSE {pageCount} \cap Page

TakeId(p) ==
    /\ freeIds' = freeIds \ {p}
    /\ pageCount' = IF freeIds = {} THEN pageCount + 1 ELSE pageCount

\* A writer allocates for a table; whoever joins, for its join.
Allocate(t, p) ==
    /\ mode[t] # "idle"
    /\ p \in NextIds
    /\ TakeId(p)
    /\ \E a \in Acquired :
         /\ Place(a, p, [FreeFrame EXCEPT !.pageId = p, !.dirty = TRUE,
                                          !.referenced = TRUE, !.current = TRUE])
         /\ inFile' = a.inFile \ {p}
         /\ inLog' = inLog \ {p}
    /\ \/ mode[t] = "write" /\ tables' = tables \cup {p} /\ UNCHANGED scratch
       \/ scratch' = [scratch EXCEPT ![t] = @ \cup {p}] /\ UNCHANGED tables
    /\ UNCHANGED <<mode, held>>

\* freeLocked, for a page the thread is not in the middle of using.  The list
\* of freed ids may have no room for this one.
Free(t, p) ==
    LET i == pageFrame[p] IN
    /\ \/ mode[t] = "write" /\ p \in tables
       \/ mode[t] # "idle" /\ p \in scratch[t]
    /\ \A h \in held[t] : h.page # p
    /\ frames' = IF i = Nowhere THEN frames ELSE [frames EXCEPT ![i] = FreeFrame]
    /\ pageFrame' = [pageFrame EXCEPT ![p] = Nowhere]
    /\ freeIds' \in {freeIds, freeIds \cup {p}}
    /\ tables' = tables \ {p}
    /\ scratch' = [scratch EXCEPT ![t] = @ \ {p}]
    /\ UNCHANGED <<hand, fileVars, pageCount, mode, held>>

-----------------------------------------------------------------------------
(* Statements, as the engine lock lets them run. *)

StartRead(t) ==
    /\ mode[t] = "idle"
    /\ \A u \in Thread : mode[u] # "write"
    /\ mode' = [mode EXCEPT ![t] = "read"]
    /\ UNCHANGED <<frameVars, fileVars, idVars, held, ownerVars>>

StartWrite(t) ==
    /\ \A u \in Thread : mode[u] = "idle"
    /\ mode' = [mode EXCEPT ![t] = "write"]
    /\ UNCHANGED <<frameVars, fileVars, idVars, held, ownerVars>>

\* A SELECT, a statement that failed, or one inside a transaction.
EndStatement(t) ==
    /\ mode[t] # "idle"
    /\ held[t] = {}
    /\ mode' = [mode EXCEPT ![t] = "idle"]
    /\ UNCHANGED <<frameVars, fileVars, idVars, held, ownerVars>>

\* poolCommit: every dirty page is in the log now, appended where it was not.
CommitStatement(t) ==
    /\ mode[t] = "write"
    /\ held[t] = {}
    /\ frames' = [i \in DOMAIN frames |-> [frames[i] EXCEPT !.logged = frames[i].dirty]]
    /\ mode' = [mode EXCEPT ![t] = "idle"]
    /\ inLog' = inLog \cup {frames[i].pageId :
                              i \in {j \in DOMAIN frames : /\ frames[j].dirty
                                                           /\ ~frames[j].logged
                                                           /\ frames[j].current}}
    /\ UNCHANGED <<pageFrame, hand, inFile, idVars, held, ownerVars>>

\* poolCheckpoint: every dirty page is in the file, and the log is empty.
Checkpoint(t) ==
    /\ mode[t] = "write"
    /\ held[t] = {}
    /\ frames' = [i \in DOMAIN frames |-> [frames[i] EXCEPT !.dirty = FALSE,
                                                           !.logged = FALSE]]
    /\ inFile' = inFile \cup {frames[i].pageId :
                                i \in {j \in DOMAIN frames : /\ frames[j].dirty
                                                             /\ frames[j].current}}
    /\ mode' = [mode EXCEPT ![t] = "idle"]
    /\ inLog' = {}
    /\ UNCHANGED <<pageFrame, hand, idVars, held, ownerVars>>

-----------------------------------------------------------------------------
Init ==
    /\ frames = <<>>
    /\ pageFrame = [p \in Page |-> Nowhere]
    /\ hand = 0
    /\ pageCount = 0 /\ freeIds = {}
    /\ inFile = {} /\ inLog = {}
    /\ mode = [t \in Thread |-> "idle"]
    /\ held = [t \in Thread |-> {}]
    /\ tables = {} /\ scratch = [t \in Thread |-> {}]

Next ==
    \E t \in Thread :
        \/ StartRead(t) \/ StartWrite(t) \/ EndStatement(t)
        \/ CommitStatement(t) \/ Checkpoint(t)
        \/ \E p \in Page : \/ PinHit(t, p) \/ PinMiss(t, p) \/ PinFails(t, p)
                           \/ Allocate(t, p) \/ Free(t, p)
        \/ \E h \in held[t] : WriteThrough(t, h) \/ Unpin(t, h)

Spec == Init /\ [][Next]_poolVars

-----------------------------------------------------------------------------
(* Properties. *)

FrameType == [pageId : Page \cup {Nowhere}, pins : Nat, dirty : BOOLEAN,
              logged : BOOLEAN, referenced : BOOLEAN, current : BOOLEAN]
Pointer == [page : Page, frame : Nat, wrote : BOOLEAN]

TypeOK ==
    /\ frames \in [0 .. FrameCount - 1 -> FrameType]
    /\ FrameCount \in 0 .. MaxFrames
    /\ pageFrame \in [Page -> DOMAIN frames \cup {Nowhere}]
    /\ hand \in DOMAIN frames \cup {0}
    /\ pageCount \in 0 .. MaxPages
    /\ freeIds \subseteq Page /\ tables \subseteq Page
    /\ inFile \subseteq Page /\ inLog \subseteq Page
    /\ mode \in [Thread -> {"idle", "read", "write"}]
    /\ held \in [Thread -> SUBSET Pointer]
    /\ scratch \in [Thread -> SUBSET Page]

\* The directory and the frames agree: no page is resident twice, and none is
\* in a frame the directory has forgotten.
DirectoryAgrees ==
    \A i \in DOMAIN frames : \A p \in Page :
        frames[i].pageId = p <=> pageFrame[p] = i

\* A pointer stays good until it is given back: its frame holds its page, and
\* is pinned once for every thread that has one.
PointersStayGood ==
    /\ \A t \in Thread : \A h \in held[t] : frames[h.frame].pageId = h.page
    /\ \A i \in DOMAIN frames :
         frames[i].pins = Cardinality({t \in Thread :
                                         \E h \in held[t] : h.frame = i})

\* What was last written to a page is what the next pin finds: in its frame, or
\* in the file when it has none.
NothingIsLost ==
    \A p \in tables \cup UNION {scratch[t] : t \in Thread} :
        IF pageFrame[p] = Nowhere THEN p \in inFile
                                  ELSE frames[pageFrame[p]].current

\* The pool writes a page on its own account only with what the log already
\* has: a page "changed again since it was logged" has to wait for its thread
\* to unpin it and for the next commit.
LogComesFirst ==
    [][mode' = mode => inFile' \ inFile \subseteq inLog]_poolVars

\* "If that is everything the pool grows instead": it never takes more memory
\* while a frame could be had.
GrowsOnlyWhenFull ==
    [][DOMAIN frames' # DOMAIN frames =>
         \A i \in DOMAIN frames : ~IsFree(i) /\ ~Evictable(i)]_poolVars
=============================================================================
