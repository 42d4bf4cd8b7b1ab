------------------------------ MODULE Sessions ------------------------------
(***************************************************************************)
(* The connection threads of 16_wire.c, the engine lock of 18_thread.c they *)
(* share, and what ProcessStatement (10_controller.c) does with it.        *)
(*                                                                         *)
(* A SELECT takes the lock shared, anything else takes it exclusively.     *)
(* BEGIN is the statement that does not give it back: the session holds it *)
(* between its statements until COMMIT, ROLLBACK, or the end of the        *)
(* connection.  transactionOpen belongs to the engine;                     *)
(* holdingForTransaction to each thread.                                   *)
(***************************************************************************)
EXTENDS Naturals, FiniteSets

CONSTANTS Session,      \* the connections clients may try to have
          MaxSessions,  \* MAX_SESSIONS of 16_wire.c
          FileBacked,   \* FALSE for :memory:, which cannot roll back
          None          \* no session

ASSUME SessionsAssumption ==
    /\ IsFiniteSet(Session)
    /\ MaxSessions \in Nat
    /\ FileBacked \in BOOLEAN
    /\ None \notin Session

Kinds == {"select", "write", "begin", "commit", "rollback"}

VARIABLES
    pc,                     \* where each thread is
    kind,                   \* the statement it is at work on, or "none"
    readers, writer,        \* who has the engine lock, shared or exclusive
    transactionOpen,
    holdingForTransaction,
    sessionCount

threadVars == <<pc, kind>>
lockVars == <<readers, writer>>
transactionVars == <<transactionOpen, holdingForTransaction>>
sessionVars == <<threadVars, lockVars, transactionVars, sessionCount>>

GoTo(s, place) == pc' = [pc EXCEPT ![s] = place]

-----------------------------------------------------------------------------
(* Connections. *)

\* (mutant) the connection is served but not counted.
AcceptUncounted(s) ==
    /\ pc[s] = "none"
    /\ sessionCount < MaxSessions
    /\ GoTo(s, "idle")
    /\ UNCHANGED <<kind, lockVars, transactionVars, sessionCount>>

\* serveWire has a slot, a Session and a thread for the connection.
Accept(s) ==
    /\ pc[s] = "none"
    /\ sessionCount < MaxSessions
    /\ sessionCount' = sessionCount + 1
    /\ GoTo(s, "idle")
    /\ UNCHANGED <<kind, lockVars, transactionVars>>

\* It has a slot but no memory for a Session: the connection is closed.
AcceptNoMemory(s) ==
    /\ pc[s] = "none"
    /\ sessionCount < MaxSessions
    /\ sessionCount' = sessionCount + 1
    /\ UNCHANGED <<threadVars, lockVars, transactionVars>>

\* The client terminates, drops, or sends what is no message; or it is gone
\* when its answer is sent.
Disconnect(s) ==
    /\ pc[s] \in {"idle", "replying"}
    /\ GoTo(s, "closing")
    /\ UNCHANGED <<kind, lockVars, transactionVars, sessionCount>>

\* (mutant) the timeout is set for the wrong sessions.
TimeOutInverted(s) ==
    /\ pc[s] = "idle"
    /\ ~holdingForTransaction[s]
    /\ GoTo(s, "closing")
    /\ UNCHANGED <<kind, lockVars, transactionVars, sessionCount>>

\* IDLE_IN_TRANSACTION_SECONDS without a message, in a transaction.
TimeOut(s) ==
    /\ pc[s] = "idle"
    /\ holdingForTransaction[s]
    /\ GoTo(s, "closing")
    /\ UNCHANGED <<kind, lockVars, transactionVars, sessionCount>>

\* (mutant) the lock is given back, the transaction left open.
EndSessionOpen(s) ==
    /\ pc[s] = "closing"
    /\ IF holdingForTransaction[s]
          THEN /\ holdingForTransaction' = [holdingForTransaction EXCEPT ![s] = FALSE]
               /\ writer' = None
          ELSE UNCHANGED <<holdingForTransaction, writer>>
    /\ GoTo(s, "closed")
    /\ UNCHANGED <<kind, readers, transactionOpen, sessionCount>>

\* (mutant) the transaction is abandoned, the lock not given back.
EndSessionLocked(s) ==
    /\ pc[s] = "closing"
    /\ IF holdingForTransaction[s]
          THEN /\ transactionOpen' = FALSE
               /\ holdingForTransaction' = [holdingForTransaction EXCEPT ![s] = FALSE]
          ELSE UNCHANGED transactionVars
    /\ GoTo(s, "closed")
    /\ UNCHANGED <<kind, lockVars, sessionCount>>

\* closeSession: a transaction is abandoned, and then the lock given back.
EndSession(s) ==
    /\ pc[s] = "closing"
    /\ IF holdingForTransaction[s]
          THEN /\ transactionOpen' = FALSE
               /\ holdingForTransaction' = [holdingForTransaction EXCEPT ![s] = FALSE]
               /\ writer' = None
          ELSE UNCHANGED <<transactionVars, writer>>
    /\ GoTo(s, "closed")
    /\ UNCHANGED <<kind, readers, sessionCount>>

ReleaseSlot(s) ==
    /\ pc[s] = "closed"
    /\ sessionCount' = sessionCount - 1
    /\ GoTo(s, "none")
    /\ UNCHANGED <<kind, lockVars, transactionVars>>

-----------------------------------------------------------------------------
(* ProcessStatement. *)

\* A message holds a statement that parses.  In a transaction the lock is
\* already held.
Submit(s, k) ==
    /\ pc[s] = "idle"
    /\ kind' = [kind EXCEPT ![s] = k]
    /\ GoTo(s, IF holdingForTransaction[s] THEN "running" ELSE "waiting")
    /\ UNCHANGED <<lockVars, transactionVars, sessionCount>>

TakeShared(s) ==
    /\ pc[s] = "waiting"
    /\ kind[s] = "select"
    /\ writer = None
    /\ readers' = readers \cup {s}
    /\ GoTo(s, "running")
    /\ UNCHANGED <<kind, writer, transactionVars, sessionCount>>

\* (mutant) a writer does not wait for the readers.
TakeExclusiveAnyway(s) ==
    /\ pc[s] = "waiting"
    /\ kind[s] # "select"
    /\ writer = None
    /\ writer' = s
    /\ GoTo(s, "running")
    /\ UNCHANGED <<kind, readers, transactionVars, sessionCount>>

TakeExclusive(s) ==
    /\ pc[s] = "waiting"
    /\ kind[s] # "select"
    /\ writer = None /\ readers = {}
    /\ writer' = s
    /\ GoTo(s, "running")
    /\ UNCHANGED <<kind, readers, transactionVars, sessionCount>>

\* executeStatement returns.
Ran(s, k) ==
    /\ pc[s] = "running"
    /\ kind[s] = k
    /\ GoTo(s, "ran")
    /\ UNCHANGED <<kind, lockVars, holdingForTransaction, sessionCount>>

RunSelect(s) == Ran(s, "select") /\ UNCHANGED transactionOpen

\* The write, and its commit where no transaction is open.
RunWrite(s) == Ran(s, "write") /\ UNCHANGED transactionOpen

RunBegin(s) ==
    /\ ~transactionOpen
    /\ Ran(s, "begin")
    /\ transactionOpen' = TRUE

RunCommit(s) ==
    /\ transactionOpen
    /\ Ran(s, "commit")
    /\ transactionOpen' = FALSE

RunRollback(s) ==
    /\ transactionOpen
    /\ FileBacked
    /\ Ran(s, "rollback")
    /\ transactionOpen' = FALSE

\* The statement fails before its transaction flag changes: a semantic error,
\* BEGIN inside a transaction or without a checkpoint, COMMIT or ROLLBACK
\* outside one, ROLLBACK of :memory:, a write that runs out of memory or disk.
FailStatement(s) == \E k \in Kinds : Ran(s, k) /\ UNCHANGED transactionOpen

\* (mutant) every statement gives back the lock it took, BEGIN included.
ReleaseLockAlways(s) ==
    /\ pc[s] = "ran"
    /\ readers' = readers \ {s}
    /\ writer' = IF writer = s THEN None ELSE writer
    /\ GoTo(s, "replying")
    /\ kind' = [kind EXCEPT ![s] = "none"]
    /\ UNCHANGED <<transactionVars, sessionCount>>

\* What the end of ProcessStatement does with the lock.
ReleaseLock(s) ==
    /\ pc[s] = "ran"
    /\ \/ /\ holdingForTransaction[s]
          /\ IF transactionOpen
                THEN UNCHANGED <<writer, holdingForTransaction>>
                ELSE /\ holdingForTransaction' =
                            [holdingForTransaction EXCEPT ![s] = FALSE]
                     /\ writer' = None
          /\ UNCHANGED readers
       \/ /\ ~holdingForTransaction[s]
          /\ kind[s] = "select"
          /\ readers' = readers \ {s}
          /\ UNCHANGED <<writer, holdingForTransaction>>
       \/ /\ ~holdingForTransaction[s]
          /\ kind[s] # "select"
          /\ IF transactionOpen
                THEN /\ holdingForTransaction' =
                            [holdingForTransaction EXCEPT ![s] = TRUE]
                     /\ UNCHANGED writer
                ELSE /\ writer' = None
                     /\ UNCHANGED holdingForTransaction
          /\ UNCHANGED readers
    /\ GoTo(s, "replying")
    /\ kind' = [kind EXCEPT ![s] = "none"]
    /\ UNCHANGED <<transactionOpen, sessionCount>>

\* The client has read the answer.
Reply(s) ==
    /\ pc[s] = "replying"
    /\ GoTo(s, "idle")
    /\ UNCHANGED <<kind, lockVars, transactionVars, sessionCount>>

-----------------------------------------------------------------------------
Init ==
    /\ pc = [s \in Session |-> "none"]
    /\ kind = [s \in Session |-> "none"]
    /\ readers = {} /\ writer = None
    /\ transactionOpen = FALSE
    /\ holdingForTransaction = [s \in Session |-> FALSE]
    /\ sessionCount = 0

Run(s) ==
    \/ RunSelect(s) \/ RunWrite(s) \/ RunBegin(s) \/ RunCommit(s) \/ RunRollback(s)
    \/ FailStatement(s)

\* What a thread does of itself once it has something to do, the client's
\* reading of an answer included.
Serve(s) ==
    \/ TakeShared(s) \/ TakeExclusive(s) \/ Run(s) \/ ReleaseLock(s) \/ Reply(s)
    \/ TimeOut(s) \/ EndSession(s) \/ ReleaseSlot(s)

Ask(s) == \E k \in Kinds : Submit(s, k)

Next ==
    \E s \in Session : \/ Accept(s) \/ AcceptNoMemory(s) \/ Disconnect(s)
                       \/ Ask(s) \/ Serve(s)

Spec == Init /\ [][Next]_sessionVars

\* Every thread is scheduled, sends are not blocked for ever, and the receive
\* timeout fires.  The lock itself is not fair: a thread may wait while others
\* keep taking it.
FairSpec == Spec /\ \A s \in Session : WF_sessionVars(Serve(s))

-----------------------------------------------------------------------------
(* Properties. *)

Places == {"none", "idle", "waiting", "running", "ran", "replying", "closing", "closed"}

TypeOK ==
    /\ pc \in [Session -> Places]
    /\ kind \in [Session -> Kinds \cup {"none"}]
    /\ readers \subseteq Session
    /\ writer \in Session \cup {None}
    /\ transactionOpen \in BOOLEAN
    /\ holdingForTransaction \in [Session -> BOOLEAN]
    /\ sessionCount \in 0 .. MaxSessions

\* The engine's flag and the threads' own agree: except while the statement
\* that opens or ends it is at work, a transaction is open exactly when one
\* thread says it is holding for it, and that thread has the lock.
TransactionHasOwner ==
    /\ \A s \in Session : holdingForTransaction[s] => writer = s
    /\ (\A s \in Session : pc[s] # "ran")
         => (transactionOpen <=> \E s \in Session : holdingForTransaction[s])

\* A SELECT outside a transaction runs with no transaction open: it never sees
\* work that might be rolled back.
ReadersSeeNoTransaction == readers # {} => ~transactionOpen /\ writer = None

\* Every way out of a statement or a connection gives the lock back, unless a
\* transaction keeps it.
NoLockLeft ==
    \A s \in Session :
        pc[s] \notin {"running", "ran"} /\ ~holdingForTransaction[s]
            => s \notin readers /\ writer # s

Connected == {s \in Session : pc[s] # "none"}

\* No more connections are served than there are slots for.
SlotsAreEnough == Cardinality(Connected) <= MaxSessions

\* Once clients stop asking, everyone who is waiting is served: no lock is
\* lost, whoever went away and whoever forgot a transaction.
WaitersAreServed ==
    <>[][\A s \in Session : ~Ask(s)]_sessionVars
        => \A s \in Session : pc[s] = "waiting" ~> pc[s] = "running"
=============================================================================
