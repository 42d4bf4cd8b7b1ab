---------------------------- MODULE AtomicStore ----------------------------
(***************************************************************************)
(* What the storage engine promises a client, with no pages, no log and no *)
(* buffer pool in it.                                                      *)
(*                                                                         *)
(* A database is a function from the pages a table owns to their contents. *)
(* Work happens on `view`; `stable` is what the client has been told is    *)
(* kept.  A commit makes `view` stable in one step.  A failure loses the   *)
(* work and nothing else, except that a commit under way when it strikes   *)
(* may turn out to have happened.                                          *)
(***************************************************************************)
CONSTANTS Page,     \* page ids a table may own
          Value     \* what a page may hold

VARIABLES view,     \* the database the running session sees
          stable,   \* the database the client was last told is kept
          mode      \* "idle", "work", "commit" or "down"

avars == <<view, stable, mode>>

Database == UNION {[owned -> Value] : owned \in SUBSET Page}

Init ==
    /\ stable \in Database
    /\ view = stable
    /\ mode = "idle"

\* A statement or a transaction starts.
Start ==
    /\ mode = "idle"
    /\ mode' = "work"
    /\ UNCHANGED <<view, stable>>

\* It changes the database, as far as this session can see.
Modify ==
    /\ mode = "work"
    /\ view' \in Database
    /\ UNCHANGED <<stable, mode>>

\* It asks for its work to be kept ...
AskCommit ==
    /\ mode = "work"
    /\ mode' = "commit"
    /\ UNCHANGED <<view, stable>>

\* ... and is told that it is.
Commit ==
    /\ mode \in {"work", "commit"}
    /\ stable' = view
    /\ mode' = "idle"
    /\ UNCHANGED view

\* The work is given up: what was stable is what is seen again.
Rollback ==
    /\ mode = "work"
    /\ view' = stable
    /\ mode' = "idle"
    /\ UNCHANGED stable

\* The engine stops, in the middle of anything at all.
Fail ==
    /\ mode' = "down"
    /\ stable' \in {stable} \cup {v \in {view} : mode = "commit"}
    /\ view' = stable'

\* It comes back with exactly what was stable.
Restart ==
    /\ mode = "down"
    /\ mode' = "idle"
    /\ UNCHANGED <<view, stable>>

Next ==
    \/ Start \/ Modify \/ AskCommit \/ Commit
    \/ Rollback \/ Fail \/ Restart

Spec == Init /\ [][Next]_avars
=============================================================================
