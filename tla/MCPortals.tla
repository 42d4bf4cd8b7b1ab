----------------------------- MODULE MCPortals -----------------------------
(* Portals.tla on small instances: a SELECT and a command, one place fewer *)
(* than there are names for prepared statements.                           *)
EXTENDS Portals, TLC

CONSTANTS select, command, n1, n2, p1, p2

MCQueries == { <<>>, <<select>>, <<command, select>> }

(* What the last message was answered only matters to the step it took *)
View == <<prepared, portal, ignoring, errored, runs, given>>
=============================================================================
