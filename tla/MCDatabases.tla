---------------------------- MODULE MCDatabases ----------------------------
(* Two sessions, two names besides the default one, and three slots: a slot *)
(* can be freed, taken again under another name, and skipped by a reload.  *)
EXTENDS Databases, TLC

CONSTANTS s1, s2, x, y, t, u

MCSessions == {s1, s2}
MCDbNames == {Main, x, y}
MCTables == {t, u}

Symmetry == Permutations(MCSessions) \cup Permutations({x, y}) \cup Permutations(MCTables)

(* Which session took the last step only matters to that step *)
View == <<names, used, catalog, heaps, current, holder, changed, saved>>
=============================================================================
