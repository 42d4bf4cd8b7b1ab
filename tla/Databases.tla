----------------------------- MODULE Databases -----------------------------
(***************************************************************************)
(* The databases of one file: 13_database.c keeps their names in slots,    *)
(* 02_catalog.c and 07_storage.c keep what is in each slot, 12_persist.c   *)
(* saves and reloads the lot, and every session (a thread) stands in a     *)
(* slot, known by its number only.  Statements are steps: all of them but  *)
(* SELECT run under the write lock, which an open transaction keeps.       *)
(***************************************************************************)
EXTENDS Integers, Sequences, FiniteSets, SequencesExt

CONSTANTS
  Sessions,
  NoSession,    \* nobody: no transaction is open
  DbNames,      \* names a database may be given, Main among them
  Main,         \* DEFAULT_DB_NAME
  Tables,       \* names a table may be given
  MaxDatabases, \* MAX_DATABASES
  MaxTables,    \* MAX_TABLES, of one database
  MaxHeaps      \* bound: tables in all slots together

ASSUME MainAssumption == Main \in DbNames
ASSUME SlotsAssumption == MaxDatabases \in Nat \ {0} /\ MaxTables \in Nat \ {0}
ASSUME SessionsAssumption == NoSession \notin Sessions

VARIABLES
  names,     \* names[d], which DROP DATABASE does not erase
  used,      \* used[d]
  catalog,   \* the tables the catalog lists for a slot
  heaps,     \* the heaps of a slot, in the order of the array
  current,   \* the slot each session stands in
  holder,    \* the session whose transaction is open
  changed,   \* schemaChanged
  saved,     \* the catalog of the file and its log
  last       \* the session of the last step, for the properties

vars == <<names, used, catalog, heaps, current, holder, changed, saved, last>>

Slots == 0 .. MaxDatabases - 1

-----------------------------------------------------------------------------
(* The slots *)

(* The slot of a name, -1 when no database has it *)
FindDatabase(ns, us, name) ==
  LET at == {d \in Slots : us[d] /\ ns[d] = name}
  IN IF at = {} THEN -1 ELSE CHOOSE d \in at : \A e \in at : d <= e

FreeSlots(us) == {d \in Slots : ~us[d]}

FirstFree(us) == CHOOSE d \in FreeSlots(us) : \A e \in FreeSlots(us) : d <= e

(* A heap is the table's name and, for the properties, the database its    *)
(* creator took itself to be in.                                           *)
Heap(table, home) == [table |-> table, home |-> home]

HeapAt(hs, table) == CHOOSE i \in DOMAIN hs : hs[i].table = table /\ \A j \in 1 .. i - 1 : hs[j].table # table

(* The last heap takes the place of the dropped one *)
DropHeap(hs, table) == Front([hs EXCEPT ![HeapAt(hs, table)] = Last(hs)])

-----------------------------------------------------------------------------
(* Saving and loading *)

(* A table without a heap is saved as an empty one *)
SavedHeap(hs, table, home) ==
  IF \E i \in DOMAIN hs : hs[i].table = table THEN hs[HeapAt(hs, table)] ELSE Heap(table, home)

(* The slots in use, in ascending order *)
SlotsInUse(us) ==
  LET inUse == {d \in Slots : us[d]}
  IN CHOOSE f \in [1 .. Cardinality(inUse) -> inUse] :
       \A i, j \in DOMAIN f : i < j => f[i] < f[j]

(* Each slot in use, with its tables and their pages; and the database of  *)
(* the session that saves.                                                 *)
SaveCatalog(s, ns, us, cat, hs, cur) ==
  LET inUse == SlotsInUse(us)
  IN [current |-> ns[cur[s]],
      databases |-> [i \in DOMAIN inUse |->
         [name |-> ns[inUse[i]],
          tables |-> {SavedHeap(hs[inUse[i]], t, ns[inUse[i]]) : t \in cat[inUse[i]]}]]]

(* loadDatabase: only the default database, then one slot after the other *)
EmptySlots ==
  [names |-> [d \in Slots |-> Main], used |-> [d \in Slots |-> d = 0],
   catalog |-> [d \in Slots |-> {}], heaps |-> [d \in Slots |-> <<>>]]

\* (mutant) the default database is not looked for
NextSlotToLoad(slots, name) == FirstFree(slots.used)

SlotToLoad(slots, name) ==
  LET id == FindDatabase(slots.names, slots.used, name)
  IN IF id >= 0 THEN id ELSE FirstFree(slots.used)

LoadDatabase(file) ==
  LET Into(slots, id, database) ==
        [names |-> [slots.names EXCEPT ![id] = database.name],
         used |-> [slots.used EXCEPT ![id] = TRUE],
         catalog |-> [slots.catalog EXCEPT ![id] = {h.table : h \in database.tables}],
         heaps |-> [slots.heaps EXCEPT ![id] = SetToSeq(database.tables)]]
      LoadOne(slots, database) == Into(slots, SlotToLoad(slots, database.name), database)
  IN FoldLeft(LoadOne, EmptySlots, file.databases)

(* The session that loads goes to the database the file names, the others  *)
(* keep the number they had.                                               *)
Reload(s) ==
  LET slots == LoadDatabase(saved)
      id == FindDatabase(slots.names, slots.used, saved.current)
  IN /\ names' = slots.names /\ used' = slots.used
     /\ catalog' = slots.catalog /\ heaps' = slots.heaps
     /\ current' = [current EXCEPT ![s] = IF id >= 0 THEN id ELSE 0]
     /\ changed' = FALSE

-----------------------------------------------------------------------------
(* Statements *)

(* The engine's lock lets the session in *)
MayRun(s) == holder \in {NoSession, s}

\* (mutant) a schema change that touched no page is not committed
ForgetsToCommit(s) == UNCHANGED saved /\ changed' = TRUE /\ last' = s

(* A statement that changed the schema: saved at once, or when the         *)
(* transaction ends                                                        *)
FinishSchemaChange(s) ==
  /\ last' = s
  /\ IF holder = NoSession
     THEN /\ saved' = SaveCatalog(s, names', used', catalog', heaps', current')
          /\ changed' = FALSE
     ELSE UNCHANGED saved /\ changed' = TRUE

(* Pages are dirty when the statement wrote rows, and when a reader's join *)
(* left scratch pages, which the next writer's commit carries out.         *)
CommitIfDirty(s) ==
  \/ saved' = SaveCatalog(s, names, used, catalog, heaps, current')
  \/ UNCHANGED saved

CreateDatabase(s, name) ==
  /\ MayRun(s)
  /\ FindDatabase(names, used, name) = -1
  /\ FreeSlots(used) # {}
  /\ names' = [names EXCEPT ![FirstFree(used)] = name]
  /\ used' = [used EXCEPT ![FirstFree(used)] = TRUE]
  /\ UNCHANGED <<catalog, heaps, current, holder>>
  /\ FinishSchemaChange(s)

(* Not a schema change: it commits only what it finds dirty *)
UseDatabase(s, name) ==
  /\ last' = s
  /\ MayRun(s)
  /\ FindDatabase(names, used, name) # -1
  /\ current' = [current EXCEPT ![s] = FindDatabase(names, used, name)]
  /\ IF holder = NoSession THEN CommitIfDirty(s) ELSE UNCHANGED saved
  /\ UNCHANGED <<names, used, catalog, heaps, holder, changed>>

\* (mutant) the session that drops its own database stays in the slot
ReleaseOnly(s, id) == current

(* Only the session's own place is put right *)
LeaveDropped(s, id) == IF current[s] = id THEN [current EXCEPT ![s] = 0] ELSE current

DropDatabase(s, name) ==
  LET id == FindDatabase(names, used, name)
  IN /\ MayRun(s)
     /\ id > 0
     /\ used' = [used EXCEPT ![id] = FALSE]
     /\ catalog' = [catalog EXCEPT ![id] = {}]
     /\ heaps' = [heaps EXCEPT ![id] = FoldLeft(LAMBDA hs, t : DropHeap(hs, t), @, SetToSeq(catalog[id]))]
     /\ current' = LeaveDropped(s, id)
     /\ UNCHANGED <<names, holder>>
     /\ FinishSchemaChange(s)

(* In the slot the session stands in, whether or not it is in use *)
CreateTable(s, table) ==
  LET d == current[s]
  IN /\ MayRun(s)
     /\ table \notin catalog[d]
     /\ Len(heaps[d]) < MaxTables
     /\ FoldLeft(LAMBDA n, e : n + Len(heaps[e]), 0, SetToSeq(Slots)) < MaxHeaps
     /\ heaps' = [heaps EXCEPT ![d] = Append(@, Heap(table, names[d]))]
     /\ catalog' = [catalog EXCEPT ![d] = @ \cup {table}]
     /\ UNCHANGED <<names, used, current, holder>>
     /\ FinishSchemaChange(s)

DropTable(s, table) ==
  LET d == current[s]
  IN /\ MayRun(s)
     /\ table \in catalog[d]
     /\ heaps' = [heaps EXCEPT ![d] = DropHeap(@, table)]
     /\ catalog' = [catalog EXCEPT ![d] = @ \ {table}]
     /\ UNCHANGED <<names, used, current, holder>>
     /\ FinishSchemaChange(s)

\* (mutant) the heap keeps the name the table had
KeepHeapName(hs, from, to) == hs

RenameHeap(hs, from, to) == [hs EXCEPT ![HeapAt(hs, from)].table = to]

RenameTable(s, from, to) ==
  LET d == current[s]
  IN /\ MayRun(s)
     /\ from \in catalog[d] /\ to \notin catalog[d]
     /\ catalog' = [catalog EXCEPT ![d] = (@ \ {from}) \cup {to}]
     /\ heaps' = [heaps EXCEPT ![d] = RenameHeap(@, from, to)]
     /\ UNCHANGED <<names, used, current, holder>>
     /\ FinishSchemaChange(s)

(* INSERT, UPDATE or DELETE: the rows are Table.tla's, here it commits *)
Write(s) ==
  /\ last' = s
  /\ holder = NoSession
  /\ catalog[current[s]] # {}
  /\ saved' = SaveCatalog(s, names, used, catalog, heaps, current)
  /\ UNCHANGED <<names, used, catalog, heaps, current, holder, changed>>

-----------------------------------------------------------------------------
(* Transactions and sessions *)

Begin(s) ==
  /\ last' = s
  /\ holder = NoSession
  /\ holder' = s
  /\ UNCHANGED <<names, used, catalog, heaps, current, changed, saved>>

Commit(s) ==
  /\ last' = s
  /\ holder = s
  /\ holder' = NoSession
  /\ UNCHANGED <<names, used, catalog, heaps, current>>
  /\ IF changed THEN saved' = SaveCatalog(s, names, used, catalog, heaps, current)
     ELSE CommitIfDirty(s)
  /\ changed' = FALSE

Rollback(s) ==
  /\ last' = s
  /\ holder = s
  /\ holder' = NoSession
  /\ Reload(s)
  /\ UNCHANGED saved

(* A connection ends, its transaction with it; the next one to use the     *)
(* session starts in the default database.                                 *)
Reconnect(s) ==
  /\ last' = s
  /\ current' = [current EXCEPT ![s] = 0]
  /\ IF holder = s
     THEN LET slots == LoadDatabase(saved)
          IN /\ names' = slots.names /\ used' = slots.used
             /\ catalog' = slots.catalog /\ heaps' = slots.heaps
             /\ holder' = NoSession
             /\ changed' = FALSE
     ELSE UNCHANGED <<names, used, catalog, heaps, holder, changed>>
  /\ UNCHANGED saved

(* The program stops, however it does, and starts again *)
Restart ==
  LET slots == LoadDatabase(saved)
  IN /\ names' = slots.names /\ used' = slots.used
     /\ catalog' = slots.catalog /\ heaps' = slots.heaps
     /\ current' = [s \in Sessions |-> 0]
     /\ holder' = NoSession
     /\ changed' = FALSE
     /\ last' = NoSession
     /\ UNCHANGED saved

Init ==
  /\ names = EmptySlots.names /\ used = EmptySlots.used
  /\ catalog = EmptySlots.catalog /\ heaps = EmptySlots.heaps
  /\ current = [s \in Sessions |-> 0]
  /\ holder = NoSession
  /\ changed = FALSE
  /\ saved = [current |-> Main, databases |-> <<[name |-> Main, tables |-> {}]>>]
  /\ last = NoSession

Next ==
  \/ \E s \in Sessions, n \in DbNames :
       CreateDatabase(s, n) \/ UseDatabase(s, n) \/ DropDatabase(s, n)
  \/ \E s \in Sessions, t \in Tables : CreateTable(s, t) \/ DropTable(s, t)
  \/ \E s \in Sessions, t, u \in Tables : RenameTable(s, t, u)
  \/ \E s \in Sessions : Write(s) \/ Begin(s) \/ Commit(s) \/ Rollback(s) \/ Reconnect(s)
  \/ Restart

Spec == Init /\ [][Next]_vars

-----------------------------------------------------------------------------
(* Properties *)

(* The default database is there, in slot 0, and no two databases share a  *)
(* name, whatever was created, dropped and reloaded: "Slot 0 is the        *)
(* default database.  It always exists" (13_database.c), and a name is all *)
(* USE and loadDatabase have to find one by.                               *)
NamesAreUnique ==
  /\ used[0] /\ names[0] = Main
  /\ \A d, e \in Slots : used[d] /\ used[e] /\ names[d] = names[e] => d = e

(* In every slot, used or not, the catalog and the heap array list the     *)
(* same tables, each once: dropHeap moves heaps about in its array, a      *)
(* renaming touches both lists, a table whose heap is not found saves as   *)
(* one without pages.                                                      *)
CatalogMatchesHeaps ==
  \A d \in Slots : /\ catalog[d] = {heaps[d][i].table : i \in DOMAIN heaps[d]}
                   /\ Cardinality(catalog[d]) = Len(heaps[d])

(* The databases by name *)
Contents(ns, us, hs) ==
  [n \in {ns[d] : d \in {e \in Slots : us[e]}} |->
     ToSet(hs[CHOOSE d \in Slots : us[d] /\ ns[d] = n])]

(* Between transactions the file has the databases that are in use, each   *)
(* with its tables: loading it would bring the same ones back, in whatever *)
(* slots.  So no statement of a session that stands in a database that     *)
(* exists is "a change that reported success and was not kept"             *)
(* (10_controller.c).  Nothing is said of a slot that is free: a session   *)
(* that another one left in it by DROP DATABASE can create tables there,   *)
(* which no save writes, and which the next database in the slot has.      *)
UsedSlotsAreSaved ==
  holder = NoSession =>
    LET slots == LoadDatabase(saved)
    IN Contents(slots.names, slots.used, slots.heaps) = Contents(names, used, heaps)

(* A session standing in a database stays in one: its own statements never *)
(* leave it in a slot that is free ("dropping the current database leaves  *)
(* the session in the default one", 13_database.c, and so does a reload    *)
(* that no longer has it), and no statement of another session puts other  *)
(* tables under its feet while the slot is in use.  Not claimed: the end   *)
(* of another session's transaction, which may load the slots anew, and a  *)
(* slot that another session has freed.                                    *)
StandsSomewhere ==
  [][\A s \in Sessions : used[current[s]] =>
       /\ last' = s => used'[current'[s]]
       /\ last' \notin {s, NoSession} /\ used'[current[s]] /\ (holder' = NoSession => holder = NoSession)
            => /\ current'[s] = current[s]
               /\ names'[current[s]] = names[current[s]]]_vars
=============================================================================
