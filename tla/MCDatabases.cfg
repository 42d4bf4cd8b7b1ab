SPECIFICATION Spec
CONSTANTS
    s1 = s1
    s2 = s2
    x = x
    y = y
    t = t
    u = u
    NoSession = NoSession
    Main = Main
    Sessions <- MCSessions
    DbNames <- MCDbNames
    Tables <- MCTables
    MaxDatabases = 3
    MaxTables = 2
    MaxHeaps = 2
VIEW View
SYMMETRY Symmetry
INVARIANT NamesAreUnique
INVARIANT CatalogMatchesHeaps
INVARIANT UsedSlotsAreSaved
PROPERTY StandsSomewhere
