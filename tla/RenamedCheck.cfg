SPECIFICATION Spec
CONSTANTS
    NULL = NULL
    Gone = Gone
    NoDefault = NoDefault
    Order = 3
    KeyMax = 1
    PageRoom = 8
    Trailer = 1
    SlotsPerPage = 4
    MaxSlots = 5
    MaxIndexes = 1
    MaxColumns = 2
    Allowances = {1, 9}
    Values <- MCValues
    Tables <- MCTables
    AddedColumns <- MCAdded
    Renamed <- MCRenamedCheck
    Inserts <- MCInsertsRenamed
    Wheres <- MCWheres
    Queries <- MCQueries
    Patterns <- MCPatterns
    Updates <- MCUpdates
    HashValue <- MCHash
    LeastBuckets = 2
    Selects <- MCSelects
VIEW View
CONSTRAINT Bounded
INVARIANT CheckHolds
