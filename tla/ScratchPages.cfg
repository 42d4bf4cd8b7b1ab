SPECIFICATION OwnersSpec
CONSTANTS
    Session = {s1, s2}
    MaxSessions = 2
    FileBacked = TRUE
    None = None
    Table = {t1}
    MaxPages = 3
CHECK_DEADLOCK FALSE
INVARIANT SelectChangesNoData
