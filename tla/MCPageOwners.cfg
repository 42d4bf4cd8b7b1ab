SPECIFICATION OwnersSpec
CONSTANTS
    Session = {s1, s2}
    MaxSessions = 2
    FileBacked = TRUE
    None = None
    Table = {t1, t2}
    MaxPages = 3
SYMMETRY Symmetry
CONSTRAINT StopAtOutlived
CHECK_DEADLOCK FALSE
INVARIANT OneOwner
PROPERTY TablesKeepStill
