SPECIFICATION FairSpec
CONSTANTS
    Value = {v1}
    Blank = Blank
    Torn = Torn
    MaxPages = 2
    MaxStatements = 1
    MaxCrashes = 2
    CrashAgain <- Phases
    Faults = {"statement", "append", "flush", "truncate"}
ACTION_CONSTRAINT InPageOrder
CHECK_DEADLOCK FALSE
INVARIANT CleanMatchesFile
PROPERTY FileIsBeforeImage
PROPERTY Returns
