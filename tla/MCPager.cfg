SPECIFICATION Spec
CONSTANTS
    Value = {v1, v2}
    Blank = Blank
    Torn = Torn
    MaxPages = 3
    MaxStatements = 2
    MaxCrashes = 2
    CrashAgain <- Recovering
    Faults = {}
SYMMETRY Symmetry
CONSTRAINT UntilSecondRecovery
ACTION_CONSTRAINT InPageOrder
INVARIANT TypeOK
INVARIANT ReadsLatest
INVARIANT WriteAhead
PROPERTY LogBeforeFile
PROPERTY ImplementsAtomicStore
