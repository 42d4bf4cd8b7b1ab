SPECIFICATION Spec
CONSTANTS
    Value = {v1}
    Blank = Blank
    Torn = Torn
    MaxPages = 2
    MaxStatements = 2
    MaxCrashes = 1
    CrashAgain = {}
    Faults = {"append"}
INVARIANT MarkersAreReached
