SPECIFICATION FairSpec
CONSTANTS
    Session = {s1, s2, s3, s4}
    MaxSessions = 3
    FileBacked = TRUE
    None = None
CHECK_DEADLOCK FALSE
INVARIANT TransactionHasOwner
INVARIANT ReadersSeeNoTransaction
INVARIANT NoLockLeft
INVARIANT SlotsAreEnough
PROPERTY WaitersAreServed
