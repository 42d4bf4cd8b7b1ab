SPECIFICATION Spec
CONSTANTS
    Thread = {t1, t2}
    InitialFrames = 1
    MaxFrames = 2
    MaxPages = 3
SYMMETRY Symmetry
INVARIANT TypeOK
INVARIANT DirectoryAgrees
INVARIANT PointersStayGood
INVARIANT NothingIsLost
PROPERTY LogComesFirst
PROPERTY GrowsOnlyWhenFull
