\* Every report of up to five commits of five kinds against every list of up to five
\* of three kinds, and against lists of different ones.
CONSTANTS
    LOOKAHEAD = 4
    Commits <- Kinds
    EXPECTED <- AllLists
    MAX_ACTUAL = 5
SPECIFICATION Spec
INVARIANTS Accounted CleanMeansEqual EqualMeansClean ErrorsCoverFaults DropIsPinpointed
CHECK_DEADLOCK FALSE
