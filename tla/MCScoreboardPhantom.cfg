\* One commit too many in an otherwise correct run.
CONSTANTS
    LOOKAHEAD = 4
    Commits <- Kinds
    EXPECTED <- DistinctLists
    MAX_ACTUAL = 4
SPECIFICATION Spec
INVARIANT PhantomCostsOneError
CHECK_DEADLOCK FALSE
