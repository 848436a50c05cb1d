\* One transaction aimed at any bin, from an empty coverage.
CONSTANTS
    XLEN = 8
    TESTS <- AimedTests
    THRESHOLD = 10
    BIASED = {5}
    DRAWN32 <- TwoWords
    RANDOM_OPS = {"SRA"}
    RANDOM32 <- ManyWords
    MID_SHIFTS = {4, 30}
    DRIVEN_WORDS <- ManyWords
    DRIVEN_OPS <- AllOps
SPECIFICATION Spec
INVARIANT LandsInRequestedBin
CHECK_DEADLOCK FALSE
