\* The scripted phases of the flow, every single defect under the directed test, and one
\* transaction of a driven pass over a wide grid of operands.
CONSTANTS
    XLEN = 8
    TESTS <- AllTests
    THRESHOLD = 10
    BIASED = {5}
    DRAWN32 <- TwoWords
    RANDOM_OPS = {"SRA"}
    RANDOM32 <- ManyWords
    MID_SHIFTS = {4, 30}
    DRIVEN_WORDS <- ManyWords
    DRIVEN_OPS <- AllOps
SPECIFICATION Spec
INVARIANTS TypeOK NoFalseAlarm SequencesDeliver DefectsAreCaught ReachabilityIsOneSided TargetsLand
CHECK_DEADLOCK FALSE
