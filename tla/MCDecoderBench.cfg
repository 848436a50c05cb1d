\* The coverage-driven flow, every single defect under the scripted sequences, and the
\* feedback loop from an empty coverage.
CONSTANTS
    XLEN = 30
    TESTS <- AllTests
    THRESHOLD = 10
    HIT_CAP = 10
    R5 = {7}
    RANDOM_REGS = {9}
    IMM12S = {5}
    B_OFFSETS = {8}
    J_OFFSETS = {8}
    SHAMTS = {2}
    RANDOM_CLASSES <- FewClasses
SPECIFICATION Spec
INVARIANTS TypeOK NoFalseAlarm PhasesDeliver LoopSeesWhatIsMissing DefectsAreCaught ViolationsAreErrors TargetsLand
CHECK_DEADLOCK FALSE
