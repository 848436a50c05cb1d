\* Every four-instruction program over the pool, and some abandoned at every point with
\* every next one behind them.
CONSTANTS
    XLEN = 16
    IMEM_WORDS = 8
    DMEM_WORDS = 4
    PROGRAMS <- MCPrograms
    PRELOADS <- OnePreload
    MAX_CYCLES = 16
    SEQUENCES = 3
SPECIFICATION MCSpec
INVARIANTS TypeOK Coherent StallExcludesRedirect CycleAccount ForwardsAreAnnotated
PROPERTIES ExecutesInOrder AssertionsHold
CHECK_DEADLOCK FALSE
