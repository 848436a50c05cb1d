\* The directed programs with the sizes and budgets of the code, on 30-bit words.
CONSTANTS
    XLEN = 30
    IMEM_WORDS = 256
    DMEM_WORDS = 256
    PROGRAMS <- Directed
    PRELOADS <- NoPreload
    LOOKAHEAD = 4
    MAX_INSTRS = 8000
    CYCLES_PER_WORD = 8
    EXTRA_CYCLES = 100
    RESET_CLOCKS = 5
    DRAIN_CLOCKS = 8
    SEQUENCES = 1
SPECIFICATION Spec
INVARIANTS HaltedRunsAgree EveryProgramHalts
CHECK_DEADLOCK FALSE
