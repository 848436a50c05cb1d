\* Two sequences in a row, each any program of the batch.
CONSTANTS
    XLEN = 16
    IMEM_WORDS = 8
    DMEM_WORDS = 4
    PROGRAMS <- Batch
    PRELOADS <- OnePreload
    LOOKAHEAD = 4
    MAX_INSTRS = 60
    CYCLES_PER_WORD = 3
    EXTRA_CYCLES = 5
    RESET_CLOCKS = 2
    DRAIN_CLOCKS = 8
    SEQUENCES = 2
SPECIFICATION Spec
INVARIANTS TypeOK NoFalseAlarm HaltedRunsAgree TimeoutIsAnError
CHECK_DEADLOCK FALSE
