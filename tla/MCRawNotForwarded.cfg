\* Instructions annotated with a RAW hazard that read the register file.
CONSTANTS
    XLEN = 16
    IMEM_WORDS = 8
    DMEM_WORDS = 4
    PROGRAMS <- ShortPrograms
    PRELOADS <- OnePreload
    MAX_CYCLES = 16
    SEQUENCES = 1
SPECIFICATION TraceSpec
INVARIANT AnnotatedRawIsForwarded
CHECK_DEADLOCK FALSE
