\* Longer programs are asked for than the caps allow: three or four slots each.
CONSTANTS
    XLEN = 16
    IMEM_WORDS = 15
    DMEM_WORDS = 4
    PROGRAMS <- NoPrograms
    PRELOADS <- NoPrograms
    N = 6
    MAX_PROG = 12
    MAX_SLOTS = 14
    BRANCH_BUDGET = 1
    REGS = {2}
    IMMS <- SomeImms
    OFFSETS = {0, 4}
SPECIFICATION FairSpec
INVARIANTS TypeOK FitsImem
PROPERTIES RunsForward ReachesHalt
CHECK_DEADLOCK FALSE
