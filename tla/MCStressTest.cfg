\* The stress test, two seeds long, and the directed part of the regression.
CONSTANTS
    XLEN = 30
    IMEM_WORDS = 256
    DMEM_WORDS = 256
    PROGRAMS <- AllPrograms
    PRELOADS <- NoPreload
    SEEDS = 2
    WARMUPS <- Warmups
    SEED_PROGRAMS <- SeedPrograms
SPECIFICATION Spec
INVARIANTS GroupsAgree SeedsAddUp DirectedClose
CHECK_DEADLOCK FALSE
