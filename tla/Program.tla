------------------------------- MODULE Program -------------------------------
(***************************************************************************)
(* What a test sequence is (cpp_tb/pipeline/pipe_sequence.h) and what the  *)
(* two memories hold once it is loaded.                                    *)
(***************************************************************************)
EXTENDS Decoder, Sequences

CONSTANTS
    IMEM_WORDS,   \* words of instruction memory (256 in the code)
    DMEM_WORDS,   \* words of data memory (256 in the code)
    PROGRAMS,     \* the programs that may be loaded: sequences of Instr
    PRELOADS      \* the data preloads: functions from some word addresses to Word

ASSUME MemoryAssumption == IMEM_WORDS \in Nat \ {0} /\ DMEM_WORDS \in Nat \ {0}

ASSUME ProgramAssumption ==
    /\ \A prog \in PROGRAMS : prog \in Seq(Instr)
    /\ \A pre \in PRELOADS : \A w \in DOMAIN pre : pre[w] \in Word

\* load_program clears both memories, then copies the program; preload_dmem
\* ignores addresses past the memory.
LoadedImem(prog) ==
    [w \in 0 .. IMEM_WORDS - 1 |-> IF w < Len(prog) THEN prog[w + 1] ELSE ZeroInstr]
LoadedDmem(pre) ==
    [w \in 0 .. DMEM_WORDS - 1 |-> IF w \in DOMAIN pre THEN pre[w] ELSE 0]

ImemImages == { LoadedImem(prog) : prog \in PROGRAMS }
DmemImages == { LoadedDmem(pre) : pre \in PRELOADS }
=============================================================================
