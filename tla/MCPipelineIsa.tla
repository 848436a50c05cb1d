---------------------------- MODULE MCPipelineIsa ----------------------------
(* The pipeline with the trace of the reference model beside it: every     *)
(* program of a few words over a pool of instructions that meet each       *)
(* other's hazards, and some programs that are abandoned anywhere.         *)
EXTENDS HazardTrace

G == INSTANCE ProgramGen

\* Two registers and two memory words, so that nearly every pair of neighbours
\* depends on one another; every class of instruction; x0 as a destination.
Pool == {
    G!Addi(1, 1, 5), G!Add(2, 1, 2), G!Sub(1, 2, 1),
    G!Lw(1, 0, 0), G!Lw(2, 1, 4), G!Lw(0, 0, 0), G!Sw(1, 0, 0), G!Sw(2, 1, 0),
    G!Beq(1, 2, 8), G!Bne(1, 0, 8), G!Bne(2, 1, -4), G!Jal(1, 8), G!Jal(0, -4) }

ShortPrograms == { <<a, b, c, d>> \o <<G!Addi(2, 1, 1), G!Halt>> : a, b, c, d \in Pool }

OnePreload == { [w \in {0, 1} |-> IF w = 0 THEN 9 ELSE 4] }

\* Programs with stores, loads and redirects in flight, to be abandoned anywhere.
Abandoned == { <<G!Addi(1, 0, 5), G!Sw(1, 0, 0), G!Lw(2, 0, 0), G!Sw(2, 0, 4), G!Halt>>,
               <<G!Addi(1, 1, 7), G!Sw(1, 0, 4), G!Jal(0, -8)>>,
               <<G!Lw(1, 0, 0), G!Beq(1, 1, 8), G!Sw(1, 0, 0), G!Jal(2, 4), G!Sw(2, 0, 8)>>,
               <<G!Jal(1, 8), G!Halt, G!Sw(1, 0, 12), G!Bne(1, 0, -12)>> }

MCPrograms == ShortPrograms \cup Abandoned

\* The short programs run alone; each of the others is abandoned at every point, twice,
\* with each of them behind it.
AbandonedImages == {LoadedImem(prog) : prog \in Abandoned}

MCBegin ==
    /\ instr_mem \in AbandonedImages
    /\ instr_mem' \in AbandonedImages
    /\ TraceBegin

MCNext == MCBegin \/ TraceReset \/ TraceStep \/ TraceBubble

MCSpec == TraceInit /\ [][MCNext]_trace_vars
=============================================================================
