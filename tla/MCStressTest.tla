---------------------------- MODULE MCStressTest ----------------------------
(* Instances of StressTest.                                                *)
EXTENDS StressTest

G == INSTANCE ProgramGen

\* The sequences of seed 0, in the order of the code.
StressWarmup == <<
    G!prog_arith_basic, G!prog_data_forwarding, G!prog_load_use, G!prog_branch_taken,
    G!prog_branch_not_taken, G!prog_bne_loop, G!prog_jal_link, G!prog_full,
    G!prog_deep_dep_chain, G!prog_back_to_back_control, G!prog_load_use_branch_operand,
    G!prog_store_load_adjacent, G!prog_overlapping_hazards, G!prog_imm_edge_cases >>

\* The directed sequences of run_regression_test, whose one environment does what
\* seed 0's own does.
RegressionWarmup == SubSeq(StressWarmup, 1, 8) \o <<G!prog_imm_edge_cases>>

Warmups == {StressWarmup, RegressionWarmup}

\* Random slots that depend on what ran just before, here or in the sequence before.
Slots == { <<G!Addi(10, 1, 5)>>, <<G!Lw(3, 1, 4), G!Addi(10, 3, -1)>>, <<G!Sw(2, 1, 0)>>,
           <<G!Bne(3, 2, 8), G!NOP>>, <<G!Beq(10, 3, 8), G!NOP>>, <<G!Jal(9, 8), G!NOP>>,
           <<G!Add(5, 10, 9)>> }

SeedPrograms == { G!ConstrainedSeeds \o a \o b \o <<G!Halt>> : a, b \in Slots }
AllPrograms  == SeedPrograms \cup G!DirectedPrograms
NoPreload    == { <<>> }
=============================================================================
