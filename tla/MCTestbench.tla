---------------------------- MODULE MCTestbench ----------------------------
(* Instances of Testbench: batches of sequences on one pipeline.           *)
EXTENDS Testbench

G == INSTANCE ProgramGen

\* Instructions around the loads, stores and redirects; Jal(0, -4) makes loops.
Middle == { G!Addi(1, 1, 5), G!Lw(2, 0, 0), G!Sw(1, 0, 0), G!Sw(2, 0, 4),
            G!Bne(1, 2, 8), G!Jal(1, 8), G!Jal(0, -4) }

Batch == { <<G!Addi(1, 0, 3), a, b, G!Add(1, 1, 2), G!Sw(1, 0, 4), G!Halt>>
             : a, b \in Middle }
         \cup { <<G!Addi(1, 0, 3), G!Sw(1, 0, 4)>> }      \* runs off the end of memory

OnePreload == { [w \in {0, 1} |-> IF w = 0 THEN 9 ELSE 4] }

\* The directed sequences of pipe_sequence.h, which preload nothing.
Directed  == G!DirectedPrograms
NoPreload == { <<>> }
=============================================================================
