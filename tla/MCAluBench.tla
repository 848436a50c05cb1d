----------------------------- MODULE MCAluBench -----------------------------
(* Instances of the ALU unit testbench.                                      *)
EXTENDS AluBench

Test(seqs, transactions, passes, d) ==
    [plan |-> seqs, num_transactions |-> transactions, max_driven_passes |-> passes, dut |-> d]

\* The basic sequence and the two scripted phases of alu_env_uvm.h, the sweep with its
\* own count, around alu.cpp and around the RTL.
FlowTests ==
    { Test(<< <<"basic", 1>>, <<"sweep", 15>>, <<"stress", 11>> >>, 0, 0, d) : d \in {<<"alu.cpp">>, <<"rtl">>} }

\* SLT and SLTU have one bit, so that the others are stuck at 0 by design.
SingleDefects ==
    { d \in {"op"} \X AluOp \X AluOp : d[2] # d[3] }
      \cup ({"zero"} \X AluOp \X BOOLEAN)
      \cup { d \in {"bit"} \X AluOp \X BitPos \X {0, 1} : d[2] \in {"SLT", "SLTU"} => d[3] = 0 \/ d[4] = 1 }

\* The directed test of alu_test_uvm.h, which repeats less than the code does.
DefectTests ==
    { Test(<< <<"edge", 1>>, <<"sweep", 1>>, <<"op_sweep", 1>> >>, 0, 0, d) : d \in SingleDefects }

\* One driven transaction from an empty coverage, where any bin may be aimed at.
LoopTest == Test(<< >>, 1, 1, <<"rtl">>)

AimedTests == {LoopTest}
AllTests  == FlowTests \cup DefectTests \cup {LoopTest}
AllOps    == AluOp
ManyWords == {w \in Word : w < 36 \/ w % 8 \in {0, 5, 7} \/ w \in {PATTERN5, PATTERNA}}
TwoWords  == {5, MAX_WORD - 3}
=============================================================================
