--------------------------- MODULE MCDecoderBench ---------------------------
(* Instances of the decoder unit testbench.                                  *)
EXTENDS DecoderBench

\* The flow of decoder_env_uvm.h with its own rounds, and a pass of the loop after it.
Flow == << <<"directed", 1>>, <<"illegal", 1>>, <<"boundary", 5>>, <<"regzero", 5>>,
           <<"rtype_f7", 10>>, <<"biased", 2>> >>
Test(seqs, transactions, passes, d) ==
    [plan |-> seqs, num_transactions |-> transactions, max_driven_passes |-> passes, defect |-> d]

FlowTest == Test(Flow, 2, 1, SoundDevice)

\* The loop from an empty coverage, where any bin may be aimed at.
LoopTest == Test(<< >>, 1, 2, SoundDevice)

(* One opcode each: a control signal stuck at the value it should not have,  *)
(* one operation taken for another, one bit of the immediate stuck.          *)
Defect(op, what, name, value) == [opcode |-> op, what |-> what, name |-> name, value |-> value]

Sample(op) == Encoded(0, 0, 0, 0, 0, op)
SignalDefects ==
    { Defect(op, "signal", s, ~dut_decode(Sample(op))[s]) :
        op \in Opcodes \cup {0}, s \in ControlSignals \cup {"branch_type"} }
AluDefects ==
    { Defect(op, "alu_op", name, value) : op \in {R_TYPE, I_TYPE}, name \in AluOp \ {"SUB"}, value \in {"SUB"} }
      \cup { Defect(op, "alu_op", "ADD", "SLT") : op \in {LOAD, STORE, JAL, 0} }
      \cup { Defect(R_TYPE, "alu_op", "SUB", "ADD"), Defect(BRANCH, "alu_op", "SUB", "ADD") }
ImmDefects ==
    { Defect(op, "imm", n, v) : op \in {I_TYPE, LOAD, STORE}, n \in {0, 1, 10, 11, 12, 29}, v \in {0, 1} }
      \cup { Defect(op, "imm", n, v) : op \in {BRANCH, JAL}, n \in {1, 11, 12, 19, 20, 29}, v \in {0, 1} }
      \cup { Defect(op, "imm", n, 1) : op \in {R_TYPE, BRANCH, JAL, 0}, n \in {0} }
SingleDefects == SignalDefects \cup AluDefects \cup ImmDefects

\* Each defect under the scripted sequences alone.
DefectTests == { Test(<< <<"directed", 1>>, <<"illegal", 1>> >>, 0, 0, d) : d \in SingleDefects }

AllTests   == {FlowTest, LoopTest} \cup DefectTests
FewClasses == { <<R_TYPE, "ADD">>, SW, BNE }
=============================================================================
