---------------------------- MODULE AluSequences ----------------------------
(***************************************************************************)
(* cpp_tb/alu/alu_sequence.h.  generate() of a sequence built with the     *)
(* parameter n is given by how many transactions it returns and by what    *)
(* the k-th may be, k from 0.                                              *)
(***************************************************************************)
EXTENDS AluCoverage, Sequences

CONSTANTS
    BIASED,      \* what biased_operand may draw for a script
    DRAWN32,     \* what a draw of 32 bits may be in a script
    RANDOM_OPS   \* what random_op may draw for a script

ASSUME SequenceAssumption ==
    BIASED \subseteq Word /\ DRAWN32 \subseteq Word /\ RANDOM_OPS \subseteq AluOp

\* kAluOpNames: the operations in the order of their codes.
OPS == <<"ADD", "SUB", "AND", "OR", "XOR", "SLT", "SLL", "SRL", "SLTU", "SRA">>

BasicSequence == << <<"ADD", 10, 5>>, <<"SUB", 0, 0>>, <<"SRA", MIN_WORD, 1>> >>

\* Longer literals keep their low bits; 0xF0000000 its top ones.
EdgeCaseSequence ==
    LET large == Trunc(305419896)    \* 0x12345678
        cafe  == Trunc(-889275714)   \* 0xCAFEBABE
        i_max == MIN_WORD - 1
    IN  << <<"SLL", PATTERNA, 0>>, <<"SLL", PATTERNA, 1>>, <<"SLL", PATTERNA, 31>>, <<"SLL", PATTERNA, 32>>,
           <<"SLL", PATTERNA, 63>>, <<"SLL", PATTERNA, large>>, <<"SRA", MIN_WORD, 1>>, <<"SRA", MAX_WORD, 1>>,
           <<"SRA", WordMod - WordMod \div 16, 4>>, <<"SRL", MIN_WORD, 1>>, <<"SRL", MAX_WORD, 1>>,
           <<"ADD", i_max, 1>>, <<"SUB", MIN_WORD, 1>>, <<"ADD", i_max, i_max>>, <<"SUB", MIN_WORD, MAX_WORD>>,
           <<"SLT", MAX_WORD, 1>>, <<"SLT", 1, MAX_WORD>>, <<"SLTU", MAX_WORD, 0>>, <<"SLTU", 0, MAX_WORD>>,
           <<"ADD", 0, 0>>, <<"SUB", 0, 0>>, <<"SUB", 42, 42>>, <<"AND", 0, cafe>>, <<"OR", 0, cafe>>,
           <<"XOR", 0, cafe>> >>

\* Faulty: no operand 0x80000000.
kSpecialValues_NoMin == <<0, MAX_WORD, MAX_WORD, MIN_WORD - 1, PATTERNA, PATTERN5>>

kSpecialValues == <<0, MAX_WORD, MIN_WORD, MIN_WORD - 1, PATTERNA, PATTERN5>>

\* Combination c of the sweep's three loops: a outermost, the operation innermost.
SweepCombination(c) == << OPS[(c % 10) + 1], kSpecialValues[(c \div 60) + 1], kSpecialValues[((c \div 10) % 6) + 1] >>

NegWords == {w \in DRAWN32 : Negative(w)}
PosWords == DRAWN32 \ NegWords

StressTransactions(phase) ==
    CASE phase = 1 -> RANDOM_OPS \X NegWords \X {31}
      [] phase = 3 -> {"ADD"} \X {MIN_WORD - 1} \X PosWords
      [] phase = 5 -> RANDOM_OPS \X BIASED \X MID_SHIFTS
      [] phase = 7 -> RANDOM_OPS \X NegWords \X NegWords
      [] phase = 9 -> RANDOM_OPS \X BIASED \X (1 .. 3)
      [] OTHER     -> RANDOM_OPS \X BIASED \X BIASED

SequenceNames == {"basic", "edge", "sweep", "stress", "op_sweep"}

Count(seq, n) ==
    CASE seq = "basic"    -> Len(BasicSequence)
      [] seq = "edge"     -> Len(EdgeCaseSequence)
      [] seq = "sweep"    -> 360 * n
      [] seq = "stress"   -> n
      [] seq = "op_sweep" -> 10 * n

generate(seq, n, k) ==
    CASE seq = "basic"    -> {BasicSequence[k + 1]}
      [] seq = "edge"     -> {EdgeCaseSequence[k + 1]}
      [] seq = "sweep"    -> {SweepCombination(k \div n)}
      [] seq = "stress"   -> StressTransactions(k % 20)
      [] seq = "op_sweep" -> {OPS[(k \div n) + 1]} \X BIASED \X BIASED
=============================================================================
