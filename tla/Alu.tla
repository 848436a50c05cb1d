--------------------------------- MODULE Alu ---------------------------------
(***************************************************************************)
(* rtl/rv32i_alu.sv: the combinational ALU.  The 4-bit alu_op codes are    *)
(* named after the operations they select.                                 *)
(***************************************************************************)
EXTENDS Word

AluOp == {"ADD", "SUB", "AND", "OR", "XOR", "SLT", "SLL", "SRL", "SLTU", "SRA"}

\* Faulty: b[3:0].
ShAmt_Narrow(b) == b % 16

\* b[4:0]
ShAmt(b) == b % 32

AluResult(alu_op, a, b) ==
    CASE alu_op = "ADD"  -> Plus(a, b)
      [] alu_op = "SUB"  -> Minus(a, b)
      [] alu_op = "AND"  -> BitAnd(a, b)
      [] alu_op = "OR"   -> BitOr(a, b)
      [] alu_op = "XOR"  -> BitXor(a, b)
      [] alu_op = "SLT"  -> Flag(Signed(a) < Signed(b))
      [] alu_op = "SLL"  -> ShiftLeft(a, ShAmt(b))
      [] alu_op = "SRL"  -> ShiftRight(a, ShAmt(b))
      [] alu_op = "SLTU" -> Flag(a < b)
      [] alu_op = "SRA"  -> ShiftRightArith(a, ShAmt(b))
      [] OTHER           -> 0

AluZero(result) == result = 0
=============================================================================
