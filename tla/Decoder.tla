------------------------------- MODULE Decoder -------------------------------
(***************************************************************************)
(* rtl/rv32i_decoder.sv.  An instruction word is the record of the six     *)
(* bit fields every RV32I format cuts it into:                             *)
(*   [31:25] funct7  [24:20] rs2  [19:15] rs1  [14:12] funct3              *)
(*   [11:7]  rd      [6:0]   opcode                                        *)
(* The record and the 32-bit word determine each other, so the immediates, *)
(* which cut the word differently, are computed from the fields.           *)
(***************************************************************************)
EXTENDS Alu

R_TYPE == 51      \* 7'b0110011
I_TYPE == 19      \* 7'b0010011
LOAD   == 3       \* 7'b0000011
STORE  == 35      \* 7'b0100011
BRANCH == 99      \* 7'b1100011
JAL    == 111     \* 7'b1101111

RegIndex == 0 .. 31

Instr == [opcode : 0 .. 127, rd : RegIndex, funct3 : 0 .. 7,
          rs1 : RegIndex, rs2 : RegIndex, funct7 : 0 .. 127]

\* The all-zero word: an unassigned opcode, decoded as a NOP.
ZeroInstr == [opcode |-> 0, rd |-> 0, funct3 |-> 0, rs1 |-> 0, rs2 |-> 0, funct7 |-> 0]

imm_i(i) == SignExtend(i.funct7 * 32 + i.rs2, 2048)
imm_s(i) == SignExtend(i.funct7 * 32 + i.rd, 2048)

\* {instr[31], instr[7], instr[30:25], instr[11:8], 0}
imm_b(i) == SignExtend(
    (i.funct7 \div 64) * 4096 + (i.rd % 2) * 2048
      + (i.funct7 % 64) * 32 + (i.rd \div 2) * 2, 4096)

\* {instr[31], instr[19:12], instr[20], instr[30:21], 0}
imm_j(i) == SignExtend(
    (i.funct7 \div 64) * 1048576 + (i.rs1 * 8 + i.funct3) * 4096
      + (i.rs2 % 2) * 2048 + (i.funct7 % 64) * 32 + (i.rs2 \div 2) * 2, 1048576)

RTypeAluOp(i) ==
    CASE i.funct3 = 0 -> IF i.funct7 = 32 THEN "SUB" ELSE "ADD"
      [] i.funct3 = 7 -> "AND"
      [] i.funct3 = 6 -> "OR"
      [] i.funct3 = 4 -> "XOR"
      [] i.funct3 = 2 -> "SLT"
      [] i.funct3 = 3 -> "SLTU"
      [] i.funct3 = 1 -> "SLL"
      [] i.funct3 = 5 -> IF i.funct7 = 32 THEN "SRA" ELSE "SRL"

\* Faulty: SRAI decoded as SRLI.
ITypeAluOp_NoSrai(i) ==
    CASE i.funct3 = 0 -> "ADD" [] i.funct3 = 2 -> "SLT" [] i.funct3 = 3 -> "SLTU"
      [] i.funct3 = 4 -> "XOR" [] i.funct3 = 6 -> "OR"  [] i.funct3 = 7 -> "AND"
      [] i.funct3 = 1 -> "SLL" [] i.funct3 = 5 -> "SRL"

\* SRAI is told from SRLI by funct7[5] alone; ADDI ignores funct7.
ITypeAluOp(i) ==
    CASE i.funct3 = 0 -> "ADD"
      [] i.funct3 = 2 -> "SLT"
      [] i.funct3 = 3 -> "SLTU"
      [] i.funct3 = 4 -> "XOR"
      [] i.funct3 = 6 -> "OR"
      [] i.funct3 = 7 -> "AND"
      [] i.funct3 = 1 -> "SLL"
      [] i.funct3 = 5 -> IF (i.funct7 \div 32) % 2 = 1 THEN "SRA" ELSE "SRL"

\* The decoder's outputs: the register fields always, then the signals a format
\* raises; `on` names the one-bit signals that are 1.
Signals(i, imm, alu_op, on) ==
    [rs1 |-> i.rs1, rs2 |-> i.rs2, rd |-> i.rd, imm |-> imm, alu_op |-> alu_op,
     reg_write   |-> "reg_write"   \in on, mem_read   |-> "mem_read"   \in on,
     mem_write   |-> "mem_write"   \in on, mem_to_reg |-> "mem_to_reg" \in on,
     alu_src     |-> "alu_src"     \in on, branch     |-> "branch"     \in on,
     branch_type |-> "branch_type" \in on, jump       |-> "jump"       \in on]

Decode(i) ==
    CASE i.opcode = R_TYPE -> Signals(i, 0, RTypeAluOp(i), {"reg_write"})
      [] i.opcode = I_TYPE -> Signals(i, imm_i(i), ITypeAluOp(i), {"reg_write", "alu_src"})
      [] i.opcode = LOAD   -> Signals(i, imm_i(i), "ADD",
                                  {"reg_write", "alu_src", "mem_read", "mem_to_reg"})
      [] i.opcode = STORE  -> Signals(i, imm_s(i), "ADD", {"alu_src", "mem_write"})
      [] i.opcode = BRANCH -> Signals(i, imm_b(i), "SUB",
                                  {"branch"} \cup (IF i.funct3 % 2 = 1 THEN {"branch_type"} ELSE {}))
      [] i.opcode = JAL    -> Signals(i, imm_j(i), "ADD", {"reg_write", "alu_src", "jump"})
      [] OTHER             -> Signals(i, 0, "ADD", {})

DecodedSignals ==
    [rs1 : RegIndex, rs2 : RegIndex, rd : RegIndex, imm : Word, alu_op : AluOp,
     reg_write : BOOLEAN, mem_read : BOOLEAN, mem_write : BOOLEAN,
     mem_to_reg : BOOLEAN, alu_src : BOOLEAN, branch : BOOLEAN,
     branch_type : BOOLEAN, jump : BOOLEAN]
=============================================================================
