---------------------------- MODULE DecoderGolden ----------------------------
(***************************************************************************)
(* The decoder unit testbench has three decoders: the RTL (Decoder.tla),   *)
(* the C++ device under test (cpp_tb/decoder/decoder.cpp) and the golden   *)
(* model it is judged by (decoder_golden.h).  This module adds the last    *)
(* two, the classification of instructions and the structural assertions   *)
(* on a decoder's outputs (decoder_assertions.h).                          *)
(***************************************************************************)
EXTENDS ProgramGen

(* encode::r, i, i_shift, s, b and j: those of program_gen.h with the       *)
(* arguments in another order.                                              *)
encode_r(funct7, rs2, rs1, funct3, rd)       == enc_R(funct7 % 128, rs2, rs1, funct3, rd, R_TYPE)
encode_i(opcode, funct3, rd, rs1, imm12)     == enc_I(imm12, rs1, funct3, rd, opcode)
encode_i_shift(funct7, funct3, rd, rs1, sh)  == enc_R(funct7 % 128, sh % 32, rs1, funct3, rd, I_TYPE)
encode_s(rs1, rs2, imm12)                    == enc_S(imm12, rs2, rs1, 2, STORE)
encode_b(rs1, rs2, funct3, offset)           == enc_B(offset, rs2, rs1, funct3)
encode_j(rd, offset)                         == enc_J(offset, rd)

-----------------------------------------------------------------------------
(* Both C++ decoders sign-extend by testing the sign bit of the raw field   *)
(* and filling in the bits above it.                                        *)

sign_extend(raw, sign) == Trunc(IF (raw \div sign) % 2 = 1 THEN raw - 2 * sign ELSE raw)

i_type(i) == sign_extend(i.funct7 * 32 + i.rs2, 2048)
s_type(i) == sign_extend(i.funct7 * 32 + i.rd, 2048)
b_type(i) == sign_extend((i.funct7 \div 64) * 4096 + (i.rd % 2) * 2048
                            + (i.funct7 % 64) * 32 + (i.rd \div 2) * 2, 4096)
j_type(i) == sign_extend((i.funct7 \div 64) * 1048576 + (i.rs1 * 8 + i.funct3) * 4096
                            + (i.rs2 % 2) * 2048 + (i.funct7 % 64) * 32 + (i.rs2 \div 2) * 2, 1048576)

\* The operation funct3 selects before funct7 is looked at.
Funct3Op(f3) ==
    CASE f3 = 0 -> "ADD" [] f3 = 1 -> "SLL" [] f3 = 2 -> "SLT" [] f3 = 3 -> "SLTU"
      [] f3 = 4 -> "XOR" [] f3 = 5 -> "SRL" [] f3 = 6 -> "OR"  [] f3 = 7 -> "AND"

golden_r_op(i) == CASE i.funct7 = 32 /\ i.funct3 = 0 -> "SUB"
                    [] i.funct7 = 32 /\ i.funct3 = 5 -> "SRA"
                    [] OTHER                         -> Funct3Op(i.funct3)

golden_i_op(i) == IF i.funct7 = 32 /\ i.funct3 = 5 THEN "SRA" ELSE Funct3Op(i.funct3)

golden_decode(i) ==
    CASE i.opcode = R_TYPE -> Signals(i, 0, golden_r_op(i), {"reg_write"})
      [] i.opcode = I_TYPE -> Signals(i, i_type(i), golden_i_op(i), {"reg_write", "alu_src"})
      [] i.opcode = LOAD   -> Signals(i, i_type(i), "ADD", {"reg_write", "alu_src", "mem_read", "mem_to_reg"})
      [] i.opcode = STORE  -> Signals(i, s_type(i), "ADD", {"alu_src", "mem_write"})
      [] i.opcode = BRANCH -> Signals(i, b_type(i), "SUB",
                                  {"branch"} \cup {t \in {"branch_type"} : i.funct3 % 2 = 1})
      [] i.opcode = JAL    -> Signals(i, j_type(i), "ADD", {"jump", "reg_write", "alu_src"})
      [] OTHER             -> Signals(i, 0, "ADD", {})

-----------------------------------------------------------------------------
(* decoder.cpp, the device under test.                                      *)

dut_r_op(i) == CASE i.funct3 = 0 -> IF i.funct7 = 32 THEN "SUB" ELSE "ADD"
                 [] i.funct3 = 5 -> IF i.funct7 = 32 THEN "SRA" ELSE "SRL"
                 [] OTHER        -> Funct3Op(i.funct3)

\* Where the golden model wants all of funct7 to say SRAI, the device looks at
\* bit 30 of the word only.
dut_i_op(i) == IF i.funct3 = 5 /\ (i.funct7 \div 32) % 2 = 1 THEN "SRA" ELSE Funct3Op(i.funct3)

dut_decode(i) ==
    CASE i.opcode = R_TYPE -> Signals(i, 0, dut_r_op(i), {"reg_write"})
      [] i.opcode = I_TYPE -> Signals(i, i_type(i), dut_i_op(i), {"alu_src", "reg_write"})
      [] i.opcode = LOAD   -> Signals(i, i_type(i), "ADD", {"alu_src", "mem_to_reg", "mem_read", "reg_write"})
      [] i.opcode = STORE  -> Signals(i, s_type(i), "ADD", {"alu_src", "mem_write"})
      [] i.opcode = BRANCH -> Signals(i, b_type(i), "SUB",
                                  IF i.funct3 % 2 = 0 THEN {"branch"} ELSE {"branch", "branch_type"})
      [] i.opcode = JAL    -> Signals(i, j_type(i), "ADD", {"alu_src", "jump", "reg_write"})
      [] OTHER             -> Signals(i, 0, "ADD", {})

-----------------------------------------------------------------------------
(* decoder_assertions.h: one failure per broken rule, one per register      *)
(* field that is not the instruction's.                                     *)

Opcodes == {R_TYPE, I_TYPE, LOAD, STORE, BRANCH, JAL}

\* The control signals assertion 6 and the coverage mask look at.
ControlSignals == {"reg_write", "alu_src", "mem_read", "mem_write", "mem_to_reg", "branch", "jump"}
Raised(out) == {s \in ControlSignals : out[s]}

Failures(i, out) ==
    {r \in {"mutual_exclusion", "reg_write_consistency", "mem_consistency", "alu_src_consistency",
            "branch_jump_exclusive", "illegal_opcode_default", "rs1", "rs2", "rd"} :
       CASE r = "mutual_exclusion"       -> out.mem_read /\ out.mem_write
         [] r = "reg_write_consistency"  -> i.opcode \in {STORE, BRANCH} /\ out.reg_write
         [] r = "mem_consistency"        -> out.mem_to_reg /\ ~out.mem_read
         [] r = "alu_src_consistency"    -> i.opcode = R_TYPE /\ out.alu_src
         [] r = "branch_jump_exclusive"  -> out.branch /\ out.jump
         [] r = "illegal_opcode_default" -> i.opcode \notin Opcodes /\ Raised(out) # {}
         [] r \in {"rs1", "rs2", "rd"}   -> out[r] # i[r]}
=============================================================================
