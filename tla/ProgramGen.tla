----------------------------- MODULE ProgramGen -----------------------------
(***************************************************************************)
(* cpp_tb/pipeline/program_gen.h: the encoders, the named instruction      *)
(* builders and the directed programs the testbench runs.  An encoded word *)
(* is the record of fields Decoder.tla cuts it into.                       *)
(***************************************************************************)
EXTENDS Decoder

Encoded(f7, rs2, rs1, f3, rd, op) ==
    [opcode |-> op, rd |-> rd, funct3 |-> f3, rs1 |-> rs1, rs2 |-> rs2, funct7 |-> f7]

enc_R(f7, rs2, rs1, f3, rd, op) == Encoded(f7, rs2, rs1, f3, rd, op)

enc_I(imm, rs1, f3, rd, op) ==
    LET n == imm % 4096 IN Encoded(n \div 32, n % 32, rs1, f3, rd, op)

enc_S(imm, rs2, rs1, f3, op) ==
    LET n == imm % 4096 IN Encoded(n \div 32, rs2, rs1, f3, n % 32, op)

enc_B(off, rs2, rs1, f3) ==
    LET n == off % 8192
    IN  Encoded((n \div 4096) * 64 + ((n \div 32) % 64), rs2, rs1, f3,
                ((n \div 2) % 16) * 2 + ((n \div 2048) % 2), BRANCH)

enc_J(off, rd) ==
    LET n == off % 2097152
        b19_12 == (n \div 4096) % 256
        b10_1  == (n \div 2) % 1024
    IN  Encoded((n \div 1048576) * 64 + (b10_1 \div 16), (b10_1 % 16) * 2 + ((n \div 2048) % 2),
                b19_12 \div 8, b19_12 % 8, rd, JAL)

NOP  == enc_I(0, 0, 0, 0, I_TYPE)
Halt == enc_J(0, 0)

Add(rd, rs1, rs2)  == enc_R(0, rs2, rs1, 0, rd, R_TYPE)
Sub(rd, rs1, rs2)  == enc_R(32, rs2, rs1, 0, rd, R_TYPE)
And(rd, rs1, rs2)  == enc_R(0, rs2, rs1, 7, rd, R_TYPE)
Or(rd, rs1, rs2)   == enc_R(0, rs2, rs1, 6, rd, R_TYPE)
Xor(rd, rs1, rs2)  == enc_R(0, rs2, rs1, 4, rd, R_TYPE)
Slt(rd, rs1, rs2)  == enc_R(0, rs2, rs1, 2, rd, R_TYPE)
Sltu(rd, rs1, rs2) == enc_R(0, rs2, rs1, 3, rd, R_TYPE)
Addi(rd, rs1, imm) == enc_I(imm, rs1, 0, rd, I_TYPE)
Ori(rd, rs1, imm)  == enc_I(imm, rs1, 6, rd, I_TYPE)
Andi(rd, rs1, imm) == enc_I(imm, rs1, 7, rd, I_TYPE)
Slli(rd, rs1, sh)  == enc_I(sh, rs1, 1, rd, I_TYPE)
Srli(rd, rs1, sh)  == enc_I(sh, rs1, 5, rd, I_TYPE)
Srai(rd, rs1, sh)  == enc_I(1024 + (sh % 32), rs1, 5, rd, I_TYPE)
Lw(rd, rs1, off)   == enc_I(off, rs1, 2, rd, LOAD)
Sw(rs2, rs1, off)  == enc_S(off, rs2, rs1, 2, STORE)
Beq(rs1, rs2, off) == enc_B(off, rs2, rs1, 0)
Bne(rs1, rs2, off) == enc_B(off, rs2, rs1, 1)
Jal(rd, off)       == enc_J(off, rd)
-----------------------------------------------------------------------------
(* The directed programs.                                                  *)

prog_arith_basic == <<
    Addi(1, 0, 10), Addi(2, 0, 5), NOP, NOP,
    Add(3, 1, 2), Sub(4, 1, 2), And(5, 1, 2), Or(6, 1, 2), Xor(7, 1, 2), NOP, NOP,
    Slt(8, 2, 1), Sltu(9, 2, 1), Slli(10, 1, 2), Srli(11, 1, 1), Srai(12, 1, 1), Halt >>

prog_data_forwarding == <<
    Addi(1, 0, 7), Add(2, 1, 1), Add(3, 2, 1), Add(4, 3, 2), Add(5, 4, 3),
    Addi(6, 5, -1), Xor(7, 6, 5), Or(8, 7, 6), And(9, 8, 7), Halt >>

prog_load_use == <<
    Addi(1, 0, 42), Sw(1, 0, 0), Addi(2, 0, 99), Sw(2, 0, 4),
    Lw(3, 0, 0), Add(4, 3, 0), Lw(5, 0, 4), Addi(6, 5, 1), Add(7, 4, 6), Halt >>

prog_branch_taken == <<
    Addi(1, 0, 10), Addi(2, 0, 10), Beq(1, 2, 8), Addi(3, 0, 99), Addi(4, 0, 42), Halt >>

prog_branch_not_taken == <<
    Addi(1, 0, 5), Addi(2, 0, 3), Beq(1, 2, 8), Addi(3, 0, 77), Addi(4, 0, 88), Halt >>

prog_bne_loop == <<
    Addi(1, 0, 5), Addi(2, 0, 0), Add(2, 2, 1), Addi(1, 1, -1), Bne(1, 0, -8), Halt >>

prog_jal_link == <<
    Addi(1, 0, 1), Jal(5, 8), Addi(3, 0, 99), Addi(4, 0, 77), Halt >>

prog_full == <<
    Addi(1, 0, 5), Addi(2, 0, 0), Jal(11, 8), NOP, NOP, Add(2, 2, 1), Addi(1, 1, -1),
    Bne(1, 0, -8), Sw(2, 0, 20), Lw(10, 0, 20), Addi(10, 10, 1), Addi(12, 11, 0), Halt >>

prog_deep_dep_chain == <<
    Addi(1, 0, 0), Addi(1, 1, 1), Addi(1, 1, 1), Addi(1, 1, 1), Addi(1, 1, 1),
    Addi(1, 1, 1), Addi(1, 1, 1), Addi(1, 1, 1), Addi(1, 1, 1),
    Add(1, 1, 1), Add(2, 1, 1), Add(1, 1, 2), Add(1, 1, 1), Halt >>

prog_back_to_back_control == <<
    Jal(1, 8), Addi(9, 0, 99), Addi(2, 0, 1), Beq(2, 0, 8), Addi(3, 0, 55),
    Jal(5, 8), Addi(6, 0, 99), Addi(4, 0, 77), Halt >>

prog_load_use_branch_operand == <<
    Addi(1, 0, 5), Sw(1, 0, 0), Addi(2, 0, 5), Lw(3, 0, 0), Beq(3, 2, 8),
    Addi(5, 0, 99), Addi(4, 0, 42), Halt >>

prog_store_load_adjacent == <<
    Addi(1, 0, 171), Sw(1, 0, 0), Lw(2, 0, 0), NOP, Add(3, 2, 0),
    Addi(4, 0, 205), Sw(4, 0, 4), NOP, NOP, NOP, Lw(5, 0, 4), NOP, Add(6, 5, 0),
    Addi(7, 0, 17), Sw(7, 0, 0), NOP, NOP, Lw(8, 0, 0), NOP, Add(9, 8, 0), Halt >>

prog_overlapping_hazards == <<
    Addi(1, 0, 10), Addi(2, 0, 10), Sw(1, 0, 0), Sw(2, 0, 4), Lw(3, 0, 0),
    Add(4, 3, 0), Lw(9, 0, 4), Beq(4, 1, 8), Addi(5, 0, 99), Add(6, 9, 0), Halt >>

prog_imm_edge_cases == <<
    Addi(1, 0, -1), Addi(2, 0, -2048), Addi(3, 0, 2047), Addi(4, 0, 0), NOP, NOP,
    Srai(5, 1, 31), Srli(6, 1, 31), NOP, NOP, Slt(7, 1, 1), Sltu(8, 1, 1), NOP, NOP,
    Slt(9, 2, 3), Sltu(10, 2, 3), NOP, NOP, Addi(11, 0, -1), Addi(12, 0, 1), NOP, NOP,
    Add(13, 11, 12), NOP, NOP, Addi(14, 0, -1), Addi(14, 14, -1), NOP, NOP,
    Andi(15, 3, -1), Ori(16, 4, -1), Halt >>

DirectedPrograms == {
    prog_arith_basic, prog_data_forwarding, prog_load_use, prog_branch_taken,
    prog_branch_not_taken, prog_bne_loop, prog_jal_link, prog_full,
    prog_deep_dep_chain, prog_back_to_back_control, prog_load_use_branch_operand,
    prog_store_load_adjacent, prog_overlapping_hazards, prog_imm_edge_cases }

\* What prog_random and prog_constrained put in the registers first.
RandomSeeds == [r \in 1 .. 8 |-> Addi(r, 0, 3 * r)]
ConstrainedSeeds ==
    << Addi(1, 0, 0), Addi(2, 0, -1), Addi(3, 0, 1), Addi(4, 0, 2047),
       Addi(5, 0, -2048), Addi(6, 0, 3), Addi(7, 0, 5), Addi(8, 0, 7) >>
=============================================================================
