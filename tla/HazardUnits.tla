----------------------------- MODULE HazardUnits -----------------------------
(***************************************************************************)
(* The three combinational units that keep the pipeline coherent:          *)
(*   rtl/rv32i_forwarding_unit.sv   where EX takes an operand from         *)
(*   rtl/rv32i_hazard_detection.sv  when ID must wait for a load in EX     *)
(*   rtl/rv32i_branch_control.sv    whether the branch in EX is taken      *)
(***************************************************************************)
EXTENDS Decoder

\* forward_a and forward_b: 2'b10 (MEM) > 2'b01 (WB) > 2'b00 (register file).
ForwardSelect(ex_rs, mem_rd, mem_regwrite, wb_rd, wb_regwrite) ==
    IF mem_regwrite /\ mem_rd = ex_rs /\ mem_rd # 0 THEN "MEM"
    ELSE IF wb_regwrite /\ wb_rd = ex_rs /\ wb_rd # 0 THEN "WB"
    ELSE "RF"

\* Faulty: a stall behind every producer, not only a load.
LoadUseHazard_AnyWriter(id_rs1, id_rs2, ex_rd, ex_memread) ==
    ex_rd # 0 /\ ex_rd \in {id_rs1, id_rs2}
\* Faulty: a load into x0 stalls too.
LoadUseHazard_ZeroToo(id_rs1, id_rs2, ex_rd, ex_memread) ==
    ex_memread /\ ex_rd \in {id_rs1, id_rs2}

\* stall, insert_bubble, and the complement of both write enables.
LoadUseHazard(id_rs1, id_rs2, ex_rd, ex_memread) ==
    /\ ex_memread
    /\ ex_rd # 0
    /\ ex_rd \in {id_rs1, id_rs2}

\* condition_met: the branch condition, on the ALU's zero flag.
ConditionMet(branch_type, zero) == IF branch_type THEN ~zero ELSE zero

BranchTaken(branch, branch_type, zero) == branch /\ ConditionMet(branch_type, zero)

BranchPcNext(taken, pc_ex, imm_ex, pc_normal) ==
    IF taken THEN Plus(pc_ex, imm_ex) ELSE pc_normal
=============================================================================
