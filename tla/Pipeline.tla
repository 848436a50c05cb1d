------------------------------ MODULE Pipeline ------------------------------
(***************************************************************************)
(* rtl/rv32i_pipe5_with_branches.sv with rtl/rv32i_regfile.sv: the five-   *)
(* stage pipeline.  A state is the contents of every flip-flop and memory; *)
(* the wires are operators over it.  There are two kinds of clocked event, *)
(* posedge clk and posedge rst, and each always_ff block is one operator   *)
(* whose argument says whether it sees rst high.                           *)
(*                                                                         *)
(* An operator whose name ends in an underscore and a word that the RTL    *)
(* does not have (ReadPort_ReadFirst) is a faulty form of its successor,   *)
(* used by no definition: a check must notice when it takes the other's    *)
(* place.                                                                  *)
(*                                                                         *)
(* No stage carries a valid bit.  A bubble is a register full of zeros,    *)
(* which decodes to an instruction that writes nothing.                    *)
(***************************************************************************)
EXTENDS HazardUnits, Program

VARIABLES
    rst,         \* the reset input
    instr_mem, data_mem, regs,
    pc,
    if_id,       \* IF/ID  register
    id_ex,       \* ID/EX  register; id_ex.ctl holds the latched decoder outputs
    ex_mem,      \* EX/MEM register
    mem_wb       \* MEM/WB register

stages   == <<pc, if_id, id_ex, ex_mem, mem_wb>>
dut_vars == <<rst, instr_mem, data_mem, regs, stages>>

ImemWord(addr) == (addr \div 4) % IMEM_WORDS      \* addr[9:2]
DmemWord(addr) == (addr \div 4) % DMEM_WORDS      \* addr[9:2]

IfIdReset  == [pc |-> 0, pc_plus4 |-> 0, instr |-> ZeroInstr]
IdExBubble == [pc |-> 0, pc_plus4 |-> 0, instr |-> ZeroInstr,
               rs1_data |-> 0, rs2_data |-> 0,
               ctl |-> Signals(ZeroInstr, 0, "ADD", {})]
ExMemReset == [pc_plus4 |-> 0, alu_result |-> 0, rs2_data |-> 0, rd |-> 0,
               mem_read |-> FALSE, mem_write |-> FALSE, mem_to_reg |-> FALSE,
               reg_write |-> FALSE, jump |-> FALSE]
MemWbReset == [pc_plus4 |-> 0, alu_result |-> 0, dmem_data |-> 0, rd |-> 0,
               mem_to_reg |-> FALSE, reg_write |-> FALSE, jump |-> FALSE]
RegsReset  == [r \in RegIndex |-> 0]
-----------------------------------------------------------------------------
(* IF                                                                      *)

\* Faulty: an adder wider than the register.
pc_plus4_Unbounded == pc + 4
pc_plus4 == Plus(pc, 4)
if_instr == instr_mem[ImemWord(pc)]

(* WB                                                                      *)

wb_write_data ==
    IF mem_wb.jump THEN mem_wb.pc_plus4
    ELSE IF mem_wb.mem_to_reg THEN mem_wb.dmem_data
    ELSE mem_wb.alu_result

WbWrites(r) == mem_wb.reg_write /\ mem_wb.rd = r /\ mem_wb.rd # 0

(* ID: decode, and the register file's write-first read ports              *)

id == Decode(if_id.instr)

\* Faulty: no bypass around the cell WB is writing.
ReadPort_ReadFirst(rs) == IF rs = 0 THEN 0 ELSE regs[rs]
ReadPort(rs) ==
    IF rs = 0 THEN 0 ELSE IF WbWrites(rs) THEN wb_write_data ELSE regs[rs]

load_use_hazard == LoadUseHazard(id.rs1, id.rs2, id_ex.ctl.rd, id_ex.ctl.mem_read)
insert_bubble   == load_use_hazard

(* EX: forwarding, ALU, branch and jump resolution                         *)

ex_mem_forward_data == IF ex_mem.jump THEN ex_mem.pc_plus4 ELSE ex_mem.alu_result

ForwardFor(rs) == ForwardSelect(rs, ex_mem.rd, ex_mem.reg_write, mem_wb.rd, mem_wb.reg_write)
forward_a == ForwardFor(id_ex.ctl.rs1)
forward_b == ForwardFor(id_ex.ctl.rs2)

Forwarded(select, rf_data) ==
    CASE select = "MEM" -> ex_mem_forward_data
      [] select = "WB"  -> wb_write_data
      [] select = "RF"  -> rf_data

ex_alu_in1         == Forwarded(forward_a, id_ex.rs1_data)
forwarded_rs2_data == Forwarded(forward_b, id_ex.rs2_data)     \* the store path
ex_alu_in2         == IF id_ex.ctl.alu_src THEN id_ex.ctl.imm  \* the ALU path
                      ELSE Forwarded(forward_b, id_ex.rs2_data)

ex_alu_result == AluResult(id_ex.ctl.alu_op, ex_alu_in1, ex_alu_in2)
ex_zero       == AluZero(ex_alu_result)

branch_taken   == BranchTaken(id_ex.ctl.branch, id_ex.ctl.branch_type, ex_zero)
\* Faulty: the offset applied to the PC being fetched.
branch_pc_next_FromFetch == BranchPcNext(branch_taken, pc, id_ex.ctl.imm, id_ex.pc_plus4)
branch_pc_next == BranchPcNext(branch_taken, id_ex.pc, id_ex.ctl.imm, id_ex.pc_plus4)
jump_taken     == id_ex.ctl.jump
jump_target    == Plus(id_ex.pc, id_ex.ctl.imm)

pc_next == IF jump_taken THEN jump_target
           ELSE IF branch_taken THEN branch_pc_next
           ELSE pc_plus4

flush_if_id == jump_taken \/ branch_taken
flush_id_ex == jump_taken \/ branch_taken

pc_write_enable    == ~load_use_hazard \/ branch_taken \/ jump_taken
if_id_write_enable == ~load_use_hazard

(* MEM                                                                     *)

mem_dmem_rdata == IF ex_mem.mem_read THEN data_mem[DmemWord(ex_mem.alu_result)] ELSE 0
-----------------------------------------------------------------------------
(* The always_ff blocks; r is the level of rst they sample.                *)

PcReg(r) == pc' = IF r THEN 0 ELSE IF pc_write_enable THEN pc_next ELSE pc

\* A flush clears the instruction and keeps the PC beside it.
IfIdReg(r) ==
    if_id' = IF r THEN IfIdReset
             ELSE IF flush_if_id THEN [if_id EXCEPT !.instr = ZeroInstr]
             ELSE IF if_id_write_enable
                  THEN [pc |-> pc, pc_plus4 |-> pc_plus4, instr |-> if_instr]
             ELSE if_id

IdExReg(r) ==
    id_ex' = IF r \/ flush_id_ex \/ insert_bubble THEN IdExBubble
             ELSE [pc |-> if_id.pc, pc_plus4 |-> if_id.pc_plus4, instr |-> if_id.instr,
                   rs1_data |-> ReadPort(id.rs1), rs2_data |-> ReadPort(id.rs2),
                   ctl |-> id]

ToMem == [pc_plus4 |-> id_ex.pc_plus4, alu_result |-> ex_alu_result,
          rs2_data |-> forwarded_rs2_data, rd |-> id_ex.ctl.rd,
          mem_read |-> id_ex.ctl.mem_read, mem_write |-> id_ex.ctl.mem_write,
          mem_to_reg |-> id_ex.ctl.mem_to_reg,
          reg_write |-> id_ex.ctl.reg_write, jump |-> id_ex.ctl.jump]
\* Faulty: reset forgets the instruction in EX.
ExMemReg_NoReset(r) == ex_mem' = ToMem
ExMemReg(r) == ex_mem' = IF r THEN ExMemReset ELSE ToMem

ToWb == [pc_plus4 |-> ex_mem.pc_plus4, alu_result |-> ex_mem.alu_result,
         dmem_data |-> mem_dmem_rdata, rd |-> ex_mem.rd,
         mem_to_reg |-> ex_mem.mem_to_reg,
         reg_write |-> ex_mem.reg_write, jump |-> ex_mem.jump]
\* Faulty: reset forgets the instruction in MEM.
MemWbReg_NoReset(r) == mem_wb' = ToWb
MemWbReg(r) == mem_wb' = IF r THEN MemWbReset ELSE ToWb

RegFile(r) ==
    regs' = IF r THEN RegsReset
            ELSE IF mem_wb.reg_write /\ mem_wb.rd # 0
                 THEN [regs EXCEPT ![mem_wb.rd] = wb_write_data]
            ELSE regs

\* data_mem is clocked only and knows no reset.
DataMem ==
    data_mem' = IF ex_mem.mem_write
                THEN [data_mem EXCEPT ![DmemWord(ex_mem.alu_result)] = ex_mem.rs2_data]
                ELSE data_mem

Registers(r) == /\ PcReg(r) /\ IfIdReg(r) /\ IdExReg(r)
                /\ ExMemReg(r) /\ MemWbReg(r) /\ RegFile(r)

\* posedge clk
Posedge == Registers(rst) /\ DataMem /\ UNCHANGED <<rst, instr_mem>>

\* posedge rst: every block but data_mem is sensitive to it
RstRise == rst' = TRUE /\ Registers(TRUE)

RstFall == rst' = FALSE /\ UNCHANGED <<instr_mem, data_mem, regs, stages>>
=============================================================================
