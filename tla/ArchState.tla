----------------------------- MODULE ArchState -----------------------------
(***************************************************************************)
(* The architectural state behind the pipeline registers.  Two auxiliary   *)
(* bits say which of the first two of them hold an instruction on the      *)
(* architectural path; the RTL has no such bits and no code reads them.    *)
(* They let the architectural state be read off the pipeline: an instruc-  *)
(* tion takes effect while it is in EX, and what MEM and WB still hold     *)
(* overlays the register file and data_mem.                                *)
(***************************************************************************)
EXTENDS PipeDriver

\* The two decoders disagree on encodings no one uses: SUB and SRA with a funct7
\* that has bit 5 and others set, and even nonzero funct3 under BRANCH.  The
\* encoders of program_gen.h produce none of them.
Agreed(i) ==
    /\ i.opcode = R_TYPE /\ Alternate(i) => i.funct7 = 32
    /\ i.opcode = BRANCH => i.funct3 = 0 \/ i.funct3 % 2 = 1

ASSUME AgreedPrograms == \A prog \in PROGRAMS : \A k \in 1 .. Len(prog) : Agreed(prog[k])

VARIABLES
    vID, vEX       \* auxiliary: IF/ID, ID/EX hold an architectural instruction

state_vars == <<dut_vars, driver_vars, vID, vEX>>
-----------------------------------------------------------------------------
(* The driver's calls, with what they do to the auxiliary bits.            *)

\* The pipeline as it comes out of a reset.
Cleared ==
    /\ pc = 0 /\ if_id = IfIdReset /\ id_ex = IdExBubble
    /\ ex_mem = ExMemReset /\ mem_wb = MemWbReset /\ regs = RegsReset
    /\ cycle_ = 0 /\ reported = <<>>
    /\ vID = FALSE /\ vEX = FALSE

Restart == LoadAndReset /\ vID' = FALSE /\ vEX' = FALSE

KeepReset  == ResetClock /\ UNCHANGED <<vID, vEX>>
LeaveReset == ReleaseReset /\ UNCHANGED <<vID, vEX>>

Advance(max_cycles) ==
    /\ Tick(max_cycles)
    /\ vID' = IF flush_if_id THEN FALSE ELSE IF if_id_write_enable THEN TRUE ELSE vID
    /\ vEX' = (~flush_id_ex /\ ~insert_bubble /\ vID)
-----------------------------------------------------------------------------
(* The architectural state the pipeline stands for.                        *)

ArchPc == IF vEX THEN id_ex.pc ELSE IF vID THEN if_id.pc ELSE pc

\* What the instruction in MEM will write to its register.
MemResult ==
    IF ex_mem.jump THEN ex_mem.pc_plus4
    ELSE IF ex_mem.mem_to_reg THEN mem_dmem_rdata
    ELSE ex_mem.alu_result

AfterWb == IF mem_wb.reg_write /\ mem_wb.rd # 0
           THEN [regs EXCEPT ![mem_wb.rd] = wb_write_data] ELSE regs

ArchRegs == IF ex_mem.reg_write /\ ex_mem.rd # 0
            THEN [AfterWb EXCEPT ![ex_mem.rd] = MemResult] ELSE AfterWb

ArchDmem == IF ex_mem.mem_write
            THEN [data_mem EXCEPT ![DmemWord(ex_mem.alu_result)] = ex_mem.rs2_data]
            ELSE data_mem

\* Commits of instructions past EX that the monitor has not reported yet.
InFlight ==
    AboutToCommit \o
    (IF ex_mem.reg_write /\ ex_mem.rd # 0
     THEN <<RegCommit(ex_mem.rd, MemResult)>> ELSE <<>>)

Order == INSTANCE ProgramOrder WITH
    Execute1 <- ExecuteOne, Stopped <- OutOfMemory,
    Programs <- ImemImages, Preloads <- DmemImages, ClearRegs <- RegsReset,
    imem_ <- instr_mem, pc_ <- ArchPc, regs_ <- ArchRegs, dmem_ <- ArchDmem,
    pending <- InFlight, reported <- reported

-----------------------------------------------------------------------------
IfIdType  == [pc : Word, pc_plus4 : Word, instr : Instr]
IdExType  == [pc : Word, pc_plus4 : Word, instr : Instr,
              rs1_data : Word, rs2_data : Word, ctl : DecodedSignals]
ExMemType == [pc_plus4 : Word, alu_result : Word, rs2_data : Word, rd : RegIndex,
              mem_read : BOOLEAN, mem_write : BOOLEAN, mem_to_reg : BOOLEAN,
              reg_write : BOOLEAN, jump : BOOLEAN]
MemWbType == [pc_plus4 : Word, alu_result : Word, dmem_data : Word, rd : RegIndex,
              mem_to_reg : BOOLEAN, reg_write : BOOLEAN, jump : BOOLEAN]

StateTypeOK ==
    /\ rst \in BOOLEAN
    /\ instr_mem \in [0 .. IMEM_WORDS - 1 -> Instr]
    /\ data_mem \in [0 .. DMEM_WORDS - 1 -> Word]
    /\ regs \in [RegIndex -> Word]
    /\ pc \in Word
    /\ if_id \in IfIdType /\ id_ex \in IdExType
    /\ ex_mem \in ExMemType /\ mem_wb \in MemWbType
    /\ cycle_ \in Nat
    /\ reported \in Seq(CommitRecord)
    /\ vID \in BOOLEAN /\ vEX \in BOOLEAN
-----------------------------------------------------------------------------
(* What every clock relies on.                                             *)

\* ID/EX always holds the decoding of the instruction it names; what is not
\* architectural is a NOP; and the fetch PC runs exactly one word ahead of
\* IF/ID, which runs one ahead of ID/EX, as long as nothing was redirected.
FetchedInOrder ==
    /\ id_ex.ctl = Decode(id_ex.instr)
    /\ rst => ~vID /\ ~vEX
    /\ vID => /\ if_id.instr = instr_mem[ImemWord(if_id.pc)]
              /\ if_id.pc_plus4 = Plus(if_id.pc, 4)
              /\ pc = Plus(if_id.pc, 4)
    /\ vEX => /\ id_ex.instr = instr_mem[ImemWord(id_ex.pc)]
              /\ id_ex.pc_plus4 = Plus(id_ex.pc, 4)
              /\ vID
              /\ if_id.pc = Plus(id_ex.pc, 4)
    /\ ~vID => if_id.instr = ZeroInstr
    /\ ~vEX => id_ex.instr = ZeroInstr

\* The operands latched into ID/EX are the register file's own contents: what
\* WB writes in the cycle an instruction sits in ID reaches it by the bypass.
OperandsCurrent ==
    /\ id_ex.rs1_data = regs[id_ex.ctl.rs1]
    /\ id_ex.rs2_data = regs[id_ex.ctl.rs2]
    /\ regs[0] = 0

\* EX never takes an operand from a load that is still in MEM, whose ALU result
\* is its address: the stall has put a bubble between them.
NeverForwardsFromLoad ==
    ex_mem.mem_to_reg => forward_a # "MEM" /\ forward_b # "MEM"

\* The signals latched into EX/MEM are those of one instruction.
MemSignalsMatch ==
    /\ (ex_mem.mem_read <=> ex_mem.mem_to_reg)
    /\ ex_mem.mem_read => ex_mem.reg_write /\ ~ex_mem.jump
    /\ ex_mem.mem_write => ~ex_mem.reg_write

\* All of it: an inductive invariant.
Coherent == FetchedInOrder /\ OperandsCurrent /\ NeverForwardsFromLoad /\ MemSignalsMatch

\* A load-use stall and a control transfer never meet in one cycle, so a redirect
\* is never lost to a frozen PC and a stalled instruction is never half flushed.
StallExcludesRedirect == load_use_hazard => ~jump_taken /\ ~branch_taken
-----------------------------------------------------------------------------
(* The assertions pipe_driver.h checks after every clock, A1 to A8.        *)

NoControl(ctl) == ~(ctl.reg_write \/ ctl.mem_read \/ ctl.mem_write \/ ctl.jump \/ ctl.branch)

\* A1-A5: one instruction of the right kind redirects, and to its target.
check_redirect ==
    /\ ~(jump_taken /\ branch_taken)
    /\ jump_taken => id_ex.instr.opcode = JAL
    /\ branch_taken => id_ex.instr.opcode = BRANCH
    /\ jump_taken \/ branch_taken => pc' = Plus(id_ex.pc, id_ex.ctl.imm)

\* A6: only a redirect leads back to 0; the first clock after reset is exempt.
check_zero_pc ==
    pc' = 0 /\ cycle_ > 0 =>
       (jump_taken \/ branch_taken) /\ Plus(id_ex.pc, id_ex.ctl.imm) = 0

\* A7 and A8: what a stall or a flush leaves in ID/EX controls nothing.
check_bubble == insert_bubble \/ flush_id_ex => NoControl(id_ex'.ctl)

check_assertions == check_redirect /\ check_zero_pc /\ check_bubble
=============================================================================
