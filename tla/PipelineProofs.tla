--------------------------- MODULE PipelineProofs ---------------------------
(***************************************************************************)
(* Lemmas about the pipeline under the driver's calls, for every width,    *)
(* every memory size and every set of programs: its types, its coherence,  *)
(* the driver's assertions, and that it implements ProgramOrder, in which  *)
(* whole instructions of the reference model execute one at a time.  They  *)
(* hold whoever makes the calls.                                           *)
(***************************************************************************)
EXTENDS ArchState, CommonLemmas

-----------------------------------------------------------------------------
(* Types                                                                   *)

\* Address bits select a word that exists: pc[9:2] and its like.
LEMMA WordSelect ==
    ASSUME NEW a \in Word
    PROVE  /\ ImemWord(a) \in 0 .. IMEM_WORDS - 1
           /\ DmemWord(a) \in 0 .. DMEM_WORDS - 1
           /\ a \div 4 \in Nat
  BY WordIsInt, MemoryAssumption DEF ImemWord, DmemWord

\* The reset values are of the registers' types.
LEMMA ResetTypes ==
    /\ IfIdReset \in IfIdType /\ IdExBubble \in IdExType
    /\ ExMemReset \in ExMemType /\ MemWbReset \in MemWbType
    /\ RegsReset \in [RegIndex -> Word]
  <1>1. Signals(ZeroInstr, 0, "ADD", {}) \in DecodedSignals
    BY SignalsType, ZeroInstrType, SmallWords DEF AluOp
  <1>2. QED
    BY <1>1, ZeroInstrType, SmallWords
       DEF IfIdReset, IdExBubble, ExMemReset, MemWbReset, RegsReset,
           IfIdType, IdExType, ExMemType, MemWbType, RegIndex

\* So are the memories a driver may load.
LEMMA ImageTypes ==
    /\ \A m \in ImemImages : m \in [0 .. IMEM_WORDS - 1 -> Instr]
    /\ \A m \in DmemImages : m \in [0 .. DMEM_WORDS - 1 -> Word]
  <1>1. ASSUME NEW prog \in PROGRAMS
        PROVE  LoadedImem(prog) \in [0 .. IMEM_WORDS - 1 -> Instr]
    <2>1. prog \in Seq(Instr)
      BY ProgramAssumption
    <2>2. \A w \in 0 .. IMEM_WORDS - 1 : w < Len(prog) => prog[w + 1] \in Instr
      BY <2>1, MemoryAssumption
    <2>3. QED
      BY <2>2, ZeroInstrType DEF LoadedImem
  <1>2. ASSUME NEW pre \in PRELOADS
        PROVE  LoadedDmem(pre) \in [0 .. DMEM_WORDS - 1 -> Word]
    BY ProgramAssumption, SmallWords DEF LoadedDmem
  <1>3. QED
    BY <1>1, <1>2 DEF ImemImages, DmemImages

\* Every wire carries a value of its type.
LEMMA WireTypes ==
    ASSUME StateTypeOK
    PROVE  /\ if_instr \in Instr /\ pc_plus4 \in Word
           /\ id \in DecodedSignals
           /\ wb_write_data \in Word
           /\ \A rs \in RegIndex : ReadPort(rs) \in Word
           /\ ex_mem_forward_data \in Word /\ mem_dmem_rdata \in Word
           /\ ex_alu_in1 \in Word /\ ex_alu_in2 \in Word /\ forwarded_rs2_data \in Word
           /\ ex_alu_result \in Word
           /\ pc_next \in Word
  <1> USE DEF StateTypeOK, IfIdType, IdExType, ExMemType, MemWbType
  <1>1. if_instr \in Instr
    BY WordSelect DEF if_instr
  <1>2. pc_plus4 \in Word
    BY PlusType DEF pc_plus4
  <1>3. id \in DecodedSignals
    BY DecodeType DEF id
  <1>4. wb_write_data \in Word
    BY DEF wb_write_data
  <1>5. \A rs \in RegIndex : ReadPort(rs) \in Word
    BY <1>4, SmallWords DEF ReadPort
  <1>6. ex_mem_forward_data \in Word
    BY DEF ex_mem_forward_data
  <1>7. mem_dmem_rdata \in Word
    BY WordSelect, SmallWords DEF mem_dmem_rdata
  <1>8. \A rs : ForwardFor(rs) \in {"MEM", "WB", "RF"}
    BY DEF ForwardFor, ForwardSelect
  <1>9. \A rs, d : d \in Word => Forwarded(ForwardFor(rs), d) \in Word
    BY <1>4, <1>6, <1>8 DEF Forwarded
  <1>10. ex_alu_in1 \in Word /\ forwarded_rs2_data \in Word
    BY <1>9 DEF ex_alu_in1, forwarded_rs2_data, forward_a, forward_b
  <1>11. ex_alu_in2 \in Word
    BY <1>9 DEF ex_alu_in2, forward_b, DecodedSignals
  <1>12. ex_alu_result \in Word
    BY <1>10, <1>11, AluType DEF ex_alu_result
  <1>13. Plus(id_ex.pc, id_ex.ctl.imm) \in Word
    BY PlusType, WordIsInt DEF DecodedSignals
  <1>14. pc_next \in Word
    BY <1>2, <1>13 DEF pc_next, jump_target, branch_pc_next, BranchPcNext
  <1>15. QED
    BY <1>1, <1>2, <1>3, <1>4, <1>5, <1>6, <1>7, <1>10, <1>11, <1>12, <1>14

\* A clock edge or a rise of rst leaves every register with a value of its type.
LEMMA RegistersType ==
    ASSUME StateTypeOK, NEW r \in BOOLEAN, Registers(r)
    PROVE  /\ pc' \in Word /\ if_id' \in IfIdType /\ id_ex' \in IdExType
           /\ ex_mem' \in ExMemType /\ mem_wb' \in MemWbType
           /\ regs' \in [RegIndex -> Word]
  <1>1. pc' \in Word
    BY WireTypes, SmallWords DEF Registers, PcReg, StateTypeOK
  <1>2. if_id' \in IfIdType
    BY WireTypes, ResetTypes, ZeroInstrType DEF Registers, IfIdReg, StateTypeOK, IfIdType
  <1>3. id_ex' \in IdExType
    <2>1. id.rs1 \in RegIndex /\ id.rs2 \in RegIndex
      BY WireTypes DEF DecodedSignals
    <2>2. QED
      BY <2>1, WireTypes, ResetTypes DEF Registers, IdExReg, StateTypeOK, IdExType, IfIdType
  <1>4. ex_mem' \in ExMemType
    <2>1. ToMem \in ExMemType
      BY WireTypes DEF ToMem, StateTypeOK, IdExType, ExMemType, DecodedSignals
    <2>2. QED
      BY <2>1, ResetTypes DEF Registers, ExMemReg
  <1>5. mem_wb' \in MemWbType
    <2>1. ToWb \in MemWbType
      BY WireTypes DEF ToWb, StateTypeOK, ExMemType, MemWbType
    <2>2. QED
      BY <2>1, ResetTypes DEF Registers, MemWbReg
  <1>6. regs' \in [RegIndex -> Word]
    BY WireTypes, ResetTypes DEF Registers, RegFile, StateTypeOK, MemWbType
  <1>7. QED
    BY <1>1, <1>2, <1>3, <1>4, <1>5, <1>6

\* A clock leaves the data memory a memory of words.
LEMMA DataMemType ==
    ASSUME StateTypeOK, DataMem
    PROVE  data_mem' \in [0 .. DMEM_WORDS - 1 -> Word]
  BY DEF DataMem, StateTypeOK, ExMemType

\* Outside a clock nothing is reported.
LEMMA EmptyReport == <<>> \in Seq(CommitRecord)
  BY EmptySeq

\* The monitor's sample is a list of commits.
LEMMA ReportType == ASSUME StateTypeOK PROVE AboutToCommit \in Seq(CommitRecord)
  <1>1. RegCommit(mem_wb.rd, wb_write_data) \in CommitRecord
    BY WireTypes DEF RegCommit, CommitRecord, StateTypeOK, MemWbType
  <1>2. MemCommit(ex_mem.alu_result \div 4, ex_mem.rs2_data) \in CommitRecord
    BY WordSelect DEF MemCommit, CommitRecord, StateTypeOK, ExMemType
  <1>3. QED
    BY <1>1, <1>2 DEF AboutToCommit

-----------------------------------------------------------------------------
(* The steps the driver takes, whoever calls it                            *)

\* A clock without reset.
Edge == Advance(0)

StateNext == Restart \/ KeepReset \/ LeaveReset \/ Edge

\* A cycle budget decides whether there is a clock, not what it does.
LEMMA AdvanceIsEdge == ASSUME NEW m, Advance(m) PROVE Edge
  BY DEF Edge, Advance, Tick, LimitReached

\* A cleared pipeline is typed, whatever it has loaded,
LEMMA ClearedIsTyped ==
    ASSUME Cleared, rst \in BOOLEAN,
           instr_mem \in [0 .. IMEM_WORDS - 1 -> Instr],
           data_mem \in [0 .. DMEM_WORDS - 1 -> Word]
    PROVE  StateTypeOK
  <1>1. /\ pc \in Word /\ if_id \in IfIdType /\ id_ex \in IdExType
        /\ ex_mem \in ExMemType /\ mem_wb \in MemWbType /\ regs \in [RegIndex -> Word]
    BY ResetTypes, SmallWords DEF Cleared
  <1>2. reported \in Seq(CommitRecord) /\ vID \in BOOLEAN /\ vEX \in BOOLEAN /\ cycle_ \in Nat
    BY EmptyReport DEF Cleared
  <1>3. QED
    BY <1>1, <1>2 DEF StateTypeOK

\* and every call of the driver keeps it so.
LEMMA TypeStep == StateTypeOK /\ [StateNext]_state_vars => StateTypeOK'
  <1> SUFFICES ASSUME StateTypeOK, [StateNext]_state_vars PROVE StateTypeOK'
    OBVIOUS
  <1>1. CASE Restart
    <2>1. Registers(TRUE)
      BY <1>1 DEF Restart, LoadAndReset, RstRise
    <2>2. /\ instr_mem' \in [0 .. IMEM_WORDS - 1 -> Instr]
          /\ data_mem' \in [0 .. DMEM_WORDS - 1 -> Word]
      BY <1>1, ImageTypes DEF Restart, LoadAndReset
    <2>3. reported' \in Seq(CommitRecord)
      BY <1>1, EmptyReport DEF Restart, LoadAndReset
    <2>4. rst' \in BOOLEAN /\ vID' \in BOOLEAN /\ vEX' \in BOOLEAN /\ cycle_' \in Nat
      BY <1>1 DEF Restart, LoadAndReset, RstRise, StateTypeOK
    <2>5. QED
      BY <2>1, <2>2, <2>3, <2>4, RegistersType DEF StateTypeOK
  <1>2. CASE KeepReset
    BY <1>2, RegistersType, DataMemType
       DEF KeepReset, ResetClock, Posedge, StateTypeOK, driver_vars
  <1>3. CASE LeaveReset
    BY <1>3 DEF LeaveReset, ReleaseReset, RstFall, stages, StateTypeOK
  <1>4. CASE Edge
    <2>1. Posedge /\ reported' \in Seq(CommitRecord) /\ cycle_' \in Nat
      BY <1>4, ReportType DEF Edge, Advance, Tick, StateTypeOK
    <2>2. vID' \in BOOLEAN /\ vEX' \in BOOLEAN
      BY <1>4 DEF Edge, Advance, StateTypeOK
    <2>3. QED
      BY <2>1, <2>2, RegistersType, DataMemType
         DEF Posedge, StateTypeOK
  <1>5. CASE UNCHANGED state_vars
    BY <1>5 DEF state_vars, dut_vars, driver_vars, stages, StateTypeOK
  <1>6. QED
    BY <1>1, <1>2, <1>3, <1>4, <1>5 DEF StateNext

-----------------------------------------------------------------------------
(* Coherence                                                               *)

\* What a Signals record holds, field by field.
LEMMA SignalFields ==
    ASSUME NEW i, NEW imm, NEW op, NEW on, NEW d, d = Signals(i, imm, op, on)
    PROVE  /\ d.rs1 = i.rs1 /\ d.rs2 = i.rs2 /\ d.rd = i.rd
           /\ d.imm = imm /\ d.alu_op = op
           /\ d.reg_write   <=> "reg_write"   \in on
           /\ d.mem_read    <=> "mem_read"    \in on
           /\ d.mem_write   <=> "mem_write"   \in on
           /\ d.mem_to_reg  <=> "mem_to_reg"  \in on
           /\ d.alu_src     <=> "alu_src"     \in on
           /\ d.branch      <=> "branch"      \in on
           /\ d.branch_type <=> "branch_type" \in on
           /\ d.jump        <=> "jump"        \in on
  BY Zenon DEF Signals

\* What the decoder can raise together.
LEMMA DecodeControl ==
    ASSUME NEW i \in Instr
    PROVE  /\ Decode(i).rs1 = i.rs1 /\ Decode(i).rs2 = i.rs2 /\ Decode(i).rd = i.rd
           /\ (Decode(i).mem_read <=> Decode(i).mem_to_reg)
           /\ Decode(i).mem_read =>
                 Decode(i).reg_write /\ ~Decode(i).jump /\ ~Decode(i).branch
           /\ Decode(i).mem_write => ~Decode(i).reg_write
           /\ (Decode(i).jump <=> i.opcode = JAL)
           /\ (Decode(i).branch <=> i.opcode = BRANCH)
           /\ (Decode(i).mem_read <=> i.opcode = LOAD)
           /\ (Decode(i).reg_write <=> i.opcode \in {R_TYPE, I_TYPE, LOAD, JAL})
  <1> USE DEF R_TYPE, I_TYPE, LOAD, STORE, BRANCH, JAL
  <1>1. CASE i.opcode = R_TYPE
    <2>1. Decode(i) = Signals(i, 0, RTypeAluOp(i), {"reg_write"})
      BY <1>1 DEF Decode
    <2>2. QED
      BY <1>1, <2>1, SignalFields
  <1>2. CASE i.opcode = I_TYPE
    <2>1. Decode(i) = Signals(i, imm_i(i), ITypeAluOp(i), {"reg_write", "alu_src"})
      BY <1>2 DEF Decode
    <2>2. QED
      BY <1>2, <2>1, SignalFields
  <1>3. CASE i.opcode = LOAD
    <2>1. Decode(i) = Signals(i, imm_i(i), "ADD", {"reg_write", "alu_src", "mem_read", "mem_to_reg"})
      BY <1>3 DEF Decode
    <2>2. QED
      BY <1>3, <2>1, SignalFields
  <1>4. CASE i.opcode = STORE
    <2>1. Decode(i) = Signals(i, imm_s(i), "ADD", {"alu_src", "mem_write"})
      BY <1>4 DEF Decode
    <2>2. QED
      BY <1>4, <2>1, SignalFields
  <1>5. CASE i.opcode = JAL
    <2>1. Decode(i) = Signals(i, imm_j(i), "ADD", {"reg_write", "alu_src", "jump"})
      BY <1>5 DEF Decode
    <2>2. QED
      BY <1>5, <2>1, SignalFields
  <1>6. CASE i.opcode \notin {R_TYPE, I_TYPE, LOAD, STORE, BRANCH, JAL}
    <2>1. Decode(i) = Signals(i, 0, "ADD", {})
      BY <1>6 DEF Decode
    <2>2. QED
      BY <1>6, <2>1, SignalFields
  <1>7. CASE i.opcode = BRANCH
    <2> DEFINE on == {"branch"} \cup (IF i.funct3 % 2 = 1 THEN {"branch_type"} ELSE {})
    <2>1. Decode(i) = Signals(i, imm_b(i), "SUB", on)
      BY <1>7 DEF Decode
    <2>2. \A x \in on : x = "branch" \/ x = "branch_type"
      OBVIOUS
    <2>3. "branch" \in on
      BY DEF on
    <2> HIDE DEF on
    <2>4. /\ "mem_read" \notin on /\ "mem_to_reg" \notin on
          /\ "mem_write" \notin on /\ "reg_write" \notin on /\ "jump" \notin on
      BY <2>2
    <2>5. QED
      BY <1>7, <2>1, <2>3, <2>4, SignalFields
  <1>8. QED
    BY <1>1, <1>2, <1>3, <1>4, <1>5, <1>6, <1>7

\* A load-use hazard is about a load in EX, and a load redirects nothing.
LEMMA StallIsNoRedirect ==
    ASSUME StateTypeOK, Coherent
    PROVE  StallExcludesRedirect
  <1>1. id_ex.instr \in Instr /\ id_ex.ctl = Decode(id_ex.instr)
    BY DEF StateTypeOK, IdExType, Coherent, FetchedInOrder
  <1>2. id_ex.ctl.mem_read => ~id_ex.ctl.jump /\ ~id_ex.ctl.branch
    BY <1>1, DecodeControl
  <1>3. QED
    BY <1>2 DEF StallExcludesRedirect, load_use_hazard, LoadUseHazard,
                jump_taken, branch_taken, BranchTaken

\* The registers as they come out of a reset, whatever they held before.
LEMMA ResetIsCoherent ==
    ASSUME Registers(TRUE), vID' = FALSE, vEX' = FALSE
    PROVE  Coherent'
  <1>1. /\ if_id' = IfIdReset /\ id_ex' = IdExBubble /\ ex_mem' = ExMemReset
        /\ regs' = RegsReset
    BY DEF Registers, IfIdReg, IdExReg, ExMemReg, RegFile
  <1>2. FetchedInOrder'
    BY <1>1, DecodeZero DEF FetchedInOrder, IfIdReset, IdExBubble
  <1>3. OperandsCurrent'
    BY <1>1 DEF OperandsCurrent, IdExBubble, RegsReset, Signals, ZeroInstr, RegIndex
  <1>4. NeverForwardsFromLoad' /\ MemSignalsMatch'
    BY <1>1 DEF NeverForwardsFromLoad, MemSignalsMatch, ExMemReset
  <1>5. QED
    BY <1>2, <1>3, <1>4 DEF Coherent

\* Nothing is in flight in a cleared pipeline.
LEMMA ClearedIsCoherent == ASSUME Cleared PROVE Coherent
  <1>1. FetchedInOrder
    BY DecodeZero DEF Cleared, FetchedInOrder, IfIdReset, IdExBubble
  <1>2. OperandsCurrent
    BY DEF Cleared, OperandsCurrent, IdExBubble, RegsReset, Signals, ZeroInstr, RegIndex
  <1>3. NeverForwardsFromLoad /\ MemSignalsMatch
    BY DEF Cleared, NeverForwardsFromLoad, MemSignalsMatch, ExMemReset
  <1>4. QED
    BY <1>1, <1>2, <1>3 DEF Coherent

\* A clock keeps the three front stages in program order, by stall, redirect or neither.
LEMMA ClockKeepsFetchOrder ==
    ASSUME StateTypeOK, Coherent, Edge
    PROVE  FetchedInOrder'
  <1>1. /\ PcReg(FALSE) /\ IfIdReg(FALSE) /\ IdExReg(FALSE)
        /\ instr_mem' = instr_mem /\ rst' = FALSE
    BY DEF Edge, Advance, Tick, Posedge, Registers, StateTypeOK
  <1>2. id_ex'.ctl = Decode(id_ex'.instr)
    BY <1>1, DecodeZero DEF IdExReg, IdExBubble, id
  <1>3. CASE flush_if_id
    <2>1. ~vID' /\ ~vEX'
      BY <1>3 DEF Edge, Advance, flush_if_id, flush_id_ex
    <2>2. if_id'.instr = ZeroInstr /\ id_ex'.instr = ZeroInstr
      BY <1>1, <1>3 DEF IfIdReg, IdExReg, flush_if_id, flush_id_ex, IdExBubble, StateTypeOK, IfIdType
    <2>3. QED
      BY <1>1, <1>2, <2>1, <2>2 DEF FetchedInOrder
  <1>4. CASE ~flush_if_id /\ load_use_hazard
    <2>1. vID' = vID /\ vEX' = FALSE /\ pc' = pc /\ if_id' = if_id
      BY <1>1, <1>4 DEF Edge, Advance, PcReg, IfIdReg, pc_write_enable, if_id_write_enable,
                        flush_if_id, flush_id_ex, insert_bubble
    <2>2. id_ex'.instr = ZeroInstr
      BY <1>1, <1>4 DEF IdExReg, insert_bubble, IdExBubble
    <2>3. QED
      BY <1>1, <1>2, <2>1, <2>2 DEF FetchedInOrder, Coherent
  <1>5. CASE ~flush_if_id /\ ~load_use_hazard
    <2>1. vID' = TRUE /\ vEX' = vID
      BY <1>5 DEF Edge, Advance, if_id_write_enable, flush_if_id, flush_id_ex, insert_bubble, StateTypeOK
    <2>2. /\ pc' = pc_plus4
          /\ if_id' = [pc |-> pc, pc_plus4 |-> pc_plus4, instr |-> if_instr]
      BY <1>1, <1>5 DEF PcReg, IfIdReg, pc_write_enable, if_id_write_enable, pc_next, flush_if_id
    <2>3. /\ id_ex'.instr = if_id.instr
          /\ id_ex'.pc = if_id.pc /\ id_ex'.pc_plus4 = if_id.pc_plus4
      BY <1>1, <1>5 DEF IdExReg, flush_if_id, flush_id_ex, insert_bubble
    <2>4. QED
      BY <1>1, <1>2, <2>1, <2>2, <2>3 DEF FetchedInOrder, Coherent, pc_plus4, if_instr, ImemWord
  <1>6. QED
    BY <1>3, <1>4, <1>5

\* The write-first read ports deliver what the register file holds afterwards.
LEMMA ReadPortIsNext ==
    ASSUME StateTypeOK, Coherent, RegFile(FALSE), NEW rs \in RegIndex
    PROVE  ReadPort(rs) = regs'[rs] /\ regs'[0] = 0
  <1>1. regs \in [RegIndex -> Word] /\ mem_wb.rd \in RegIndex /\ regs[0] = 0
    BY DEF StateTypeOK, MemWbType, Coherent, OperandsCurrent
  <1>2. CASE mem_wb.reg_write /\ mem_wb.rd # 0
    BY <1>1, <1>2 DEF RegFile, ReadPort, WbWrites
  <1>3. CASE ~(mem_wb.reg_write /\ mem_wb.rd # 0)
    <2>1. regs' = regs
      BY <1>3 DEF RegFile
    <2>2. ~WbWrites(rs)
      BY <1>3 DEF WbWrites
    <2>3. QED
      BY <1>1, <2>1, <2>2 DEF ReadPort
  <1>4. QED
    BY <1>2, <1>3

\* The operands latched into ID/EX are current again one clock later.
LEMMA ClockKeepsOperands ==
    ASSUME StateTypeOK, Coherent, Edge
    PROVE  OperandsCurrent'
  <1>1. IdExReg(FALSE) /\ RegFile(FALSE)
    BY DEF Edge, Advance, Tick, Posedge, Registers, StateTypeOK
  <1>2. id.rs1 \in RegIndex /\ id.rs2 \in RegIndex /\ 0 \in RegIndex
    BY WireTypes DEF DecodedSignals, RegIndex
  <1>3. regs'[0] = 0 /\ ReadPort(id.rs1) = regs'[id.rs1] /\ ReadPort(id.rs2) = regs'[id.rs2]
    BY <1>1, <1>2, ReadPortIsNext
  <1>4. QED
    BY <1>1, <1>3 DEF OperandsCurrent, IdExReg, IdExBubble, Signals, ZeroInstr

\* The stall separates a load from its user by one cycle.
LEMMA ClockKeepsLoadsApart ==
    ASSUME StateTypeOK, Coherent, Edge
    PROVE  NeverForwardsFromLoad' /\ MemSignalsMatch'
  <1>1. IdExReg(FALSE) /\ ExMemReg(FALSE)
    BY DEF Edge, Advance, Tick, Posedge, Registers, StateTypeOK
  <1>2. id_ex.instr \in Instr /\ id_ex.ctl = Decode(id_ex.instr)
    BY DEF StateTypeOK, IdExType, Coherent, FetchedInOrder
  <1>3. MemSignalsMatch'
    BY <1>1, <1>2, DecodeControl DEF ExMemReg, ToMem, MemSignalsMatch
  <1>4. ASSUME ex_mem'.mem_to_reg
        PROVE  (ex_mem'.rd # id_ex'.ctl.rs1 /\ ex_mem'.rd # id_ex'.ctl.rs2) \/ ex_mem'.rd = 0
    <2>1. id_ex.ctl.mem_read /\ ex_mem'.rd = id_ex.ctl.rd
      BY <1>1, <1>2, <1>4, DecodeControl DEF ExMemReg, ToMem
    <2>2. CASE flush_id_ex \/ insert_bubble
      BY <1>1, <2>2 DEF IdExReg, IdExBubble, Signals, ZeroInstr
    <2>3. CASE ~flush_id_ex /\ ~insert_bubble
      <3>1. id_ex'.ctl = id
        BY <1>1, <2>3 DEF IdExReg
      <3>2. id_ex.ctl.rd = 0 \/ id_ex.ctl.rd \notin {id.rs1, id.rs2}
        BY <2>1, <2>3 DEF insert_bubble, load_use_hazard, LoadUseHazard
      <3>3. QED
        BY <2>1, <3>1, <3>2
    <2>4. QED
      BY <2>2, <2>3
  <1>5. NeverForwardsFromLoad'
    BY <1>4 DEF NeverForwardsFromLoad, forward_a, forward_b, ForwardFor, ForwardSelect
  <1>6. QED
    BY <1>3, <1>5

\* Every call of the driver keeps the pipeline coherent.
LEMMA CoherentStep == StateTypeOK /\ Coherent /\ [StateNext]_state_vars => Coherent'
  <1> SUFFICES ASSUME StateTypeOK, Coherent, [StateNext]_state_vars PROVE Coherent'
    OBVIOUS
  <1>1. CASE Restart
    BY <1>1, ResetIsCoherent DEF Restart, LoadAndReset, RstRise
  <1>2. CASE KeepReset
    <2>1. Registers(TRUE)
      BY <1>2 DEF KeepReset, ResetClock, Posedge, StateTypeOK
    <2>2. vID' = FALSE /\ vEX' = FALSE
      BY <1>2 DEF KeepReset, ResetClock, Coherent, FetchedInOrder, StateTypeOK
    <2>3. QED
      BY <2>1, <2>2, ResetIsCoherent
  <1>3. CASE LeaveReset
    BY <1>3 DEF LeaveReset, ReleaseReset, RstFall, stages, Coherent, FetchedInOrder,
       OperandsCurrent, NeverForwardsFromLoad, MemSignalsMatch,
       forward_a, forward_b, ForwardFor, ForwardSelect, ImemWord
  <1>4. CASE Edge
    BY <1>4, ClockKeepsFetchOrder, ClockKeepsOperands, ClockKeepsLoadsApart DEF Coherent
  <1>5. CASE UNCHANGED state_vars
    BY <1>5 DEF state_vars, dut_vars, stages, Coherent, FetchedInOrder,
       OperandsCurrent, NeverForwardsFromLoad, MemSignalsMatch,
       forward_a, forward_b, ForwardFor, ForwardSelect, ImemWord
  <1>6. QED
    BY <1>1, <1>2, <1>3, <1>4, <1>5 DEF StateNext

-----------------------------------------------------------------------------
(* The driver's assertions                                                 *)

\* On every clock a redirect comes from one instruction of the right kind and reaches
\* its target, what a stall or a flush puts into ID/EX can neither commit nor redirect,
\* and the PC comes to 0 by a redirect unless it gets there by counting.
LEMMA ClockAsserts ==
    ASSUME StateTypeOK, Coherent, Edge
    PROVE  /\ check_redirect /\ check_bubble
           /\ pc_plus4 # 0 /\ (vID => if_id.pc_plus4 # 0) => check_zero_pc
  <1>1. PcReg(FALSE) /\ IdExReg(FALSE)
    BY DEF Edge, Advance, Tick, Posedge, Registers, StateTypeOK
  <1>2. id_ex.instr \in Instr /\ id_ex.ctl = Decode(id_ex.instr)
    BY DEF StateTypeOK, IdExType, Coherent, FetchedInOrder
  <1>3. /\ jump_taken => id_ex.instr.opcode = JAL
        /\ branch_taken => id_ex.instr.opcode = BRANCH
    BY <1>2, DecodeControl DEF jump_taken, branch_taken, BranchTaken
  <1>4. ~(jump_taken /\ branch_taken)
    BY <1>3 DEF JAL, BRANCH
  <1>5. ASSUME jump_taken \/ branch_taken
        PROVE  pc' = Plus(id_ex.pc, id_ex.ctl.imm)
    BY <1>1, <1>5 DEF PcReg, pc_write_enable, pc_next, jump_target, branch_pc_next, BranchPcNext
  <1>6. ASSUME insert_bubble \/ flush_id_ex
        PROVE  NoControl(id_ex'.ctl)
    <2>1. id_ex'.ctl = Signals(ZeroInstr, 0, "ADD", {})
      BY <1>1, <1>6 DEF IdExReg, IdExBubble
    <2>2. QED
      BY <2>1, SignalFields DEF NoControl
  <1>7. ASSUME pc_plus4 # 0, vID => if_id.pc_plus4 # 0, pc' = 0
        PROVE  jump_taken \/ branch_taken
    <2> SUFFICES ASSUME ~jump_taken, ~branch_taken PROVE FALSE
      OBVIOUS
    <2>1. CASE load_use_hazard
      <3>1. pc = 0
        BY <1>1, <1>7, <2>1 DEF PcReg, pc_write_enable
      <3>2. id_ex.ctl.mem_read /\ id_ex.instr # ZeroInstr
        BY <1>2, <2>1, DecodeControl DEF load_use_hazard, LoadUseHazard, ZeroInstr, LOAD
      <3>3. vID /\ if_id.pc_plus4 = pc
        BY <3>2 DEF Coherent, FetchedInOrder
      <3>4. QED
        BY <1>7, <3>1, <3>3
    <2>2. CASE ~load_use_hazard
      BY <1>1, <1>7, <2>2 DEF PcReg, pc_write_enable, pc_next, branch_pc_next, BranchPcNext
    <2>3. QED
      BY <2>1, <2>2
  <1>8. QED
    BY <1>3, <1>4, <1>5, <1>6, <1>7 DEF check_redirect, check_bubble, check_zero_pc

-----------------------------------------------------------------------------
(* The two decoders of the pipeline's world: the RTL's and the reference   *)
(* model's                                                                 *)

\* A 7-bit field is its top bit beside the six others; a 5-bit field is its upper
\* four beside the lowest.
LEMMA FieldSplit ==
    /\ \A f \in Nat : f < 128 =>
          /\ f \div 64 \in Nat /\ f \div 64 < 2 /\ f % 64 \in Nat /\ f % 64 < 64
          /\ f = 64 * (f \div 64) + (f % 64)
    /\ \A r \in Nat : r < 32 =>
          /\ r % 2 \in Nat /\ r % 2 < 2 /\ r \div 2 \in Nat /\ r \div 2 < 16
  <1>1. \A f \in Nat : f < 128 => f \div 64 \in Nat /\ f \div 64 < 2 /\ f % 64 \in Nat /\ f % 64 < 64
    BY SMT
  <1>2. \A f \in Nat : f = 64 * (f \div 64) + (f % 64)
    BY SMT
  <1>3. \A r \in Nat : r < 32 => r % 2 \in Nat /\ r % 2 < 2 /\ r \div 2 \in Nat /\ r \div 2 < 16
    BY SMT
  <1>4. QED
    BY <1>1, <1>2, <1>3

\* The fields as bounded naturals, the form arithmetic wants.
LEMMA FieldBounds ==
    ASSUME NEW i \in Instr
    PROVE  /\ i.rd \in Nat /\ i.rd < 32 /\ i.rs1 \in Nat /\ i.rs1 < 32
           /\ i.rs2 \in Nat /\ i.rs2 < 32 /\ i.funct3 \in Nat /\ i.funct3 < 8
           /\ i.funct7 \in Nat /\ i.funct7 < 128
  <1>1. \A n : (n \in 0 .. 31 => n \in Nat /\ n < 32) /\ (n \in 0 .. 7 => n \in Nat /\ n < 8)
                 /\ (n \in 0 .. 127 => n \in Nat /\ n < 128)
    OBVIOUS
  <1>2. QED
    BY <1>1, InstrFields, ZenonT(60) DEF RegIndex

\* Sign extension by comparing with the sign bit's weight, and by subtracting that
\* weight if the bit is set.
LEMMA SignedValue ==
    ASSUME NEW raw \in Int, NEW val \in Int, NEW sign \in Int,
           (raw < sign /\ raw = val) \/ (~(raw < sign) /\ raw - 2 * sign = val)
    PROVE  SignExtend(raw, sign) = Trunc(val)
  BY SMT DEF SignExtend

\* The reference model's immediate extractors and the RTL's cut the same value out
\* of every instruction word, although they treat the sign differently.
LEMMA ImmediatesMatch ==
    ASSUME NEW i \in Instr
    PROVE  /\ imm_i(i) = IssSext12(i) /\ imm_s(i) = IssImmS(i)
           /\ imm_b(i) = IssImmB(i)   /\ imm_j(i) = IssImmJ(i)
  <1> DEFINE top == i.funct7 \div 64
             low == i.funct7 % 64
             mid == i.rs1 * 8 + i.funct3
             be == i.rd % 2
             bq == i.rd \div 2
             je == i.rs2 % 2
             jq == i.rs2 \div 2
  <1>1. i.rs2 \in Nat /\ i.rs2 < 32 /\ i.rd \in Nat /\ i.rd < 32
    BY FieldBounds
  <1>2. top \in Nat /\ top < 2 /\ low \in Nat /\ low < 64 /\ i.funct7 = 64 * top + low
    BY FieldBounds, FieldSplit, SMT
  <1>3. be \in Nat /\ be < 2 /\ bq \in Nat /\ bq < 16 /\ je \in Nat /\ je < 2 /\ jq \in Nat /\ jq < 16
    BY FieldBounds, FieldSplit, ZenonT(60)
  <1>4. mid \in Nat /\ mid < 256
    BY FieldBounds, SMT
  <1> DEFINE iraw == i.funct7 * 32 + i.rs2
             ival == (i.funct7 - 128 * top) * 32 + i.rs2
             sraw == i.funct7 * 32 + i.rd
             sval == (i.funct7 - 128 * top) * 32 + i.rd
             braw == top * 4096 + be * 2048 + low * 32 + bq * 2
             bval == be * 2048 + low * 32 + bq * 2 - top * 4096
             jraw == top * 1048576 + mid * 4096 + je * 2048 + low * 32 + jq * 2
             jval == mid * 4096 + je * 2048 + low * 32 + jq * 2 - top * 1048576
  <1>5. /\ imm_i(i) = SignExtend(iraw, 2048) /\ IssSext12(i) = Trunc(ival)
        /\ imm_s(i) = SignExtend(sraw, 2048) /\ IssImmS(i) = Trunc(sval)
    BY SMT DEF imm_i, imm_s, IssSext12, IssImmS, SignedTop7, SignBit
  <1>6. imm_b(i) = SignExtend(braw, 4096) /\ IssImmB(i) = Trunc(bval)
    BY SMT DEF imm_b, IssImmB, SignBit
  <1>7. imm_j(i) = SignExtend(jraw, 1048576) /\ IssImmJ(i) = Trunc(jval)
    BY SMT DEF imm_j, IssImmJ, SignBit
  <1> HIDE DEF top, low, mid, be, bq, je, jq
  <1>8. CASE top = 0
    <2>1. iraw \in Int /\ iraw < 2048 /\ iraw = ival /\ sraw \in Int /\ sraw < 2048 /\ sraw = sval
      BY <1>1, <1>2, <1>8, SMT
    <2>2. braw \in Int /\ braw < 4096 /\ braw = bval
      BY <1>2, <1>3, <1>8, SMT
    <2>3. jraw \in Int /\ jraw < 1048576 /\ jraw = jval
      BY <1>2, <1>3, <1>4, <1>8, SMT
    <2> HIDE DEF iraw, ival, sraw, sval, braw, bval, jraw, jval
    <2>4. QED
      BY <1>5, <1>6, <1>7, <2>1, <2>2, <2>3, SignedValue, SMT
  <1>9. CASE top = 1
    <2>1. /\ iraw \in Int /\ ival \in Int /\ ~(iraw < 2048) /\ iraw - 2 * 2048 = ival
          /\ sraw \in Int /\ sval \in Int /\ ~(sraw < 2048) /\ sraw - 2 * 2048 = sval
      BY <1>1, <1>2, <1>9, SMT
    <2>2. braw \in Int /\ bval \in Int /\ ~(braw < 4096) /\ braw - 2 * 4096 = bval
      BY <1>2, <1>3, <1>9, SMT
    <2>3. jraw \in Int /\ jval \in Int /\ ~(jraw < 1048576) /\ jraw - 2 * 1048576 = jval
      BY <1>2, <1>3, <1>4, <1>9, SMT
    <2> HIDE DEF iraw, ival, sraw, sval, braw, bval, jraw, jval
    <2>4. QED
      BY <1>5, <1>6, <1>7, <2>1, <2>2, <2>3, SignedValue, SMT
  <1>10. QED
    BY <1>2, <1>8, <1>9, SMT

\* The low five bits of a sign-extended immediate are its low five bits: the RTL
\* shifts by them, the reference model by the field rs2.
LEMMA ShiftAmount == ASSUME NEW i \in Instr PROVE ShAmt(imm_i(i)) = i.rs2
  <1> DEFINE k == i.funct7 - 128 * SignBit(i)
             n == k * 32 + i.rs2
             d == n \div WordMod
             q == WordMod \div 32
  <1>1. WordMod \in Int /\ WordMod > 0 /\ q \in Int /\ WordMod = 32 * q
    BY WordFacts
  <1>2. i.rs2 \in Nat /\ i.rs2 < 32 /\ k \in Int
    BY FieldBounds DEF SignBit
  <1>3. imm_i(i) = n % WordMod
    BY ImmediatesMatch DEF IssSext12, SignedTop7, Trunc
  <1>4. ASSUME NEW a \in Int, NEW m \in Int, m > 0
        PROVE  a \div m \in Int /\ a = m * (a \div m) + (a % m)
    BY <1>4, SMT
  <1> DEFINE e == n % WordMod
             x == q * d
  <1>5. n \in Int
    BY <1>2, SMT
  <1> HIDE DEF k, n, q
  <1>6. d \in Int /\ n = WordMod * d + e
    BY <1>1, <1>4, <1>5, Zenon
  <1> HIDE DEF d, e
  <1>7. x \in Int /\ WordMod * d = 32 * x
    <2>1. ASSUME NEW u \in Int, NEW v \in Int
          PROVE  (32 * u) * v = 32 * (u * v) /\ u * v \in Int
      BY SMT
    <2>2. QED
      BY <1>1, <1>6, <2>1, Zenon
  <1> DEFINE y == k - x
  <1> HIDE DEF x
  <1>8. e = y * 32 + i.rs2 /\ y \in Int
    <2>1. n = k * 32 + i.rs2 /\ n = 32 * x + e
      BY <1>6, <1>7, Zenon DEF n
    <2>2. e \in Int
      BY <1>1, <1>5, SMT DEF e
    <2>3. QED
      BY <1>2, <1>7, <2>1, <2>2, SMT
  <1> HIDE DEF y
  <1>9. \A j \in Int, r \in Nat : r < 32 => (j * 32 + r) % 32 = r
    BY SMT
  <1>10. e % 32 = i.rs2
    BY <1>2, <1>8, <1>9, Zenon
  <1>11. QED
    BY <1>3, <1>10, Zenon DEF ShAmt, e, n, k

\* On the encodings both decoders know, the RTL's ALU computes the reference model's
\* register-register and register-immediate results and its branch decision.
LEMMA RegisterResult ==
    ASSUME NEW i \in Instr, i.opcode = R_TYPE, Agreed(i), NEW v1, NEW v2
    PROVE  AluResult(RTypeAluOp(i), v1, v2) = ArithResult(i, v1, v2, v2 % 32, Alternate(i))
  <1>1. i.funct3 \in {0, 1, 2, 3, 4, 5, 6, 7} /\ (Alternate(i) <=> i.funct7 = 32)
    BY InstrFields, SMT DEF Agreed, Alternate
  <1>2. ShAmt(v2) = v2 % 32
    BY DEF ShAmt
  <1>3. CASE i.funct3 = 0 /\ Alternate(i)
    <2>1. RTypeAluOp(i) = "SUB"
      BY <1>1, <1>3 DEF RTypeAluOp
    <2>2. AluResult("SUB", v1, v2) = Minus(v1, v2)
      BY <1>2 DEF AluResult
    <2>3. ArithResult(i, v1, v2, v2 % 32, Alternate(i)) = Minus(v1, v2)
      BY <1>3 DEF ArithResult
    <2>4. QED
      BY <2>1, <2>2, <2>3
  <1>4. CASE i.funct3 = 0 /\ ~Alternate(i)
    <2>1. RTypeAluOp(i) = "ADD"
      BY <1>1, <1>4 DEF RTypeAluOp
    <2>2. AluResult("ADD", v1, v2) = Plus(v1, v2)
      BY <1>2 DEF AluResult
    <2>3. ArithResult(i, v1, v2, v2 % 32, Alternate(i)) = Plus(v1, v2)
      BY <1>4 DEF ArithResult
    <2>4. QED
      BY <2>1, <2>2, <2>3
  <1>5. CASE i.funct3 = 1
    <2>1. RTypeAluOp(i) = "SLL"
      BY <1>1, <1>5 DEF RTypeAluOp
    <2>2. AluResult("SLL", v1, v2) = ShiftLeft(v1, v2 % 32)
      BY <1>2 DEF AluResult
    <2>3. ArithResult(i, v1, v2, v2 % 32, Alternate(i)) = ShiftLeft(v1, v2 % 32)
      BY <1>5 DEF ArithResult
    <2>4. QED
      BY <2>1, <2>2, <2>3
  <1>6. CASE i.funct3 = 2
    <2>1. RTypeAluOp(i) = "SLT"
      BY <1>1, <1>6 DEF RTypeAluOp
    <2>2. AluResult("SLT", v1, v2) = Flag(Signed(v1) < Signed(v2))
      BY <1>2 DEF AluResult
    <2>3. ArithResult(i, v1, v2, v2 % 32, Alternate(i)) = Flag(Signed(v1) < Signed(v2))
      BY <1>6 DEF ArithResult
    <2>4. QED
      BY <2>1, <2>2, <2>3
  <1>7. CASE i.funct3 = 3
    <2>1. RTypeAluOp(i) = "SLTU"
      BY <1>1, <1>7 DEF RTypeAluOp
    <2>2. AluResult("SLTU", v1, v2) = Flag(v1 < v2)
      BY <1>2 DEF AluResult
    <2>3. ArithResult(i, v1, v2, v2 % 32, Alternate(i)) = Flag(v1 < v2)
      BY <1>7 DEF ArithResult
    <2>4. QED
      BY <2>1, <2>2, <2>3
  <1>8. CASE i.funct3 = 4
    <2>1. RTypeAluOp(i) = "XOR"
      BY <1>1, <1>8 DEF RTypeAluOp
    <2>2. AluResult("XOR", v1, v2) = BitXor(v1, v2)
      BY <1>2 DEF AluResult
    <2>3. ArithResult(i, v1, v2, v2 % 32, Alternate(i)) = BitXor(v1, v2)
      BY <1>8 DEF ArithResult
    <2>4. QED
      BY <2>1, <2>2, <2>3
  <1>9. CASE i.funct3 = 5 /\ Alternate(i)
    <2>1. RTypeAluOp(i) = "SRA"
      BY <1>1, <1>9 DEF RTypeAluOp
    <2>2. AluResult("SRA", v1, v2) = ShiftRightArith(v1, v2 % 32)
      BY <1>2 DEF AluResult
    <2>3. ArithResult(i, v1, v2, v2 % 32, Alternate(i)) = ShiftRightArith(v1, v2 % 32)
      BY <1>9 DEF ArithResult
    <2>4. QED
      BY <2>1, <2>2, <2>3
  <1>10. CASE i.funct3 = 5 /\ ~Alternate(i)
    <2>1. RTypeAluOp(i) = "SRL"
      BY <1>1, <1>10 DEF RTypeAluOp
    <2>2. AluResult("SRL", v1, v2) = ShiftRight(v1, v2 % 32)
      BY <1>2 DEF AluResult
    <2>3. ArithResult(i, v1, v2, v2 % 32, Alternate(i)) = ShiftRight(v1, v2 % 32)
      BY <1>10 DEF ArithResult
    <2>4. QED
      BY <2>1, <2>2, <2>3
  <1>11. CASE i.funct3 = 6
    <2>1. RTypeAluOp(i) = "OR"
      BY <1>1, <1>11 DEF RTypeAluOp
    <2>2. AluResult("OR", v1, v2) = BitOr(v1, v2)
      BY <1>2 DEF AluResult
    <2>3. ArithResult(i, v1, v2, v2 % 32, Alternate(i)) = BitOr(v1, v2)
      BY <1>11 DEF ArithResult
    <2>4. QED
      BY <2>1, <2>2, <2>3
  <1>12. CASE i.funct3 = 7
    <2>1. RTypeAluOp(i) = "AND"
      BY <1>1, <1>12 DEF RTypeAluOp
    <2>2. AluResult("AND", v1, v2) = BitAnd(v1, v2)
      BY <1>2 DEF AluResult
    <2>3. ArithResult(i, v1, v2, v2 % 32, Alternate(i)) = BitAnd(v1, v2)
      BY <1>12 DEF ArithResult
    <2>4. QED
      BY <2>1, <2>2, <2>3
  <1>13. QED
    BY <1>1, <1>3, <1>4, <1>5, <1>6, <1>7, <1>8, <1>9, <1>10, <1>11, <1>12

\* OP-IMM: the ALU computes what the reference model does, shifts included.
LEMMA ImmediateResult ==
    ASSUME NEW i \in Instr, NEW v1
    PROVE  AluResult(ITypeAluOp(i), v1, imm_i(i)) = ArithResult(i, v1, IssSext12(i), i.rs2, FALSE)
  <1>1. i.funct3 \in {0, 1, 2, 3, 4, 5, 6, 7}
    BY InstrFields
  <1>2. imm_i(i) = IssSext12(i) /\ ShAmt(imm_i(i)) = i.rs2
    BY ImmediatesMatch, ShiftAmount
  <1>3. CASE i.funct3 = 0
    <2>1. ITypeAluOp(i) = "ADD"
      BY <1>1, <1>3 DEF ITypeAluOp
    <2>2. AluResult("ADD", v1, imm_i(i)) = Plus(v1, IssSext12(i))
      BY <1>2 DEF AluResult
    <2>3. ArithResult(i, v1, IssSext12(i), i.rs2, FALSE) = Plus(v1, IssSext12(i))
      BY <1>3 DEF ArithResult
    <2>4. QED
      BY <2>1, <2>2, <2>3
  <1>4. CASE i.funct3 = 1
    <2>1. ITypeAluOp(i) = "SLL"
      BY <1>1, <1>4 DEF ITypeAluOp
    <2>2. AluResult("SLL", v1, imm_i(i)) = ShiftLeft(v1, i.rs2)
      BY <1>2 DEF AluResult
    <2>3. ArithResult(i, v1, IssSext12(i), i.rs2, FALSE) = ShiftLeft(v1, i.rs2)
      BY <1>4 DEF ArithResult
    <2>4. QED
      BY <2>1, <2>2, <2>3
  <1>5. CASE i.funct3 = 2
    <2>1. ITypeAluOp(i) = "SLT"
      BY <1>1, <1>5 DEF ITypeAluOp
    <2>2. AluResult("SLT", v1, imm_i(i)) = Flag(Signed(v1) < Signed(IssSext12(i)))
      BY <1>2 DEF AluResult
    <2>3. ArithResult(i, v1, IssSext12(i), i.rs2, FALSE) = Flag(Signed(v1) < Signed(IssSext12(i)))
      BY <1>5 DEF ArithResult
    <2>4. QED
      BY <2>1, <2>2, <2>3
  <1>6. CASE i.funct3 = 3
    <2>1. ITypeAluOp(i) = "SLTU"
      BY <1>1, <1>6 DEF ITypeAluOp
    <2>2. AluResult("SLTU", v1, imm_i(i)) = Flag(v1 < IssSext12(i))
      BY <1>2 DEF AluResult
    <2>3. ArithResult(i, v1, IssSext12(i), i.rs2, FALSE) = Flag(v1 < IssSext12(i))
      BY <1>6 DEF ArithResult
    <2>4. QED
      BY <2>1, <2>2, <2>3
  <1>7. CASE i.funct3 = 4
    <2>1. ITypeAluOp(i) = "XOR"
      BY <1>1, <1>7 DEF ITypeAluOp
    <2>2. AluResult("XOR", v1, imm_i(i)) = BitXor(v1, IssSext12(i))
      BY <1>2 DEF AluResult
    <2>3. ArithResult(i, v1, IssSext12(i), i.rs2, FALSE) = BitXor(v1, IssSext12(i))
      BY <1>7 DEF ArithResult
    <2>4. QED
      BY <2>1, <2>2, <2>3
  <1>8. CASE i.funct3 = 5 /\ Alternate(i)
    <2>1. ITypeAluOp(i) = "SRA"
      BY <1>1, <1>8 DEF ITypeAluOp, Alternate
    <2>2. AluResult("SRA", v1, imm_i(i)) = ShiftRightArith(v1, i.rs2)
      BY <1>2 DEF AluResult
    <2>3. ArithResult(i, v1, IssSext12(i), i.rs2, FALSE) = ShiftRightArith(v1, i.rs2)
      BY <1>8 DEF ArithResult
    <2>4. QED
      BY <2>1, <2>2, <2>3
  <1>9. CASE i.funct3 = 5 /\ ~Alternate(i)
    <2>1. ITypeAluOp(i) = "SRL"
      BY <1>1, <1>9 DEF ITypeAluOp, Alternate
    <2>2. AluResult("SRL", v1, imm_i(i)) = ShiftRight(v1, i.rs2)
      BY <1>2 DEF AluResult
    <2>3. ArithResult(i, v1, IssSext12(i), i.rs2, FALSE) = ShiftRight(v1, i.rs2)
      BY <1>9 DEF ArithResult
    <2>4. QED
      BY <2>1, <2>2, <2>3
  <1>10. CASE i.funct3 = 6
    <2>1. ITypeAluOp(i) = "OR"
      BY <1>1, <1>10 DEF ITypeAluOp
    <2>2. AluResult("OR", v1, imm_i(i)) = BitOr(v1, IssSext12(i))
      BY <1>2 DEF AluResult
    <2>3. ArithResult(i, v1, IssSext12(i), i.rs2, FALSE) = BitOr(v1, IssSext12(i))
      BY <1>10 DEF ArithResult
    <2>4. QED
      BY <2>1, <2>2, <2>3
  <1>11. CASE i.funct3 = 7
    <2>1. ITypeAluOp(i) = "AND"
      BY <1>1, <1>11 DEF ITypeAluOp
    <2>2. AluResult("AND", v1, imm_i(i)) = BitAnd(v1, IssSext12(i))
      BY <1>2 DEF AluResult
    <2>3. ArithResult(i, v1, IssSext12(i), i.rs2, FALSE) = BitAnd(v1, IssSext12(i))
      BY <1>11 DEF ArithResult
    <2>4. QED
      BY <2>1, <2>2, <2>3
  <1>12. QED
    BY <1>1, <1>3, <1>4, <1>5, <1>6, <1>7, <1>8, <1>9, <1>10, <1>11

\* Branches: the zero flag of a subtraction decides what the reference model compares.
LEMMA BranchResult ==
    ASSUME NEW i \in Instr, i.opcode = BRANCH, Agreed(i), NEW v1 \in Word, NEW v2 \in Word
    PROVE  BranchTaken(Decode(i).branch, Decode(i).branch_type, AluZero(AluResult("SUB", v1, v2)))
             <=> BranchDecision(i, v1, v2)
  <1> DEFINE on == {"branch"} \cup (IF i.funct3 % 2 = 1 THEN {"branch_type"} ELSE {})
  <1>1. Decode(i) = Signals(i, imm_b(i), "SUB", on)
    BY DEF Decode, R_TYPE, I_TYPE, LOAD, STORE, BRANCH, JAL
  <1>2. "branch" \in on /\ ("branch_type" \in on <=> i.funct3 % 2 = 1)
    OBVIOUS
  <1> HIDE DEF on
  <1>3. Decode(i).branch /\ (Decode(i).branch_type <=> i.funct3 % 2 = 1)
    BY <1>1, <1>2, SignalFields
  <1>4. (i.funct3 = 0 <=> ~(i.funct3 % 2 = 1))
    BY InstrFields, SMT DEF Agreed
  <1>5. QED
    BY <1>3, <1>4, SubtractionZero DEF BranchTaken, ConditionMet, BranchDecision

-----------------------------------------------------------------------------
(* Reading the architectural state off the pipeline                        *)

\* The abstract registers, memory and PC are typed.
LEMMA MemResultType ==
    ASSUME StateTypeOK
    PROVE  /\ MemResult \in Word /\ AfterWb \in [RegIndex -> Word] /\ ArchRegs \in [RegIndex -> Word]
           /\ ArchDmem \in [0 .. DMEM_WORDS - 1 -> Word]
           /\ ArchPc \in Word
  <1>1. MemResult \in Word
    BY WireTypes DEF MemResult, StateTypeOK, ExMemType
  <1>2. AfterWb \in [RegIndex -> Word]
    BY WireTypes DEF AfterWb, StateTypeOK, MemWbType
  <1>3. ArchRegs \in [RegIndex -> Word]
    BY <1>1, <1>2 DEF ArchRegs, StateTypeOK, ExMemType
  <1>4. ArchDmem \in [0 .. DMEM_WORDS - 1 -> Word]
    BY DEF ArchDmem, StateTypeOK, ExMemType
  <1>5. ArchPc \in Word
    BY DEF ArchPc, StateTypeOK, IfIdType, IdExType
  <1>6. QED
    BY <1>1, <1>2, <1>3, <1>4, <1>5

\* The forwarding network delivers the architectural value of a register to EX,
\* wherever in the pipeline its youngest writer is.
LEMMA ForwardedOperand ==
    ASSUME StateTypeOK, Coherent, NEW rs \in {id_ex.ctl.rs1, id_ex.ctl.rs2}
    PROVE  Forwarded(ForwardFor(rs), regs[rs]) = ArchRegs[rs]
  <1>1. rs \in RegIndex /\ (ex_mem.mem_to_reg => ForwardFor(rs) # "MEM")
    BY DEF StateTypeOK, IdExType, DecodedSignals, Coherent, NeverForwardsFromLoad, forward_a, forward_b
  <1>2. /\ regs \in [RegIndex -> Word] /\ mem_wb.rd \in RegIndex /\ ex_mem.rd \in RegIndex
    BY DEF StateTypeOK, MemWbType, ExMemType
  <1>3. AfterWb[rs] = IF WbWrites(rs) THEN wb_write_data ELSE regs[rs]
    BY <1>1, <1>2 DEF AfterWb, WbWrites
  <1>4. ArchRegs[rs] = IF ex_mem.reg_write /\ ex_mem.rd = rs /\ ex_mem.rd # 0
                       THEN MemResult ELSE AfterWb[rs]
    BY <1>1, <1>2, MemResultType DEF ArchRegs
  <1>5. CASE ex_mem.reg_write /\ ex_mem.rd = rs /\ ex_mem.rd # 0
    <2>1. ForwardFor(rs) = "MEM"
      BY <1>5 DEF ForwardFor, ForwardSelect
    <2>2. MemResult = ex_mem_forward_data
      BY <1>1, <2>1 DEF MemResult, ex_mem_forward_data
    <2>3. QED
      BY <1>4, <1>5, <2>1, <2>2 DEF Forwarded
  <1>6. CASE ~(ex_mem.reg_write /\ ex_mem.rd = rs /\ ex_mem.rd # 0) /\ WbWrites(rs)
    <2>1. ForwardFor(rs) = "WB"
      BY <1>6 DEF ForwardFor, ForwardSelect, WbWrites
    <2>2. QED
      BY <1>3, <1>4, <1>6, <2>1 DEF Forwarded
  <1>7. CASE ~(ex_mem.reg_write /\ ex_mem.rd = rs /\ ex_mem.rd # 0) /\ ~WbWrites(rs)
    <2>1. ForwardFor(rs) = "RF"
      BY <1>7 DEF ForwardFor, ForwardSelect, WbWrites
    <2>2. QED
      BY <1>3, <1>4, <1>7, <2>1 DEF Forwarded
  <1>8. QED
    BY <1>5, <1>6, <1>7

\* The operands in EX, after forwarding, are the abstract registers.
LEMMA ExOperands ==
    ASSUME StateTypeOK, Coherent
    PROVE  /\ ex_alu_in1 = ArchRegs[id_ex.ctl.rs1]
           /\ forwarded_rs2_data = ArchRegs[id_ex.ctl.rs2]
           /\ ex_alu_in2 = IF id_ex.ctl.alu_src THEN id_ex.ctl.imm ELSE ArchRegs[id_ex.ctl.rs2]
  <1>1. id_ex.rs1_data = regs[id_ex.ctl.rs1] /\ id_ex.rs2_data = regs[id_ex.ctl.rs2]
    BY DEF Coherent, OperandsCurrent
  <1>2. QED
    BY <1>1, ForwardedOperand
       DEF ex_alu_in1, ex_alu_in2, forwarded_rs2_data, forward_a, forward_b

-----------------------------------------------------------------------------
(* What one clock does to that state                                       *)

\* On an edge outside reset every always_ff block takes its clocked branch.
LEMMA ClockBlocks ==
    ASSUME StateTypeOK, Edge
    PROVE  /\ PcReg(FALSE) /\ IfIdReg(FALSE) /\ IdExReg(FALSE)
           /\ ExMemReg(FALSE) /\ MemWbReg(FALSE) /\ RegFile(FALSE) /\ DataMem
           /\ instr_mem' = instr_mem /\ rst' = FALSE /\ reported' = AboutToCommit
  BY DEF Edge, Advance, Tick, Posedge, Registers, StateTypeOK

\* WB retires into the register file and MEM moves to WB: the register file with the
\* writes of WB on top is what it was with those of WB and MEM on top.
LEMMA RegistersMoveOn ==
    ASSUME StateTypeOK, Edge
    PROVE  /\ regs' = AfterWb
           /\ wb_write_data' = MemResult
           /\ AfterWb' = ArchRegs
           /\ data_mem' = ArchDmem
  <1>1. regs' = AfterWb
    BY ClockBlocks DEF RegFile, AfterWb
  <1>2. mem_wb' = ToWb
    BY ClockBlocks DEF MemWbReg
  <1>3. wb_write_data' = MemResult
    BY <1>2 DEF wb_write_data, ToWb, MemResult
  <1>4. AfterWb' = ArchRegs
    BY <1>1, <1>2, <1>3 DEF AfterWb, ArchRegs, ToWb
  <1>5. data_mem' = ArchDmem
    BY ClockBlocks DEF DataMem, ArchDmem
  <1>6. QED
    BY <1>1, <1>3, <1>4, <1>5

\* The commits of the instruction in MEM.
MemCommits == IF ex_mem.mem_write
              THEN <<MemCommit(ex_mem.alu_result \div 4, ex_mem.rs2_data)>> ELSE <<>>
RegCommits == IF ex_mem.reg_write /\ ex_mem.rd # 0
              THEN <<RegCommit(ex_mem.rd, MemResult)>> ELSE <<>>

CommitsTyped == MemCommits \in Seq(CommitRecord) /\ RegCommits \in Seq(CommitRecord)

\* The commits of one state
LEMMA CommitsType == StateTypeOK => CommitsTyped
  <1> SUFFICES ASSUME StateTypeOK PROVE CommitsTyped
    OBVIOUS
  <1>1. RegCommit(ex_mem.rd, MemResult) \in CommitRecord
    BY MemResultType DEF RegCommit, CommitRecord, StateTypeOK, ExMemType
  <1>2. MemCommit(ex_mem.alu_result \div 4, ex_mem.rs2_data) \in CommitRecord
    BY WordSelect DEF MemCommit, CommitRecord, StateTypeOK, ExMemType
  <1>3. QED
    BY <1>1, <1>2 DEF CommitsTyped, MemCommits, RegCommits

\* and of the next.
LEMMA CommitsTypeNext == StateTypeOK' => CommitsTyped'
  BY CommitsType, PTL

\* One clock reports what was about to commit and appends the commits of the
\* instruction that leaves EX: nothing is lost, repeated or reordered on the way.
LEMMA CommitsMoveOn ==
    ASSUME StateTypeOK, StateTypeOK', Edge
    PROVE  reported' \o InFlight' = InFlight \o (MemCommits' \o RegCommits')
  <1>1. mem_wb' = ToWb /\ wb_write_data' = MemResult /\ reported' = AboutToCommit
    BY ClockBlocks, RegistersMoveOn DEF MemWbReg
  <1>2. AboutToCommit' = RegCommits \o MemCommits'
    BY <1>1 DEF AboutToCommit, RegCommits, MemCommits, ToWb
  <1>3. InFlight = AboutToCommit \o RegCommits /\ InFlight' = AboutToCommit' \o RegCommits'
    BY DEF InFlight, RegCommits
  <1>4. /\ AboutToCommit \in Seq(CommitRecord) /\ RegCommits \in Seq(CommitRecord)
        /\ MemCommits' \in Seq(CommitRecord) /\ RegCommits' \in Seq(CommitRecord)
    <2>1. MemCommits' \in Seq(CommitRecord) /\ RegCommits' \in Seq(CommitRecord)
      BY CommitsTypeNext DEF CommitsTyped
    <2>2. QED
      BY <2>1, ReportType, CommitsType DEF CommitsTyped
  <1>5. QED
    <2> DEFINE a == AboutToCommit
               b == RegCommits
               c == MemCommits'
               d == RegCommits'
    <2>1. b \o c \in Seq(CommitRecord) /\ c \o d \in Seq(CommitRecord)
      BY <1>4, ConcatProperties
    <2>2. (a \o b) \o (c \o d) = a \o (b \o (c \o d))
      BY <1>4, <2>1, ConcatAssociative
    <2>3. b \o (c \o d) = (b \o c) \o d
      BY <1>4, ConcatAssociative
    <2>4. QED
      BY <1>1, <1>2, <1>3, <2>2, <2>3

\* A bubble in EX raises nothing.
LEMMA BubbleIsQuiet ==
    ASSUME StateTypeOK, Coherent, ~vEX
    PROVE  /\ ~id_ex.ctl.reg_write /\ ~id_ex.ctl.mem_read /\ ~id_ex.ctl.mem_write
           /\ ~jump_taken /\ ~branch_taken
  <1>1. id_ex.ctl = Signals(ZeroInstr, 0, "ADD", {})
    BY DecodeZero DEF Coherent, FetchedInOrder
  <1>2. QED
    BY <1>1, SignalFields DEF jump_taken, branch_taken, BranchTaken

\* The architectural pc moves when an instruction leaves EX, to its target if it
\* redirects and to the next word otherwise, and stays put under a bubble.
LEMMA PcMovesOn ==
    ASSUME StateTypeOK, Coherent, Edge
    PROVE  ArchPc' = IF vEX THEN (IF jump_taken \/ branch_taken
                                  THEN Plus(id_ex.pc, id_ex.ctl.imm) ELSE Plus(id_ex.pc, 4))
                     ELSE ArchPc
  <1>1. /\ PcReg(FALSE) /\ IfIdReg(FALSE) /\ IdExReg(FALSE)
    BY ClockBlocks
  <1>2. vEX => vID /\ if_id.pc = Plus(id_ex.pc, 4)
    BY DEF Coherent, FetchedInOrder
  <1>3. CASE jump_taken \/ branch_taken
    <2>1. vEX
      BY <1>3, BubbleIsQuiet
    <2>2. ~vID' /\ ~vEX'
      BY <1>3 DEF Edge, Advance, flush_if_id, flush_id_ex
    <2>3. pc' = Plus(id_ex.pc, id_ex.ctl.imm)
      BY <1>3, ClockAsserts DEF check_redirect
    <2>4. QED
      BY <1>3, <2>1, <2>2, <2>3 DEF ArchPc
  <1>4. CASE ~(jump_taken \/ branch_taken) /\ load_use_hazard
    <2>1. vEX
      BY <1>4, BubbleIsQuiet DEF load_use_hazard, LoadUseHazard
    <2>2. ~vEX' /\ vID' /\ if_id' = if_id
      BY <1>1, <1>2, <1>4, <2>1 DEF Edge, Advance, flush_if_id, flush_id_ex, insert_bubble,
                                    if_id_write_enable, IfIdReg, StateTypeOK
    <2>3. QED
      BY <1>2, <1>4, <2>1, <2>2 DEF ArchPc
  <1>5. CASE ~(jump_taken \/ branch_taken) /\ ~load_use_hazard
    <2>1. vID' /\ vEX' = vID /\ if_id'.pc = pc
      BY <1>1, <1>5 DEF Edge, Advance, flush_if_id, flush_id_ex, insert_bubble, if_id_write_enable,
                        IfIdReg, StateTypeOK
    <2>2. id_ex'.pc = if_id.pc
      BY <1>1, <1>5 DEF IdExReg, flush_id_ex, insert_bubble
    <2>3. CASE vEX
      BY <1>2, <1>5, <2>1, <2>2, <2>3 DEF ArchPc
    <2>4. CASE ~vEX /\ vID
      BY <2>1, <2>2, <2>4 DEF ArchPc
    <2>5. CASE ~vEX /\ ~vID
      BY <2>1, <2>5 DEF ArchPc
    <2>6. QED
      BY <2>3, <2>4, <2>5
  <1>6. QED
    BY <1>3, <1>4, <1>5

-----------------------------------------------------------------------------
(* The strengthening of Coherent that the refinement needs.                *)

\* Only encodings both decoders agree on are ever loaded.
AgreedLoaded == \A w \in 0 .. IMEM_WORDS - 1 : Agreed(instr_mem[w])

\* While rst is high nothing is in flight and the architectural state is initial.
HeldInReset ==
    rst => /\ pc = 0 /\ regs = RegsReset
           /\ ex_mem = ExMemReset /\ mem_wb = MemWbReset
           /\ reported = <<>>

RefinementInv == StateTypeOK /\ Coherent /\ AgreedLoaded /\ HeldInReset

\* A loaded memory holds only instructions the two decoders agree on.
LEMMA AgreedImages == \A m \in ImemImages : \A w \in 0 .. IMEM_WORDS - 1 : Agreed(m[w])
  <1>1. Agreed(ZeroInstr)
    BY DEF Agreed, ZeroInstr, R_TYPE, BRANCH
  <1>2. ASSUME NEW prog \in PROGRAMS, NEW w \in 0 .. IMEM_WORDS - 1
        PROVE  Agreed(LoadedImem(prog)[w])
    <2>1. CASE w < Len(prog)
      <3>1. w + 1 \in 1 .. Len(prog)
        BY <2>1, ProgramAssumption, MemoryAssumption
      <3>2. QED
        BY <2>1, <3>1, AgreedPrograms DEF LoadedImem
    <2>2. CASE ~(w < Len(prog))
      BY <1>1, <2>2 DEF LoadedImem
    <2>3. QED
      BY <2>1, <2>2
  <1>3. QED
    BY <1>2 DEF ImemImages

\* The refinement's invariant holds of a cleared pipeline
LEMMA ClearedIsReady ==
    ASSUME Cleared, rst \in BOOLEAN, AgreedLoaded,
           instr_mem \in [0 .. IMEM_WORDS - 1 -> Instr],
           data_mem \in [0 .. DMEM_WORDS - 1 -> Word]
    PROVE  RefinementInv
  BY ClearedIsTyped, ClearedIsCoherent DEF RefinementInv, HeldInReset, Cleared

\* and is kept by every call of the driver.
LEMMA RefinementInvStep == RefinementInv /\ [StateNext]_state_vars => RefinementInv'
  <1> SUFFICES ASSUME RefinementInv, [StateNext]_state_vars PROVE RefinementInv'
    OBVIOUS
  <1> USE DEF RefinementInv
  <1>1. StateTypeOK' /\ Coherent'
    BY TypeStep, CoherentStep
  <1>2. AgreedLoaded' /\ HeldInReset'
    <2>1. CASE Restart
      <3>1. instr_mem' \in ImemImages /\ Registers(TRUE) /\ reported' = <<>>
        BY <2>1 DEF Restart, LoadAndReset, RstRise
      <3>2. QED
        BY <3>1, AgreedImages
           DEF AgreedLoaded, HeldInReset, Registers, PcReg, ExMemReg, MemWbReg, RegFile
    <2>2. CASE KeepReset
      <3>1. Registers(TRUE) /\ rst /\ instr_mem' = instr_mem /\ reported' = reported
        BY <2>2 DEF KeepReset, ResetClock, Posedge, StateTypeOK, driver_vars
      <3>2. QED
        BY <3>1 DEF AgreedLoaded, HeldInReset, Registers, PcReg, ExMemReg, MemWbReg, RegFile
    <2>3. CASE LeaveReset
      BY <2>3 DEF LeaveReset, ReleaseReset, RstFall, AgreedLoaded, HeldInReset
    <2>4. CASE Edge
      BY <2>4, ClockBlocks DEF AgreedLoaded, HeldInReset
    <2>5. CASE UNCHANGED state_vars
      BY <2>5 DEF state_vars, dut_vars, driver_vars, stages, AgreedLoaded, HeldInReset
    <2>6. QED
      BY <2>1, <2>2, <2>3, <2>4, <2>5 DEF StateNext
  <1>3. QED
    BY <1>1, <1>2

-----------------------------------------------------------------------------
(* A clock with an architectural instruction in EX                         *)

\* What a clock makes of the architectural state, in terms of the control signals of
\* the instruction in EX.
LEMMA ClockEffect ==
    ASSUME StateTypeOK, Coherent, Edge
    PROVE  /\ ArchRegs' = IF id_ex.ctl.reg_write /\ id_ex.ctl.rd # 0
                          THEN [ArchRegs EXCEPT ![id_ex.ctl.rd] = MemResult'] ELSE ArchRegs
           /\ ArchDmem' = IF id_ex.ctl.mem_write
                          THEN [ArchDmem EXCEPT ![DmemWord(ex_alu_result)] = ArchRegs[id_ex.ctl.rs2]]
                          ELSE ArchDmem
           /\ MemResult' = IF id_ex.ctl.jump THEN id_ex.pc_plus4
                           ELSE IF id_ex.ctl.mem_to_reg THEN ArchDmem[DmemWord(ex_alu_result)]
                           ELSE ex_alu_result
           /\ RegCommits' = IF id_ex.ctl.reg_write /\ id_ex.ctl.rd # 0
                            THEN <<RegCommit(id_ex.ctl.rd, MemResult')>> ELSE <<>>
           /\ MemCommits' = IF id_ex.ctl.mem_write
                            THEN <<MemCommit(ex_alu_result \div 4, ArchRegs[id_ex.ctl.rs2])>>
                            ELSE <<>>
  <1>1. ex_mem' = ToMem /\ AfterWb' = ArchRegs /\ data_mem' = ArchDmem
    BY ClockBlocks, RegistersMoveOn DEF ExMemReg
  <1>2. forwarded_rs2_data = ArchRegs[id_ex.ctl.rs2]
    BY ExOperands
  <1>3. id_ex.ctl.mem_read <=> id_ex.ctl.mem_to_reg
    BY DecodeControl DEF StateTypeOK, IdExType, Coherent, FetchedInOrder
  <1>4. ArchRegs' = IF id_ex.ctl.reg_write /\ id_ex.ctl.rd # 0
                    THEN [ArchRegs EXCEPT ![id_ex.ctl.rd] = MemResult'] ELSE ArchRegs
    BY <1>1 DEF ArchRegs, ToMem
  <1>5. ArchDmem' = IF id_ex.ctl.mem_write
                    THEN [ArchDmem EXCEPT ![DmemWord(ex_alu_result)] = ArchRegs[id_ex.ctl.rs2]]
                    ELSE ArchDmem
    BY <1>1, <1>2 DEF ArchDmem, ToMem, DmemWord
  <1>6. MemResult' = IF id_ex.ctl.jump THEN id_ex.pc_plus4
                     ELSE IF id_ex.ctl.mem_to_reg THEN ArchDmem[DmemWord(ex_alu_result)]
                     ELSE ex_alu_result
    BY <1>1, <1>3 DEF MemResult, mem_dmem_rdata, ToMem, DmemWord
  <1>7. RegCommits' = IF id_ex.ctl.reg_write /\ id_ex.ctl.rd # 0
                      THEN <<RegCommit(id_ex.ctl.rd, MemResult')>> ELSE <<>>
    BY <1>1 DEF RegCommits, ToMem, RegCommit
  <1>8. MemCommits' = IF id_ex.ctl.mem_write
                      THEN <<MemCommit(ex_alu_result \div 4, ArchRegs[id_ex.ctl.rs2])>>
                      ELSE <<>>
    BY <1>1, <1>2 DEF MemCommits, ToMem, MemCommit
  <1>9. QED
    BY <1>4, <1>5, <1>6, <1>7, <1>8

\* The clock did to the architectural state what e says, and e's commits are the ones
\* the instruction takes into MEM.
Matches(e) ==
    /\ ArchPc' = e.pc /\ ArchRegs' = e.regs /\ ArchDmem' = e.dmem
    /\ MemCommits' \o RegCommits' = e.commits

\* An instruction leaving EX that writes a register does so in the abstract registers.
LEMMA WritesRegister ==
    ASSUME StateTypeOK, Coherent, Edge, vEX,
           id_ex.ctl.reg_write, ~id_ex.ctl.mem_write,
           NEW val, MemResult' = val, NEW target, ArchPc' = target
    PROVE  Matches(RegWrite(ArchRegs, ArchDmem, id_ex.ctl.rd, val, target))
  <1> DEFINE e == RegWrite(ArchRegs, ArchDmem, id_ex.ctl.rd, val, target)
             rd == id_ex.ctl.rd
  <1>1. /\ e.pc = target /\ e.dmem = ArchDmem
        /\ e.regs = (IF rd # 0 THEN [ArchRegs EXCEPT ![rd] = val] ELSE ArchRegs)
        /\ e.commits = (IF rd # 0 THEN <<RegCommit(rd, val)>> ELSE <<>>)
    BY DEF RegWrite
  <1>2. /\ ArchRegs' = (IF rd # 0 THEN [ArchRegs EXCEPT ![rd] = val] ELSE ArchRegs)
        /\ ArchDmem' = ArchDmem
        /\ RegCommits' = (IF rd # 0 THEN <<RegCommit(rd, val)>> ELSE <<>>)
        /\ MemCommits' = <<>>
    BY ClockEffect
  <1> HIDE DEF e
  <1>3. MemCommits' \o RegCommits' = e.commits
    BY <1>1, <1>2
  <1>4. QED
    BY <1>1, <1>2, <1>3 DEF Matches, e

\* The abstract PC follows the instruction that leaves EX.
LEMMA Redirects ==
    ASSUME StateTypeOK, Coherent, Edge, vEX
    PROVE  /\ ~id_ex.ctl.jump /\ ~id_ex.ctl.branch => ArchPc' = Plus(id_ex.pc, 4)
           /\ id_ex.ctl.jump => ArchPc' = Plus(id_ex.pc, id_ex.ctl.imm)
  BY PcMovesOn DEF jump_taken, branch_taken, BranchTaken

\* On a clock with an architectural instruction in EX the pipeline does what the
\* reference model's execute_one does, opcode by opcode.
LEMMA ReferenceStep ==
    ASSUME StateTypeOK, Coherent, Edge, vEX, Agreed(id_ex.instr)
    PROVE  Matches(ExecuteOne(id_ex.pc, ArchRegs, ArchDmem, id_ex.instr))
  <1> DEFINE i == id_ex.instr
             ctl == id_ex.ctl
             rv1 == ArchRegs[i.rs1]
             rv2 == ArchRegs[i.rs2]
             next == Plus(id_ex.pc, 4)
             e == ExecuteOne(id_ex.pc, ArchRegs, ArchDmem, i)
  <1>1. /\ i \in Instr /\ ctl = Decode(i) /\ ctl.rs1 = i.rs1 /\ ctl.rs2 = i.rs2 /\ ctl.rd = i.rd
        /\ ctl.imm \in Word
    BY DecodeControl, DecodeType DEF StateTypeOK, IdExType, Coherent, FetchedInOrder, DecodedSignals
  <1>2. /\ ex_alu_in1 = rv1
        /\ ctl.alu_src => ex_alu_in2 = ctl.imm
        /\ ~ctl.alu_src => ex_alu_in2 = rv2
    BY <1>1, ExOperands
  <1>3. rv1 \in Word /\ rv2 \in Word
    BY <1>1, MemResultType, InstrFields
  <1>4. id_ex.pc_plus4 = next
    BY DEF Coherent, FetchedInOrder
  <1>5. \A a : DmemWord(a) = DmemIndex(a)
    BY DEF DmemWord, DmemIndex
  <1> HIDE DEF i, ctl, rv1, rv2, next, e
  <1> USE DEF R_TYPE, I_TYPE, LOAD, STORE, BRANCH, JAL
  <1>6. CASE i.opcode = R_TYPE
    <2>1. Decode(i) = Signals(i, 0, RTypeAluOp(i), {"reg_write"})
      BY <1>6 DEF Decode
    <2>2. /\ ctl.reg_write /\ ~ctl.mem_write /\ ~ctl.mem_to_reg /\ ~ctl.jump /\ ~ctl.branch
          /\ ~ctl.alu_src /\ ctl.alu_op = RTypeAluOp(i)
      BY <1>1, <2>1, SignalFields
    <2>3. ex_alu_result = ArithResult(i, rv1, rv2, rv2 % 32, Alternate(i))
      BY <1>1, <1>2, <1>6, <2>2, RegisterResult DEF ex_alu_result, ctl, i
    <2>4. MemResult' = ex_alu_result /\ ArchPc' = next
      BY <2>2, ClockEffect, Redirects DEF ctl, next
    <2>5. e = RegWrite(ArchRegs, ArchDmem, i.rd, ArithResult(i, rv1, rv2, rv2 % 32, Alternate(i)), next)
      BY <1>6 DEF e, ExecuteOne, rv1, rv2, next
    <2>6. QED
      BY <1>1, <2>2, <2>3, <2>4, <2>5, WritesRegister DEF ctl, e, i
  <1>7. CASE i.opcode = I_TYPE
    <2>1. Decode(i) = Signals(i, imm_i(i), ITypeAluOp(i), {"reg_write", "alu_src"})
      BY <1>7 DEF Decode
    <2>2. /\ ctl.reg_write /\ ~ctl.mem_write /\ ~ctl.mem_to_reg /\ ~ctl.jump /\ ~ctl.branch
          /\ ctl.alu_src /\ ctl.alu_op = ITypeAluOp(i) /\ ctl.imm = imm_i(i)
      BY <1>1, <2>1, SignalFields
    <2>3. ex_alu_result = ArithResult(i, rv1, IssSext12(i), i.rs2, FALSE)
      BY <1>1, <1>2, <2>2, ImmediateResult DEF ex_alu_result, ctl, i
    <2>4. MemResult' = ex_alu_result /\ ArchPc' = next
      BY <2>2, ClockEffect, Redirects DEF ctl, next
    <2>5. e = RegWrite(ArchRegs, ArchDmem, i.rd, ArithResult(i, rv1, IssSext12(i), i.rs2, FALSE), next)
      BY <1>7 DEF e, ExecuteOne, rv1, next
    <2>6. QED
      BY <1>1, <2>2, <2>3, <2>4, <2>5, WritesRegister DEF ctl, e, i
  <1>8. CASE i.opcode = LOAD
    <2>1. Decode(i) = Signals(i, imm_i(i), "ADD", {"reg_write", "alu_src", "mem_read", "mem_to_reg"})
      BY <1>8 DEF Decode
    <2>2. /\ ctl.reg_write /\ ~ctl.mem_write /\ ctl.mem_to_reg /\ ~ctl.jump /\ ~ctl.branch
          /\ ctl.alu_src /\ ctl.alu_op = "ADD" /\ ctl.imm = imm_i(i)
      BY <1>1, <2>1, SignalFields
    <2>3. ex_alu_result = Plus(rv1, IssSext12(i))
      BY <1>1, <1>2, <2>2, ImmediatesMatch DEF ex_alu_result, ctl, i, AluResult
    <2>4. MemResult' = ArchDmem[DmemIndex(Plus(rv1, IssSext12(i)))] /\ ArchPc' = next
      BY <1>5, <2>2, <2>3, ClockEffect, Redirects DEF ctl, next
    <2>5. e = RegWrite(ArchRegs, ArchDmem, i.rd, ArchDmem[DmemIndex(Plus(rv1, IssSext12(i)))], next)
      BY <1>8 DEF e, ExecuteOne, rv1, next
    <2>6. QED
      BY <1>1, <2>2, <2>4, <2>5, WritesRegister DEF ctl, e, i
  <1>9. CASE i.opcode = STORE
    <2>1. Decode(i) = Signals(i, imm_s(i), "ADD", {"alu_src", "mem_write"})
      BY <1>9 DEF Decode
    <2>2. /\ ~ctl.reg_write /\ ctl.mem_write /\ ~ctl.jump /\ ~ctl.branch
          /\ ctl.alu_src /\ ctl.alu_op = "ADD" /\ ctl.imm = imm_s(i)
      BY <1>1, <2>1, SignalFields
    <2> DEFINE ea == Plus(rv1, IssImmS(i))
    <2>3. ex_alu_result = ea
      BY <1>1, <1>2, <2>2, ImmediatesMatch DEF ex_alu_result, ctl, i, AluResult
    <2>4. /\ ArchRegs' = ArchRegs /\ ArchDmem' = [ArchDmem EXCEPT ![DmemIndex(ea)] = rv2]
          /\ RegCommits' = <<>> /\ MemCommits' = <<MemCommit(ea \div 4, rv2)>>
          /\ ArchPc' = next
      BY <1>1, <1>5, <2>2, <2>3, ClockEffect, Redirects DEF ctl, next, rv2
    <2>5. e = [pc |-> next, regs |-> ArchRegs,
               dmem |-> [ArchDmem EXCEPT ![DmemIndex(ea)] = rv2],
               commits |-> <<MemCommit(ea \div 4, rv2)>>]
      BY <1>9 DEF e, ExecuteOne, rv1, rv2, next
    <2>6. QED
      BY <2>4, <2>5 DEF Matches, e, i
  <1>10. CASE i.opcode = BRANCH
    <2> DEFINE taken == BranchDecision(i, rv1, rv2)
    <2>1. Decode(i) = Signals(i, imm_b(i), "SUB",
                         {"branch"} \cup (IF i.funct3 % 2 = 1 THEN {"branch_type"} ELSE {}))
      BY <1>10 DEF Decode
    <2>2. /\ ~ctl.reg_write /\ ~ctl.mem_write /\ ~ctl.jump /\ ~ctl.alu_src
          /\ ctl.alu_op = "SUB" /\ ctl.imm = imm_b(i)
      BY <1>1, <2>1, SignalFields
    <2>3. branch_taken <=> taken
      BY <1>1, <1>2, <1>3, <1>10, <2>2, BranchResult
         DEF branch_taken, ex_zero, ex_alu_result, ctl, i
    <2>4. ArchPc' = IF taken THEN Plus(id_ex.pc, IssImmB(i)) ELSE next
      BY <1>1, <2>2, <2>3, PcMovesOn, ImmediatesMatch DEF ctl, next, jump_taken
    <2>5. /\ ArchRegs' = ArchRegs /\ ArchDmem' = ArchDmem
          /\ RegCommits' = <<>> /\ MemCommits' = <<>>
      BY <2>2, ClockEffect DEF ctl
    <2>6. e = [pc |-> IF taken THEN Plus(id_ex.pc, IssImmB(i)) ELSE next,
               regs |-> ArchRegs, dmem |-> ArchDmem, commits |-> <<>>]
      BY <1>10 DEF e, ExecuteOne, rv1, rv2, next
    <2>7. QED
      BY <2>4, <2>5, <2>6 DEF Matches, e, i
  <1>11. CASE i.opcode = JAL
    <2>1. Decode(i) = Signals(i, imm_j(i), "ADD", {"reg_write", "alu_src", "jump"})
      BY <1>11 DEF Decode
    <2>2. ctl.reg_write /\ ~ctl.mem_write /\ ctl.jump /\ ctl.imm = imm_j(i)
      BY <1>1, <2>1, SignalFields
    <2>3. MemResult' = next /\ ArchPc' = Plus(id_ex.pc, IssImmJ(i))
      BY <1>1, <1>4, <2>2, ClockEffect, Redirects, ImmediatesMatch DEF ctl
    <2>4. e = RegWrite(ArchRegs, ArchDmem, i.rd, next, Plus(id_ex.pc, IssImmJ(i)))
      BY <1>11 DEF e, ExecuteOne, next
    <2>5. QED
      BY <1>1, <2>2, <2>3, <2>4, WritesRegister DEF ctl, e, i
  <1>12. CASE i.opcode \notin {R_TYPE, I_TYPE, LOAD, STORE, BRANCH, JAL}
    <2>1. Decode(i) = Signals(i, 0, "ADD", {})
      BY <1>12 DEF Decode
    <2>2. ~ctl.reg_write /\ ~ctl.mem_write /\ ~ctl.jump /\ ~ctl.branch
      BY <1>1, <2>1, SignalFields
    <2>3. /\ ArchRegs' = ArchRegs /\ ArchDmem' = ArchDmem
          /\ RegCommits' = <<>> /\ MemCommits' = <<>> /\ ArchPc' = next
      BY <2>2, ClockEffect, Redirects DEF ctl, next
    <2>4. e = [pc |-> next, regs |-> ArchRegs, dmem |-> ArchDmem, commits |-> <<>>]
      BY <1>12 DEF e, ExecuteOne, next
    <2>5. QED
      BY <2>3, <2>4 DEF Matches, e, i
  <1>13. QED
    BY <1>6, <1>7, <1>8, <1>9, <1>10, <1>11, <1>12

-----------------------------------------------------------------------------
(* Every step of the pipeline is a step of ProgramOrder                    *)

\* With nothing past EX the abstract state is the register file and the memory.
LEMMA NothingInFlight ==
    ASSUME ex_mem = ExMemReset, mem_wb = MemWbReset
    PROVE  InFlight = <<>> /\ ArchRegs = regs /\ ArchDmem = data_mem
  BY DEF InFlight, AboutToCommit, ArchRegs, AfterWb, ArchDmem, MemWbReset, ExMemReset

\* A cleared pipeline is a processor at its start.
LEMMA RefineInit ==
    ASSUME Cleared, instr_mem \in ImemImages, data_mem \in DmemImages
    PROVE  Order!Init
  <1>1. InFlight = <<>> /\ ArchRegs = regs /\ ArchDmem = data_mem /\ ArchPc = pc
    BY NothingInFlight DEF Cleared, ArchPc
  <1>2. QED
    BY <1>1 DEF Cleared, Order!Init

\* A clock that finds an instruction in EX completes it; where the pc has left
\* instruction memory nothing is promised.
LEMMA RefineExecute ==
    ASSUME RefinementInv, StateTypeOK', Edge, vEX
    PROVE  Order!Execute \/ OutOfMemory(ArchPc)
  <1> SUFFICES ASSUME ~OutOfMemory(ArchPc) PROVE Order!Execute
    OBVIOUS
  <1> USE DEF RefinementInv
  <1>1. ArchPc = id_ex.pc /\ id_ex.pc \in Word /\ id_ex.instr = instr_mem[ImemWord(id_ex.pc)]
    BY DEF ArchPc, StateTypeOK, IdExType, Coherent, FetchedInOrder
  <1>2. ImemWord(id_ex.pc) = id_ex.pc \div 4 /\ ImemWord(id_ex.pc) \in 0 .. IMEM_WORDS - 1
    <2>1. id_ex.pc \div 4 \in Nat /\ id_ex.pc \div 4 < IMEM_WORDS
      BY <1>1, WordSelect, MemoryAssumption DEF OutOfMemory
    <2>2. ASSUME NEW a \in Nat, a < IMEM_WORDS PROVE a % IMEM_WORDS = a
      BY <2>2, MemoryAssumption
    <2>3. QED
      BY <1>1, <2>1, <2>2, WordSelect DEF ImemWord
  <1>3. Agreed(id_ex.instr)
    BY <1>1, <1>2 DEF AgreedLoaded
  <1> DEFINE e == ExecuteOne(ArchPc, ArchRegs, ArchDmem, instr_mem[ArchPc \div 4])
  <1>4. Matches(e)
    BY <1>1, <1>2, <1>3, ReferenceStep
  <1>5. reported' \o InFlight' = InFlight \o e.commits
    BY <1>4, CommitsMoveOn DEF Matches
  <1>6. instr_mem' = instr_mem
    BY ClockBlocks
  <1>7. QED
    BY <1>4, <1>5, <1>6 DEF Order!Execute, Matches

\* A clock that finds a bubble in EX completes nothing and only reports.
LEMMA RefineWait ==
    ASSUME RefinementInv, StateTypeOK', Edge, ~vEX
    PROVE  Order!Wait
  <1> USE DEF RefinementInv
  <1>1. /\ ArchRegs' = ArchRegs /\ ArchDmem' = ArchDmem
        /\ RegCommits' = <<>> /\ MemCommits' = <<>>
    BY BubbleIsQuiet, ClockEffect
  <1>2. ArchPc' = ArchPc
    BY PcMovesOn
  <1>3. InFlight \in Seq(CommitRecord)
    <2>1. InFlight = AboutToCommit \o RegCommits
      BY DEF InFlight, RegCommits
    <2>2. QED
      BY <2>1, ReportType, CommitsType, ConcatProperties DEF CommitsTyped
  <1>4. InFlight \o (MemCommits' \o RegCommits') = InFlight
    BY <1>1, <1>3, ConcatEmptySeq
  <1>5. reported' \o InFlight' = InFlight
    BY <1>4, CommitsMoveOn
  <1>6. instr_mem' = instr_mem
    BY ClockBlocks
  <1>7. QED
    BY <1>1, <1>2, <1>5, <1>6 DEF Order!Wait

\* Loading the next program into a running pipeline and resetting it leaves nothing of
\* the previous one but what data_mem was loaded with.
LEMMA RefineRestart ==
    ASSUME Restart
    PROVE  Order!Start
  <1>1. /\ pc' = 0 /\ regs' = RegsReset /\ ex_mem' = ExMemReset /\ mem_wb' = MemWbReset
        /\ ~vID' /\ ~vEX' /\ reported' = <<>>
        /\ instr_mem' \in ImemImages /\ data_mem' \in DmemImages
    BY DEF Restart, LoadAndReset, RstRise, Registers, PcReg, ExMemReg, MemWbReg, RegFile
  <1>2. InFlight' = <<>> /\ ArchRegs' = regs' /\ ArchDmem' = data_mem'
    BY <1>1 DEF InFlight, AboutToCommit, ArchRegs, AfterWb, ArchDmem, MemWbReset, ExMemReset
  <1>3. ArchPc' = pc'
    BY <1>1 DEF ArchPc
  <1>4. QED
    BY <1>1, <1>2, <1>3 DEF Order!Start

\* The rest of the reset is invisible.
LEMMA RefineReset ==
    ASSUME RefinementInv, KeepReset \/ LeaveReset
    PROVE  Order!Wait
  <1> USE DEF RefinementInv
  <1>1. /\ rst /\ ~vID /\ ~vEX
        /\ pc = 0 /\ regs = RegsReset /\ ex_mem = ExMemReset /\ mem_wb = MemWbReset
        /\ reported = <<>>
    BY DEF KeepReset, LeaveReset, ResetClock, ReleaseReset, HeldInReset, Coherent, FetchedInOrder
  <1>2. /\ pc' = pc /\ regs' = regs /\ ex_mem' = ex_mem /\ mem_wb' = mem_wb
        /\ data_mem' = data_mem /\ instr_mem' = instr_mem /\ reported' = reported
        /\ vID' = vID /\ vEX' = vEX
    <2>1. CASE KeepReset
      <3>1. Registers(TRUE) /\ DataMem /\ instr_mem' = instr_mem /\ reported' = reported
        BY <2>1 DEF KeepReset, ResetClock, Posedge, StateTypeOK, driver_vars
      <3>2. data_mem' = data_mem
        BY <1>1, <3>1 DEF DataMem, ExMemReset
      <3>3. QED
        BY <1>1, <2>1, <3>1, <3>2 DEF KeepReset, Registers, PcReg, ExMemReg, MemWbReg, RegFile
    <2>2. CASE LeaveReset
      BY <2>2 DEF LeaveReset, ReleaseReset, RstFall, stages
    <2>3. QED
      BY <2>1, <2>2
  <1>3. InFlight = <<>> /\ ArchRegs = regs /\ ArchDmem = data_mem /\ ArchPc = pc
    BY <1>1, NothingInFlight DEF ArchPc
  <1>4. InFlight' = <<>> /\ ArchRegs' = regs' /\ ArchDmem' = data_mem' /\ ArchPc' = pc'
    BY <1>1, <1>2 DEF InFlight, AboutToCommit, ArchRegs, AfterWb, ArchDmem, MemWbReset, ExMemReset, ArchPc
  <1>5. reported' \o InFlight' = InFlight
    BY <1>1, <1>2, <1>3, <1>4
  <1>6. QED
    BY <1>2, <1>3, <1>4, <1>5 DEF Order!Wait

\* Every step of the driver is a step of ProgramOrder or stutters.
LEMMA RefineStep ==
    RefinementInv /\ RefinementInv' /\ [StateNext]_state_vars => [Order!Next]_(Order!order_vars)
  <1> SUFFICES ASSUME RefinementInv, RefinementInv', [StateNext]_state_vars
               PROVE  [Order!Next]_(Order!order_vars)
    OBVIOUS
  <1>1. CASE Restart
    BY <1>1, RefineRestart DEF Order!Next
  <1>2. CASE KeepReset \/ LeaveReset
    BY <1>2, RefineReset DEF Order!Next
  <1>3. CASE Edge
    <2>1. CASE vEX
      BY <1>3, <2>1, RefineExecute DEF Order!Next, RefinementInv
    <2>2. CASE ~vEX
      BY <1>3, <2>2, RefineWait DEF Order!Next, RefinementInv
    <2>3. QED
      BY <2>1, <2>2
  <1>4. CASE UNCHANGED state_vars
    BY <1>4 DEF state_vars, dut_vars, driver_vars, stages, Order!order_vars, ArchPc, ArchRegs, AfterWb,
       MemResult, mem_dmem_rdata, wb_write_data, ArchDmem, InFlight, AboutToCommit
  <1>5. QED
    BY <1>1, <1>2, <1>3, <1>4 DEF StateNext
=============================================================================
