------------------------- MODULE PipelineIsaProofs -------------------------
(***************************************************************************)
(* Theorems about the pipeline under its driver, sequence after sequence,  *)
(* for every program, width, memory size and clock budget: what every      *)
(* state satisfies, what every clock does, that it executes in order, and  *)
(* what a sequence costs in clocks beside the reference model's trace.     *)
(***************************************************************************)
EXTENDS HazardTrace, PipelineProofs

-----------------------------------------------------------------------------
(* The driver under PipelineIsa takes the driver's steps                   *)

\* A clock the driver gives is an edge of the pipeline outside reset.
LEMMA ClockIsEdge == Clock => Edge
  BY AdvanceIsEdge DEF Clock

\* The module only adds a schedule to the driver: its steps are steps of ArchState.
LEMMA NextIsStateNext == [Next]_vars => [StateNext]_state_vars
  BY ClockIsEdge DEF Next, Begin, InReset, StateNext, vars

\* A pipeline starts cleared, with one of the loaded images.
LEMMA InitIsCleared ==
    Init => /\ Cleared /\ rst \in BOOLEAN /\ AgreedLoaded
            /\ instr_mem \in [0 .. IMEM_WORDS - 1 -> Instr]
            /\ data_mem \in [0 .. DMEM_WORDS - 1 -> Word]
  BY ImageTypes, AgreedImages DEF Init, AgreedLoaded

\* The base case of the two invariants,
LEMMA ReadyInit == Init => RefinementInv /\ TypeOK
  <1> SUFFICES ASSUME Init PROVE RefinementInv /\ TypeOK
    OBVIOUS
  <1>1. RefinementInv
    BY InitIsCleared, ClearedIsReady
  <1>2. started \in Nat
    BY DEF Init
  <1>3. QED
    BY <1>1, <1>2 DEF TypeOK, RefinementInv

\* the step from one state to the next,
LEMMA ReadyStep == RefinementInv /\ TypeOK /\ [Next]_vars => RefinementInv' /\ TypeOK'
  <1> SUFFICES ASSUME RefinementInv, TypeOK, [Next]_vars PROVE RefinementInv' /\ TypeOK'
    OBVIOUS
  <1>1. RefinementInv'
    BY NextIsStateNext, RefinementInvStep
  <1>2. started' \in Nat
    BY DEF TypeOK, Next, Begin, InReset, Clock, vars
  <1>3. QED
    BY <1>1, <1>2 DEF TypeOK, RefinementInv

\* and what they come to: typed, coherent and agreed in every reachable state.
LEMMA AlwaysReady == Spec => [](RefinementInv /\ TypeOK)
  BY ReadyInit, ReadyStep, PTL DEF Spec

\* Every reachable state is well typed: in particular every address is reduced
\* into its memory and every register keeps its width.
THEOREM TypeInvariant == Spec => []TypeOK
  BY AlwaysReady, PTL

\* In every reachable state the fetch order, the latched operands and the
\* latched signals are what the forwarding and flush logic relies on.
THEOREM CoherentInvariant == Spec => []Coherent
  <1>1. RefinementInv => Coherent
    BY DEF RefinementInv
  <1>2. QED
    BY <1>1, AlwaysReady, PTL

\* rv32i_pipe5_with_branches.sv 337-343 orders the redirect before the stall in
\* case both come together; they never do.
THEOREM StallRedirectExclusion == Spec => []StallExcludesRedirect
  <1>1. RefinementInv => StallExcludesRedirect
    BY StallIsNoRedirect DEF RefinementInv
  <1>2. QED
    BY <1>1, AlwaysReady, PTL

\* pipe_driver.h's check_assertions never reports on this pipeline: on every clock a
\* redirect comes from one instruction of the right kind and reaches its target, what
\* a stall or a flush puts into ID/EX can neither commit nor redirect, and the PC comes
\* back to 0 by a redirect only, unless the program sits at the end of the address space.
THEOREM DriverAssertions == Spec => AssertionsHold
  <1>1. RefinementInv =>
          [Clock => check_redirect /\ check_bubble /\ (WrapsAround \/ check_assertions)]_vars
    BY ClockIsEdge, ClockAsserts DEF RefinementInv, WrapsAround, check_assertions
  <1>2. QED
    BY <1>1, AlwaysReady, PTL DEF AssertionsHold

\* The pipeline, with its forwarding, stalls, flushes and resets at any point, shows
\* the architectural state and the commits of a machine that executes one whole
\* instruction of the reference model at a time, in program order, each commit reported
\* once; for every word width, memory size, program and clock budget.
THEOREM PipelineExecutesInOrder == Spec => ExecutesInOrder
  <1>1. Init => Order!Init
    BY InitIsCleared, RefineInit DEF Init
  <1>2. RefinementInv /\ RefinementInv' /\ [Next]_vars => [Order!Next]_(Order!order_vars)
    BY NextIsStateNext, RefineStep
  <1>3. QED
    BY <1>1, <1>2, AlwaysReady, PTL DEF Spec, ExecutesInOrder, Order!Spec

-----------------------------------------------------------------------------
(* The trace                                                               *)

\* What annotate_hazards keeps of a step.
WriterType == [rd : RegIndex, load : BOOLEAN]

TraceTypeOK ==
    /\ back1 \in WriterType /\ back2 \in WriterType
    /\ executed \in Nat /\ ldu_cnt_ \in Nat /\ ctl_cnt_ \in Nat

\* What MEM and WB are about to write are the registers of the last two steps: the
\* bubbles between them write nothing.
WritersAreRecent ==
    /\ ex_mem.reg_write /\ ex_mem.rd # 0 => ex_mem.rd = back1.rd
    /\ mem_wb.reg_write /\ mem_wb.rd # 0 => mem_wb.rd \in {back1.rd, back2.rd}

\* The clocks spent so far, by what the first two pipeline registers hold.  With
\* both empty, after a reset or a redirect, the two clocks of the refill are still to
\* come and the step before was no load.  With ID/EX alone empty, either one of them
\* is, or the instruction in ID has just been stalled behind a load.
ClockAccount ==
    /\ rst => executed = 0 /\ ldu_cnt_ = 0 /\ ctl_cnt_ = 0 /\ back1 = NoWriter /\ back2 = NoWriter
    /\ ~rst /\ ~vID => cycle_ = executed + 2 * ctl_cnt_ + ldu_cnt_ /\ ~back1.load
    /\ ~rst /\ vID /\ ~vEX =>
          cycle_ = 1 + executed + 2 * ctl_cnt_ + ldu_cnt_
                     + Flag(Annotation(if_id.instr, back1, back2) = "load_use")
    /\ CycleAccount

TraceInv == TypeOK /\ RefinementInv /\ TraceTypeOK /\ WritersAreRecent /\ ClockAccount
-----------------------------------------------------------------------------
(* The steps of the trace are steps of the pipeline                        *)

\* The annotation beside the pipeline only watches it.
LEMMA TraceStepIsStep == [TraceNext]_trace_vars => [Next]_vars
  BY DEF TraceNext, TraceBegin, TraceReset, TraceStep, TraceBubble, Next, trace_vars

\* What annotate_hazards remembers of an instruction.
LEMMA WriterIsTyped == ASSUME NEW i \in Instr PROVE Writer(i) \in WriterType
  BY DEF Writer, WriterType, Instr, RegIndex

\* The watching variables are typed at the start
LEMMA TraceTypeInit == TraceInit => TraceTypeOK
  BY DEF TraceInit, TraceTypeOK, NoWriter, WriterType, RegIndex

\* and stay so.
LEMMA TraceTypeStep == TypeOK /\ TraceTypeOK /\ [TraceNext]_trace_vars => TraceTypeOK'
  <1> SUFFICES ASSUME TypeOK, TraceTypeOK, [TraceNext]_trace_vars PROVE TraceTypeOK'
    OBVIOUS
  <1>1. CASE TraceBegin
    BY <1>1 DEF TraceBegin, TraceTypeOK, NoWriter, WriterType, RegIndex
  <1>2. CASE TraceReset \/ TraceBubble \/ UNCHANGED trace_vars
    BY <1>2 DEF TraceReset, TraceBubble, trace_vars, TraceTypeOK
  <1>3. CASE TraceStep
    <2>1. id_ex.instr \in Instr
      BY DEF TypeOK, StateTypeOK, IdExType
    <2>2. Flag(Annotated = "load_use") \in Nat /\ Flag(Transfers) \in Nat
      BY DEF Flag
    <2>3. QED
      BY <1>3, <2>1, <2>2, WriterIsTyped DEF TraceStep, TraceTypeOK
  <1>4. QED
    BY <1>1, <1>2, <1>3 DEF TraceNext

-----------------------------------------------------------------------------
(* Who wrote the registers MEM and WB are about to write                   *)

\* The last two instructions annotated are those that left EX last.
LEMMA WritersStep ==
    ASSUME TypeOK, Coherent, TraceTypeOK, WritersAreRecent, [TraceNext]_trace_vars
    PROVE  WritersAreRecent'
  <1>1. CASE TraceBegin
    <2>1. ex_mem' = ExMemReset /\ mem_wb' = MemWbReset
      BY <1>1 DEF TraceBegin, Begin, Restart, LoadAndReset, RstRise, Registers, ExMemReg, MemWbReg
    <2>2. QED
      BY <2>1 DEF WritersAreRecent, ExMemReset, MemWbReset
  <1>2. CASE TraceReset
    <2>1. CASE KeepReset
      <3>1. Registers(TRUE)
        BY <2>1 DEF KeepReset, ResetClock, Posedge, TypeOK, StateTypeOK
      <3>2. ex_mem' = ExMemReset /\ mem_wb' = MemWbReset
        BY <3>1 DEF Registers, ExMemReg, MemWbReg
      <3>3. QED
        BY <3>2 DEF WritersAreRecent, ExMemReset, MemWbReset
    <2>2. CASE LeaveReset
      BY <1>2, <2>2 DEF TraceReset, LeaveReset, ReleaseReset, RstFall, stages, WritersAreRecent
    <2>3. QED
      BY <1>2, <2>1, <2>2 DEF TraceReset, InReset
  <1>3. CASE TraceStep
    <2>1. ex_mem' = ToMem /\ mem_wb' = ToWb
      BY <1>3, ClockIsEdge, ClockBlocks DEF TypeOK, TraceStep, ExMemReg, MemWbReg
    <2>2. back1' = Writer(id_ex.instr) /\ back2' = back1
      BY <1>3 DEF TraceStep
    <2>3. /\ id_ex.ctl.rd = id_ex.instr.rd
          /\ id_ex.ctl.reg_write => id_ex.instr.opcode \in {R_TYPE, I_TYPE, LOAD, JAL}
      BY DecodeControl DEF TypeOK, StateTypeOK, IdExType, Coherent, FetchedInOrder
    <2>4. id_ex.ctl.reg_write => back1'.rd = id_ex.ctl.rd
      BY <2>2, <2>3 DEF Writer
    <2>5. QED
      BY <2>1, <2>2, <2>4 DEF WritersAreRecent, ToMem, ToWb
  <1>4. CASE TraceBubble
    <2>1. ex_mem' = ToMem /\ mem_wb' = ToWb /\ back1' = back1 /\ back2' = back2
      BY <1>4, ClockIsEdge, ClockBlocks DEF TypeOK, TraceBubble, ExMemReg, MemWbReg
    <2>2. ~id_ex.ctl.reg_write
      BY <1>4, BubbleIsQuiet DEF TypeOK, TraceBubble
    <2>3. QED
      BY <2>1, <2>2 DEF WritersAreRecent, ToMem, ToWb
  <1>5. CASE UNCHANGED trace_vars
    BY <1>5 DEF trace_vars, vars, state_vars, dut_vars, stages, WritersAreRecent
  <1>6. QED
    BY <1>1, <1>2, <1>3, <1>4, <1>5 DEF TraceNext

\* A forward is taken from a writer among the last two steps, so it is annotated.
LEMMA ForwardIsAnnotated ==
    ASSUME TypeOK, Coherent, TraceTypeOK, WritersAreRecent
    PROVE  ForwardsAreAnnotated
  <1> SUFFICES ASSUME forward_a # "RF" \/ forward_b # "RF" PROVE Annotated # "none"
    BY DEF ForwardsAreAnnotated
  <1>1. id_ex.ctl.rs1 = id_ex.instr.rs1 /\ id_ex.ctl.rs2 = id_ex.instr.rs2
    BY DecodeControl DEF TypeOK, StateTypeOK, IdExType, Coherent, FetchedInOrder
  <1>2. PICK rd : /\ rd # 0 /\ rd \in {id_ex.instr.rs1, id_ex.instr.rs2}
                  /\ \/ ex_mem.reg_write /\ rd = ex_mem.rd
                     \/ mem_wb.reg_write /\ rd = mem_wb.rd
    BY <1>1 DEF forward_a, forward_b, ForwardFor, ForwardSelect
  <1>3. rd = back1.rd \/ rd = back2.rd
    BY <1>2 DEF WritersAreRecent
  <1>4. QED
    BY <1>2, <1>3 DEF Annotated, Annotation, Uses
-----------------------------------------------------------------------------
(* The clocks                                                              *)

\* Behind an instruction in EX, the pipeline stalls exactly when the reference model
\* is going to annotate the instruction in ID with a load-use hazard.
LEMMA StallIsAnnotated ==
    ASSUME TypeOK, Coherent, NEW back
    PROVE  load_use_hazard <=>
             Annotation(if_id.instr, Writer(id_ex.instr), back) = "load_use"
  <1>1. /\ id_ex.ctl.rd = id_ex.instr.rd
        /\ id_ex.ctl.mem_read <=> id_ex.instr.opcode = LOAD
    BY DecodeControl DEF TypeOK, StateTypeOK, IdExType, Coherent, FetchedInOrder
  <1>2. id.rs1 = if_id.instr.rs1 /\ id.rs2 = if_id.instr.rs2
    BY DecodeControl DEF id, TypeOK, StateTypeOK, IfIdType
  <1>3. Writer(id_ex.instr).load <=> id_ex.ctl.mem_read
    BY <1>1 DEF Writer
  <1>4. id_ex.ctl.mem_read => Writer(id_ex.instr).rd = id_ex.ctl.rd
    BY <1>1 DEF Writer
  <1>5. load_use_hazard <=>
          /\ Writer(id_ex.instr).load
          /\ Uses(if_id.instr, Writer(id_ex.instr).rd)
    BY <1>2, <1>3, <1>4 DEF load_use_hazard, LoadUseHazard, Uses
  <1>6. QED
    BY <1>5 DEF Annotation

\* Behind anything but a load there is no load-use annotation.
LEMMA ReadyIsAnnotated ==
    ASSUME NEW i, NEW back1_, NEW back2_, ~back1_.load
    PROVE  Annotation(i, back1_, back2_) # "load_use"
  BY DEF Annotation

\* The pipeline redirects at the steps the reference model transfers control at.
LEMMA TransferIsRedirect ==
    ASSUME RefinementInv, vEX
    PROVE  flush_if_id <=> Transfers
  <1> DEFINE i == id_ex.instr
             ctl == id_ex.ctl
  <1>1. /\ StateTypeOK /\ Coherent /\ i \in Instr /\ ctl = Decode(i)
        /\ ctl.rs1 = i.rs1 /\ ctl.rs2 = i.rs2
        /\ (ctl.jump <=> i.opcode = JAL) /\ (ctl.branch <=> i.opcode = BRANCH)
    BY DecodeControl DEF RefinementInv, StateTypeOK, IdExType, Coherent, FetchedInOrder
  <1>2. Agreed(i)
    <2>1. i = instr_mem[ImemWord(id_ex.pc)] /\ id_ex.pc \in Word
      BY <1>1 DEF StateTypeOK, IdExType, Coherent, FetchedInOrder
    <2>2. ImemWord(id_ex.pc) \in 0 .. IMEM_WORDS - 1
      BY <2>1, WordSelect
    <2>3. QED
      BY <2>1, <2>2 DEF RefinementInv, AgreedLoaded
  <1>3. ArchRegs[i.rs1] \in Word /\ ArchRegs[i.rs2] \in Word
    BY <1>1, MemResultType, InstrFields
  <1>4. CASE i.opcode = BRANCH
    <2>1. /\ Decode(i) = Signals(i, imm_b(i), "SUB",
                {"branch"} \cup (IF i.funct3 % 2 = 1 THEN {"branch_type"} ELSE {}))
      BY <1>4 DEF Decode, R_TYPE, I_TYPE, LOAD, STORE, BRANCH, JAL
    <2>2. ~ctl.alu_src /\ ctl.alu_op = "SUB"
      BY <1>1, <2>1, SignalFields
    <2>3. ex_alu_in1 = ArchRegs[i.rs1] /\ ex_alu_in2 = ArchRegs[i.rs2]
      BY <1>1, <2>2, ExOperands
    <2>4. branch_taken <=> BranchDecision(i, ArchRegs[i.rs1], ArchRegs[i.rs2])
      BY <1>1, <1>2, <1>3, <1>4, <2>2, <2>3, BranchResult
         DEF branch_taken, ex_zero, ex_alu_result
    <2>5. ~jump_taken /\ i.opcode # JAL
      BY <1>1, <1>4 DEF jump_taken, BRANCH, JAL
    <2>6. QED
      BY <1>4, <2>4, <2>5 DEF flush_if_id, Transfers
  <1>5. CASE i.opcode # BRANCH
    <2>1. ~branch_taken
      BY <1>1, <1>5 DEF branch_taken, BranchTaken
    <2>2. QED
      BY <1>1, <1>5, <2>1 DEF flush_if_id, jump_taken, Transfers
  <1>6. QED
    BY <1>4, <1>5

\* One clock adds one to the clocks and one to what they are spent on.
LEMMA ClockAccountStep ==
    ASSUME TypeOK, Coherent, RefinementInv, TraceTypeOK, ClockAccount, Clock, TraceStep \/ TraceBubble
    PROVE  ClockAccount'
  <1> DEFINE ldu == Flag(Annotated = "load_use")
  <1>1. /\ PcReg(FALSE) /\ IfIdReg(FALSE) /\ IdExReg(FALSE)
        /\ ~rst /\ ~rst' /\ cycle_' = cycle_ + 1
    BY ClockIsEdge, ClockBlocks DEF TypeOK, Clock, Advance, Tick
  <1>2. /\ cycle_ \in Nat /\ executed \in Nat /\ ldu_cnt_ \in Nat /\ ctl_cnt_ \in Nat
        /\ vID \in BOOLEAN /\ vEX \in BOOLEAN /\ ldu \in Nat
    BY DEF TypeOK, StateTypeOK, TraceTypeOK, Flag
  <1>3. CASE ~vEX
    <2>1. /\ back1' = back1 /\ back2' = back2
          /\ executed' = executed /\ ldu_cnt_' = ldu_cnt_ /\ ctl_cnt_' = ctl_cnt_
      BY <1>3 DEF TraceStep, TraceBubble
    <2>2. ~flush_if_id /\ ~flush_id_ex /\ ~load_use_hazard
      BY <1>3, BubbleIsQuiet DEF TypeOK, flush_if_id, flush_id_ex, load_use_hazard, LoadUseHazard
    <2>3. vID' = TRUE /\ vEX' = vID
      BY <1>2, <2>2 DEF Clock, Advance, if_id_write_enable, insert_bubble
    <2>4. CASE ~vID
      <3>1. Annotation(if_id'.instr, back1', back2') # "load_use"
        BY <1>1, <2>1, <2>4, ReadyIsAnnotated DEF ClockAccount
      <3>2. QED
        BY <1>1, <1>2, <2>1, <2>3, <2>4, <3>1 DEF ClockAccount, CycleAccount, Flag
    <2>5. CASE vID
      <3>1. id_ex'.instr = if_id.instr
        BY <1>1, <2>2 DEF IdExReg, insert_bubble
      <3>2. Annotated' = Annotation(if_id.instr, back1, back2)
        BY <2>1, <3>1 DEF Annotated
      <3>3. QED
        BY <1>1, <1>2, <1>3, <2>1, <2>3, <2>5, <3>2 DEF ClockAccount, CycleAccount, Flag
    <2>6. QED
      BY <2>4, <2>5
  <1>4. CASE vEX
    <2>1. /\ back1' = Writer(id_ex.instr) /\ back2' = back1
          /\ executed' = executed + 1 /\ ldu_cnt_' = ldu_cnt_ + ldu
          /\ ctl_cnt_' = ctl_cnt_ + (IF flush_if_id THEN 1 ELSE 0)
      BY <1>4, TransferIsRedirect DEF TraceStep, TraceBubble, Flag
    <2>2. cycle_ = 2 + executed + 2 * ctl_cnt_ + ldu_cnt_ + ldu
      BY <1>4 DEF ClockAccount, CycleAccount
    <2>3. vID
      BY <1>4 DEF Coherent, FetchedInOrder
    <2> HIDE DEF ldu
    <2>4. CASE flush_if_id
      <3>1. vID' = FALSE /\ vEX' = FALSE
        BY <2>4 DEF Clock, Advance, flush_if_id, flush_id_ex
      <3>2. id_ex.instr.opcode = JAL \/ id_ex.instr.opcode = BRANCH
        BY <2>4, ClockIsEdge, ClockAsserts DEF TypeOK, flush_if_id, check_redirect
      <3>3. id_ex.instr.opcode # LOAD
        BY <3>2 DEF LOAD, JAL, BRANCH
      <3>4. ~back1'.load
        BY <2>1, <3>3 DEF Writer
      <3>5. QED
        BY <1>1, <1>2, <2>1, <2>2, <2>4, <3>1, <3>4 DEF ClockAccount, CycleAccount, Flag
    <2>5. CASE ~flush_if_id /\ load_use_hazard
      <3>1. vID' = TRUE /\ vEX' = FALSE /\ if_id' = if_id
        BY <1>1, <2>3, <2>5 DEF Clock, Advance, IfIdReg, if_id_write_enable, insert_bubble
      <3>2. Annotation(if_id'.instr, back1', back2') = "load_use"
        BY <2>1, <2>5, <3>1, StallIsAnnotated
      <3>3. QED
        BY <1>1, <1>2, <2>1, <2>2, <2>5, <3>1, <3>2 DEF ClockAccount, CycleAccount, Flag
    <2>6. CASE ~flush_if_id /\ ~load_use_hazard
      <3>1. vID' = TRUE /\ vEX' = TRUE /\ id_ex'.instr = if_id.instr
        BY <1>1, <2>3, <2>6 DEF Clock, Advance, IdExReg, if_id_write_enable, insert_bubble,
                                flush_if_id, flush_id_ex
      <3>2. Annotated' # "load_use"
        BY <2>1, <2>6, <3>1, StallIsAnnotated DEF Annotated
      <3>3. QED
        BY <1>1, <1>2, <2>1, <2>2, <2>6, <3>1, <3>2 DEF ClockAccount, CycleAccount, Flag
    <2>7. QED
      BY <2>4, <2>5, <2>6
  <1>5. QED
    BY <1>3, <1>4

\* So does every other step, or it touches neither.
LEMMA ClockAccountNext ==
    ASSUME TypeOK, Coherent, RefinementInv, TraceTypeOK, ClockAccount, [TraceNext]_trace_vars
    PROVE  ClockAccount'
  <1>1. CASE TraceBegin
    <2>1. rst' /\ ~vID' /\ ~vEX'
      BY <1>1 DEF TraceBegin, Begin, Restart, LoadAndReset, RstRise
    <2>2. QED
      BY <1>1, <2>1 DEF TraceBegin, ClockAccount, CycleAccount
  <1>2. CASE TraceReset
    <2>1. /\ executed = 0 /\ ldu_cnt_ = 0 /\ ctl_cnt_ = 0
          /\ back1 = NoWriter /\ back2 = NoWriter /\ ~vID /\ ~vEX
      BY <1>2 DEF TraceReset, InReset, KeepReset, LeaveReset, ResetClock, ReleaseReset, ClockAccount,
                  Coherent, FetchedInOrder
    <2>2. /\ executed' = 0 /\ ldu_cnt_' = 0 /\ ctl_cnt_' = 0
          /\ back1' = NoWriter /\ back2' = NoWriter /\ ~vID' /\ ~vEX'
      BY <1>2, <2>1 DEF TraceReset, InReset, KeepReset, LeaveReset
    <2>3. rst' \/ cycle_' = 0
      BY <1>2 DEF TraceReset, InReset, KeepReset, LeaveReset, ResetClock, Posedge, ReleaseReset
    <2>4. QED
      BY <2>2, <2>3 DEF ClockAccount, CycleAccount, NoWriter
  <1>3. CASE TraceStep \/ TraceBubble
    BY <1>3, ClockAccountStep DEF TraceStep, TraceBubble
  <1>4. CASE UNCHANGED trace_vars
    BY <1>4 DEF trace_vars, vars, state_vars, dut_vars, driver_vars, stages,
                ClockAccount, CycleAccount, Annotated
  <1>5. QED
    BY <1>1, <1>2, <1>3, <1>4 DEF TraceNext

-----------------------------------------------------------------------------

\* The invariant behind both statements about the trace: at the start,
LEMMA TraceInvInit == TraceInit => TraceInv
  <1> SUFFICES ASSUME TraceInit PROVE TraceInv
    OBVIOUS
  <1>1. TypeOK /\ RefinementInv /\ TraceTypeOK
    BY ReadyInit, TraceTypeInit DEF TraceInit
  <1>2. WritersAreRecent
    BY DEF TraceInit, Init, Cleared, WritersAreRecent, ExMemReset, MemWbReset
  <1>3. ClockAccount
    BY DEF TraceInit, Init, Cleared, ClockAccount, CycleAccount
  <1>4. QED
    BY <1>1, <1>2, <1>3 DEF TraceInv

\* from one state to the next,
LEMMA TraceInvStep == TraceInv /\ [TraceNext]_trace_vars => TraceInv'
  <1> SUFFICES ASSUME TraceInv, [TraceNext]_trace_vars PROVE TraceInv'
    OBVIOUS
  <1>1. TypeOK' /\ RefinementInv'
    BY TraceStepIsStep, ReadyStep DEF TraceInv
  <1>2. TraceTypeOK'
    BY TraceTypeStep DEF TraceInv
  <1>3. WritersAreRecent' /\ ClockAccount'
    BY WritersStep, ClockAccountNext DEF TraceInv, RefinementInv
  <1>4. QED
    BY <1>1, <1>2, <1>3 DEF TraceInv

\* and always.
LEMMA TraceInvariant == TraceSpec => []TraceInv
  BY TraceInvInit, TraceInvStep, PTL DEF TraceSpec

\* On every program the clocks a sequence has taken are two to fill the pipeline, one
\* per instruction, one per annotated load-use hazard and two per control transfer:
\* no stall is missed and none is added, whatever the path.
THEOREM ClocksAreAccounted == TraceSpec => []CycleAccount
  <1>1. TraceInv => CycleAccount
    BY DEF TraceInv, ClockAccount
  <1>2. QED
    BY <1>1, TraceInvariant, PTL

\* annotate_hazards looks far enough back: on every program each operand EX takes
\* from MEM or WB is a hazard of the reference model's trace.
THEOREM EveryForwardIsAnnotated == TraceSpec => []ForwardsAreAnnotated
  <1>1. TraceInv => ForwardsAreAnnotated
    BY ForwardIsAnnotated DEF TraceInv, RefinementInv
  <1>2. QED
    BY <1>1, TraceInvariant, PTL
=============================================================================
