---------------------------- MODULE DecoderProofs ----------------------------
(***************************************************************************)
(* Theorems about the three decoders and the testbench that compares two   *)
(* of them, for every instruction word, every plan and every defect.       *)
(***************************************************************************)
EXTENDS DecoderBench, CommonLemmas, FiniteSetTheorems

\* Testing the sign bit of a field of 12, 13 or 21 bits is comparing with its weight.
LEMMA SameTest ==
    ASSUME NEW raw \in Int, NEW sign \in Int, (raw \div sign) % 2 = 1 <=> ~(raw < sign)
    PROVE  sign_extend(raw, sign) = SignExtend(raw, sign)
  <1>1. CASE raw < sign
    <2>1. sign_extend(raw, sign) = Trunc(raw)
      BY <1>1, Zenon DEF sign_extend
    <2>2. SignExtend(raw, sign) = Trunc(raw)
      BY <1>1, Zenon DEF SignExtend
    <2>3. QED
      BY <2>1, <2>2
  <1>2. CASE ~(raw < sign)
    <2>1. sign_extend(raw, sign) = Trunc(raw - 2 * sign)
      BY <1>2, Zenon DEF sign_extend
    <2>2. SignExtend(raw, sign) = Trunc(raw - 2 * sign)
      BY <1>2, Zenon DEF SignExtend
    <2>3. QED
      BY <2>1, <2>2
  <1>3. QED
    BY <1>1, <1>2

\* Subtracting 2 * sign when the sign bit is set (decoder.cpp) is comparing with it.
LEMMA SignBitTest ==
    /\ \A raw \in Nat : raw < 4096 => sign_extend(raw, 2048) = SignExtend(raw, 2048)
    /\ \A raw \in Nat : raw < 8192 => sign_extend(raw, 4096) = SignExtend(raw, 4096)
    /\ \A raw \in Nat : raw < 2097152 => sign_extend(raw, 1048576) = SignExtend(raw, 1048576)
  <1>1. \A raw \in Nat : raw < 4096 => raw \in Int /\ ((raw \div 2048) % 2 = 1 <=> ~(raw < 2048))
    OBVIOUS
  <1>2. \A raw \in Nat : raw < 8192 => raw \in Int /\ ((raw \div 4096) % 2 = 1 <=> ~(raw < 4096))
    OBVIOUS
  <1>3. \A raw \in Nat : raw < 2097152 =>
          raw \in Int /\ ((raw \div 1048576) % 2 = 1 <=> ~(raw < 1048576))
    OBVIOUS
  <1>4. 2048 \in Int /\ 4096 \in Int /\ 1048576 \in Int
    OBVIOUS
  <1>5. QED
    BY <1>1, <1>2, <1>3, <1>4, SameTest, SMT

\* Two, four or five bit fields side by side make a number of the width of all of them.
LEMMA FieldWidths ==
    /\ \A f, r \in Nat : f < 128 /\ r < 32 => f * 32 + r \in Nat /\ f * 32 + r < 4096
    /\ \A a, b, c, d \in Nat : a < 2 /\ b < 2 /\ c < 64 /\ d < 16 =>
          /\ a * 4096 + b * 2048 + c * 32 + d * 2 \in Nat
          /\ a * 4096 + b * 2048 + c * 32 + d * 2 < 8192
    /\ \A a, b, c, d, e \in Nat : a < 2 /\ b < 256 /\ c < 2 /\ d < 64 /\ e < 16 =>
          /\ a * 1048576 + b * 4096 + c * 2048 + d * 32 + e * 2 \in Nat
          /\ a * 1048576 + b * 4096 + c * 2048 + d * 32 + e * 2 < 2097152
  OBVIOUS

\* The two C++ decoders extract the immediates the RTL extracts.
LEMMA ImmediatesAgree ==
    ASSUME NEW i \in Instr
    PROVE  /\ i_type(i) = imm_i(i) /\ s_type(i) = imm_s(i)
           /\ b_type(i) = imm_b(i) /\ j_type(i) = imm_j(i)
  <1> DEFINE top == i.funct7 \div 64
             low == i.funct7 % 64
  <1>1. /\ i.rd \in Nat /\ i.rd < 32 /\ i.rs1 \in Nat /\ i.rs1 < 32 /\ i.rs2 \in Nat /\ i.rs2 < 32
        /\ i.funct3 \in Nat /\ i.funct3 < 8 /\ i.funct7 \in Nat /\ i.funct7 < 128
    <2>1. \A n : (n \in 0 .. 31 => n \in Nat /\ n < 32) /\ (n \in 0 .. 7 => n \in Nat /\ n < 8)
                   /\ (n \in 0 .. 127 => n \in Nat /\ n < 128)
      OBVIOUS
    <2>2. QED
      BY <2>1, InstrFields, ZenonT(60) DEF RegIndex
  <1>2. /\ top \in Nat /\ top < 2 /\ low \in Nat /\ low < 64
        /\ i.rs1 * 8 + i.funct3 \in Nat /\ i.rs1 * 8 + i.funct3 < 256
    BY <1>1
  <1>3. \A n \in Nat : n < 32 => n % 2 \in Nat /\ n % 2 < 2 /\ n \div 2 \in Nat /\ n \div 2 < 16
    OBVIOUS
  <1>4. i_type(i) = imm_i(i) /\ s_type(i) = imm_s(i)
    BY <1>1, FieldWidths, SignBitTest, SMT DEF i_type, imm_i, s_type, imm_s
  <1> DEFINE braw == top * 4096 + (i.rd % 2) * 2048 + low * 32 + (i.rd \div 2) * 2
             jraw == top * 1048576 + (i.rs1 * 8 + i.funct3) * 4096
                       + (i.rs2 % 2) * 2048 + low * 32 + (i.rs2 \div 2) * 2
  <1>5. b_type(i) = sign_extend(braw, 4096) /\ imm_b(i) = SignExtend(braw, 4096)
        /\ j_type(i) = sign_extend(jraw, 1048576) /\ imm_j(i) = SignExtend(jraw, 1048576)
    BY SMT DEF b_type, imm_b, j_type, imm_j
  <1> HIDE DEF top, low
  <1>6. braw \in Nat /\ braw < 8192
    BY <1>1, <1>2, <1>3, FieldWidths, SMT
  <1>7. jraw \in Nat /\ jraw < 2097152
    BY <1>1, <1>2, <1>3, FieldWidths, SMT
  <1> HIDE DEF braw, jraw
  <1>8. QED
    BY <1>4, <1>5, <1>6, <1>7, SignBitTest, SMT

\* The operations the RTL, the device and the golden model read off funct3 and
\* funct7; the golden model reads an I-type shift with bit 30 of the word set, and
\* not all of funct7 that of SRAI, as SRLI.
UndefinedShift(i) ==
    i.opcode = I_TYPE /\ i.funct3 = 5 /\ (i.funct7 \div 32) % 2 = 1 /\ i.funct7 # 32

\* Each side's table of ALU operations says the same of a defined instruction.
LEMMA OperationsAgree ==
    ASSUME NEW i \in Instr
    PROVE  /\ dut_r_op(i) = RTypeAluOp(i) /\ golden_r_op(i) = RTypeAluOp(i)
           /\ dut_i_op(i) = ITypeAluOp(i)
           /\ i.opcode = I_TYPE /\ ~UndefinedShift(i) => golden_i_op(i) = ITypeAluOp(i)
  <1>1. i.funct3 \in {0, 1, 2, 3, 4, 5, 6, 7} /\ i.funct7 \in 0 .. 127
    BY InstrFields
  <1>2. /\ i.funct3 = 0 => Funct3Op(i.funct3) = "ADD" /\ RTypeAluOp(i) = (IF i.funct7 = 32 THEN "SUB" ELSE "ADD")
        /\ i.funct3 = 1 => Funct3Op(i.funct3) = "SLL" /\ RTypeAluOp(i) = "SLL"
        /\ i.funct3 = 2 => Funct3Op(i.funct3) = "SLT" /\ RTypeAluOp(i) = "SLT"
        /\ i.funct3 = 3 => Funct3Op(i.funct3) = "SLTU" /\ RTypeAluOp(i) = "SLTU"
        /\ i.funct3 = 4 => Funct3Op(i.funct3) = "XOR" /\ RTypeAluOp(i) = "XOR"
        /\ i.funct3 = 5 => Funct3Op(i.funct3) = "SRL" /\ RTypeAluOp(i) = (IF i.funct7 = 32 THEN "SRA" ELSE "SRL")
        /\ i.funct3 = 6 => Funct3Op(i.funct3) = "OR" /\ RTypeAluOp(i) = "OR"
        /\ i.funct3 = 7 => Funct3Op(i.funct3) = "AND" /\ RTypeAluOp(i) = "AND"
    BY <1>1 DEF Funct3Op, RTypeAluOp
  <1>3. ITypeAluOp(i) = IF i.funct3 = 5 /\ (i.funct7 \div 32) % 2 = 1 THEN "SRA" ELSE Funct3Op(i.funct3)
    BY <1>1 DEF Funct3Op, ITypeAluOp
  <1>4. dut_r_op(i) = RTypeAluOp(i)
    BY <1>1, <1>2, SMT DEF dut_r_op
  <1>5. golden_r_op(i) = RTypeAluOp(i)
    BY <1>1, <1>2, SMT DEF golden_r_op
  <1>6. dut_i_op(i) = ITypeAluOp(i)
    BY <1>3 DEF dut_i_op
  <1>7. ASSUME i.opcode = I_TYPE, ~UndefinedShift(i)
        PROVE  golden_i_op(i) = ITypeAluOp(i)
    <2>1. i.funct7 = 32 => (i.funct7 \div 32) % 2 = 1
      BY <1>1
    <2>2. QED
      BY <1>3, <1>7, <2>1 DEF golden_i_op, UndefinedShift
  <1>8. QED
    BY <1>4, <1>5, <1>6, <1>7

\* decoder.cpp is the RTL decoder: what the unit testbench finds out about the one
\* holds of the other, on every instruction word.
THEOREM DutIsRtl == \A i \in Instr : dut_decode(i) = Decode(i)
  <1> SUFFICES ASSUME NEW i \in Instr PROVE dut_decode(i) = Decode(i)
    OBVIOUS
  <1>1. /\ {"alu_src", "reg_write"} = {"reg_write", "alu_src"}
        /\ {"alu_src", "mem_to_reg", "mem_read", "reg_write"}
             = {"reg_write", "alu_src", "mem_read", "mem_to_reg"}
        /\ {"alu_src", "jump", "reg_write"} = {"reg_write", "alu_src", "jump"}
        /\ {"branch"} \cup {} = {"branch"}
        /\ {"branch"} \cup {"branch_type"} = {"branch", "branch_type"}
    OBVIOUS
  <1>2. i.funct3 % 2 \in {0, 1}
    BY InstrFields
  <1>3. CASE i.opcode = R_TYPE
    BY <1>3, OperationsAgree, SMT DEF dut_decode, Decode, R_TYPE, I_TYPE, LOAD, STORE, BRANCH, JAL
  <1>4. CASE i.opcode = I_TYPE
    BY <1>1, <1>4, OperationsAgree, ImmediatesAgree, SMT
       DEF dut_decode, Decode, R_TYPE, I_TYPE, LOAD, STORE, BRANCH, JAL
  <1>5. CASE i.opcode = LOAD
    BY <1>1, <1>5, ImmediatesAgree, SMT
       DEF dut_decode, Decode, R_TYPE, I_TYPE, LOAD, STORE, BRANCH, JAL
  <1>6. CASE i.opcode = STORE
    BY <1>1, <1>6, ImmediatesAgree, SMT
       DEF dut_decode, Decode, R_TYPE, I_TYPE, LOAD, STORE, BRANCH, JAL
  <1>7. CASE i.opcode = BRANCH
    BY <1>1, <1>2, <1>7, ImmediatesAgree, SMT
       DEF dut_decode, Decode, R_TYPE, I_TYPE, LOAD, STORE, BRANCH, JAL
  <1>8. CASE i.opcode = JAL
    BY <1>1, <1>8, ImmediatesAgree, SMT
       DEF dut_decode, Decode, R_TYPE, I_TYPE, LOAD, STORE, BRANCH, JAL
  <1>9. CASE i.opcode \notin {R_TYPE, I_TYPE, LOAD, STORE, BRANCH, JAL}
    BY <1>9, SMT DEF dut_decode, Decode, R_TYPE, I_TYPE, LOAD, STORE, BRANCH, JAL
  <1>10. QED
    BY <1>3, <1>4, <1>5, <1>6, <1>7, <1>8, <1>9

\* The golden model is the RTL decoder but for the undefined shifts: that is why the
\* unit testbench may call a device that equals the golden model a correct decoder.
THEOREM GoldenIsRtl == \A i \in Instr : ~UndefinedShift(i) => golden_decode(i) = Decode(i)
  <1> SUFFICES ASSUME NEW i \in Instr, ~UndefinedShift(i) PROVE golden_decode(i) = Decode(i)
    OBVIOUS
  <1>1. {"jump", "reg_write", "alu_src"} = {"reg_write", "alu_src", "jump"}
    OBVIOUS
  <1>2. {t \in {"branch_type"} : i.funct3 % 2 = 1} = (IF i.funct3 % 2 = 1 THEN {"branch_type"} ELSE {})
    <2>1. CASE i.funct3 % 2 = 1
      BY <2>1
    <2>2. CASE i.funct3 % 2 # 1
      BY <2>2
    <2>3. QED
      BY <2>1, <2>2
  <1>3. CASE i.opcode = R_TYPE
    BY <1>3, OperationsAgree, SMT DEF golden_decode, Decode, R_TYPE, I_TYPE, LOAD, STORE, BRANCH, JAL
  <1>4. CASE i.opcode = I_TYPE
    BY <1>4, OperationsAgree, ImmediatesAgree, SMT
       DEF golden_decode, Decode, R_TYPE, I_TYPE, LOAD, STORE, BRANCH, JAL
  <1>5. CASE i.opcode = LOAD
    BY <1>5, ImmediatesAgree, SMT
       DEF golden_decode, Decode, R_TYPE, I_TYPE, LOAD, STORE, BRANCH, JAL
  <1>6. CASE i.opcode = STORE
    BY <1>6, ImmediatesAgree, SMT
       DEF golden_decode, Decode, R_TYPE, I_TYPE, LOAD, STORE, BRANCH, JAL
  <1>7. CASE i.opcode = BRANCH
    <2>1. golden_decode(i) = Signals(i, b_type(i), "SUB",
                                {"branch"} \cup {t \in {"branch_type"} : i.funct3 % 2 = 1})
      BY <1>7, SMT DEF golden_decode, R_TYPE, I_TYPE, LOAD, STORE, BRANCH, JAL
    <2>2. Decode(i) = Signals(i, imm_b(i), "SUB",
                                {"branch"} \cup (IF i.funct3 % 2 = 1 THEN {"branch_type"} ELSE {}))
      BY <1>7, SMT DEF Decode, R_TYPE, I_TYPE, LOAD, STORE, BRANCH, JAL
    <2>3. QED
      BY <1>2, <2>1, <2>2, ImmediatesAgree, Zenon
  <1>8. CASE i.opcode = JAL
    BY <1>1, <1>8, ImmediatesAgree, SMT
       DEF golden_decode, Decode, R_TYPE, I_TYPE, LOAD, STORE, BRANCH, JAL
  <1>9. CASE i.opcode \notin {R_TYPE, I_TYPE, LOAD, STORE, BRANCH, JAL}
    BY <1>9, SMT DEF golden_decode, Decode, R_TYPE, I_TYPE, LOAD, STORE, BRANCH, JAL
  <1>10. QED
    BY <1>3, <1>4, <1>5, <1>6, <1>7, <1>8, <1>9

-----------------------------------------------------------------------------
(* The structural assertions.                                               *)

\* Which signals may be raised together, and for which opcode.
Consistent(opcode, on) ==
    /\ ~("mem_read" \in on /\ "mem_write" \in on) /\ ~("branch" \in on /\ "jump" \in on)
    /\ "mem_to_reg" \in on => "mem_read" \in on
    /\ opcode \in {STORE, BRANCH} => "reg_write" \notin on
    /\ opcode = R_TYPE => "alu_src" \notin on
    /\ opcode \notin Opcodes => on = {}

\* Signals that fit their opcode break none of the structural assertions.
LEMMA ConsistentSignals ==
    ASSUME NEW i, NEW imm, NEW op, NEW on, Consistent(i.opcode, on)
    PROVE  Failures(i, Signals(i, imm, op, on)) = {}
  <1> DEFINE out == Signals(i, imm, op, on)
  <1>1. /\ out.rs1 = i.rs1 /\ out.rs2 = i.rs2 /\ out.rd = i.rd
        /\ out["rs1"] = i["rs1"] /\ out["rs2"] = i["rs2"] /\ out["rd"] = i["rd"]
    BY DEF Signals
  <1>2. /\ out.mem_read = ("mem_read" \in on) /\ out.mem_write = ("mem_write" \in on)
        /\ out.mem_to_reg = ("mem_to_reg" \in on) /\ out.reg_write = ("reg_write" \in on)
        /\ out.alu_src = ("alu_src" \in on) /\ out.branch = ("branch" \in on)
        /\ out.jump = ("jump" \in on)
    BY DEF Signals
  <1>3. Raised(out) = ControlSignals \cap on
    BY <1>2 DEF Raised, ControlSignals
  <1> HIDE DEF out
  <1>4. Failures(i, out) = {}
    <2> SUFFICES ASSUME NEW r \in Failures(i, out) PROVE FALSE
      OBVIOUS
    <2>1. r \in {"mutual_exclusion", "reg_write_consistency", "mem_consistency", "alu_src_consistency",
                 "branch_jump_exclusive", "illegal_opcode_default", "rs1", "rs2", "rd"}
      BY DEF Failures
    <2>2. CASE r \in {"rs1", "rs2", "rd"}
      BY <1>1, <2>2 DEF Failures
    <2>3. CASE r = "illegal_opcode_default"
      BY <1>3, <2>3 DEF Failures, Consistent
    <2>4. CASE r \notin {"rs1", "rs2", "rd", "illegal_opcode_default"}
      BY <1>2, <2>1, <2>4 DEF Failures, Consistent
    <2>5. QED
      BY <2>2, <2>3, <2>4
  <1>5. QED
    BY <1>4 DEF out

\* What the golden model says of an instruction breaks no structural assertion.
LEMMA GoldenIsConsistent == ASSUME NEW i PROVE Failures(i, golden_decode(i)) = {}
  <1> DEFINE Of(on) == \E imm, op : golden_decode(i) = Signals(i, imm, op, on)
  <1>1. \E on : Of(on) /\ Consistent(i.opcode, on)
    <2>1. CASE i.opcode = R_TYPE
      <3>1. Of({"reg_write"})
        BY <2>1, SMT DEF golden_decode, R_TYPE, I_TYPE, LOAD, STORE, BRANCH, JAL
      <3>2. Consistent(i.opcode, {"reg_write"})
        BY <2>1 DEF Consistent, Opcodes, R_TYPE, STORE, BRANCH
      <3>3. QED
        BY <3>1, <3>2
    <2>2. CASE i.opcode = I_TYPE
      <3>1. Of({"reg_write", "alu_src"})
        BY <2>2, SMT DEF golden_decode, R_TYPE, I_TYPE, LOAD, STORE, BRANCH, JAL
      <3>2. Consistent(i.opcode, {"reg_write", "alu_src"})
        BY <2>2 DEF Consistent, Opcodes, R_TYPE, I_TYPE, STORE, BRANCH
      <3>3. QED
        BY <3>1, <3>2
    <2>3. CASE i.opcode = LOAD
      <3>1. Of({"reg_write", "alu_src", "mem_read", "mem_to_reg"})
        BY <2>3, SMT DEF golden_decode, R_TYPE, I_TYPE, LOAD, STORE, BRANCH, JAL
      <3>2. Consistent(i.opcode, {"reg_write", "alu_src", "mem_read", "mem_to_reg"})
        BY <2>3 DEF Consistent, Opcodes, R_TYPE, LOAD, STORE, BRANCH
      <3>3. QED
        BY <3>1, <3>2
    <2>4. CASE i.opcode = STORE
      <3>1. Of({"alu_src", "mem_write"})
        BY <2>4, SMT DEF golden_decode, R_TYPE, I_TYPE, LOAD, STORE, BRANCH, JAL
      <3>2. Consistent(i.opcode, {"alu_src", "mem_write"})
        BY <2>4 DEF Consistent, Opcodes, R_TYPE, STORE
      <3>3. QED
        BY <3>1, <3>2
    <2>5. CASE i.opcode = BRANCH
      <3> DEFINE on == {"branch"} \cup {t \in {"branch_type"} : i.funct3 % 2 = 1}
      <3>1. Of(on)
        <4>1. golden_decode(i) = Signals(i, b_type(i), "SUB", on)
          BY <2>5, SMT DEF golden_decode, R_TYPE, I_TYPE, LOAD, STORE, BRANCH, JAL
        <4>2. QED
          BY <4>1
      <3>2. on \subseteq {"branch", "branch_type"}
        OBVIOUS
      <3> HIDE DEF on
      <3>3. Consistent(i.opcode, on)
        BY <2>5, <3>2 DEF Consistent, Opcodes, R_TYPE, BRANCH
      <3>4. QED
        BY <3>1, <3>3
    <2>6. CASE i.opcode = JAL
      <3>1. Of({"jump", "reg_write", "alu_src"})
        BY <2>6, SMT DEF golden_decode, R_TYPE, I_TYPE, LOAD, STORE, BRANCH, JAL
      <3>2. Consistent(i.opcode, {"jump", "reg_write", "alu_src"})
        BY <2>6 DEF Consistent, Opcodes, R_TYPE, JAL, STORE, BRANCH
      <3>3. QED
        BY <3>1, <3>2
    <2>7. CASE i.opcode \notin Opcodes
      <3>1. Of({})
        BY <2>7, SMT DEF golden_decode, Opcodes, R_TYPE, I_TYPE, LOAD, STORE, BRANCH, JAL
      <3>2. Consistent(i.opcode, {})
        BY DEF Consistent
      <3>3. QED
        BY <3>1, <3>2
    <2>8. QED
      BY <2>1, <2>2, <2>3, <2>4, <2>5, <2>6, <2>7 DEF Opcodes
  <1>2. QED
    BY <1>1, ConsistentSignals

\* Drive raises no violation without counting an error.
LEMMA DriveCounts ==
    ASSUME NEW i, Drive(i), errors \in Nat
    PROVE  /\ errors' \in Nat /\ errors' >= errors
           /\ errors' = 0 => violations' = violations + 0
  <1>1. CASE Mismatch(i)
    BY <1>1 DEF Drive, Flag
  <1>2. CASE ~Mismatch(i)
    <2>1. Failures(i, device(defect, i)) = {}
      BY <1>2, GoldenIsConsistent, Zenon DEF Mismatch
    <2>2. violations' = violations + 0
      BY <2>1, FS_EmptySet DEF Drive
    <2>3. errors' = errors
      BY <1>2 DEF Drive, Flag
    <2>4. QED
      BY <2>2, <2>3
  <1>3. QED
    BY <1>1, <1>2

\* A transaction that breaks a structural assertion also differs from the golden
\* model, whatever the device, the plan and the draws: a test that the scoreboard
\* passes has no assertion violation.
THEOREM ErrorsCoverViolations == Spec => []ViolationsAreErrors
  <1> DEFINE Covered == errors \in Nat /\ (errors = 0 => violations = 0)
  <1>1. Init => Covered
    BY DEF Init
  <1>2. Covered /\ [Next]_bench_vars => Covered'
    <2> SUFFICES ASSUME Covered, [Next]_bench_vars PROVE Covered'
      OBVIOUS
    <2>1. ASSUME NEW i, Drive(i) PROVE Covered'
      BY <2>1, DriveCounts
    <2>2. CASE DriveScripted
      BY <2>1, <2>2 DEF DriveScripted
    <2>3. CASE \E b \in Pool : DriveTargeted(b)
      BY <2>1, <2>3 DEF DriveTargeted
    <2>4. CASE DriveRandom
      BY <2>1, <2>4 DEF DriveRandom
    <2>5. CASE NextStage \/ StartPass \/ Finish
      BY <2>5 DEF NextStage, StartPass, Finish
    <2>6. CASE UNCHANGED bench_vars
      BY <2>6 DEF bench_vars
    <2>7. QED
      BY <2>2, <2>3, <2>4, <2>5, <2>6 DEF Next
  <1>3. Covered => ViolationsAreErrors
    BY DEF ViolationsAreErrors
  <1>4. QED
    BY <1>1, <1>2, <1>3, PTL DEF Spec

-----------------------------------------------------------------------------
(* Types                                                                    *)

\* The loop only aims at bins that are counted.
LEMMA TargetableIsCounted == Targetable \subseteq Bins
  <1>1. LegalFunct3Bins \subseteq Funct3Bins \cup {JalBin}
    <2>1. {"rtype_f3", "itype_f3"} \X (0 .. 7) \subseteq Funct3Bins
      BY DEF Funct3Bins
    <2>2. {<<"load_f3", 2>>, <<"store_f3", 2>>, <<"branch_f3", 0>>,
            <<"branch_f3", 1>>} \subseteq Funct3Bins
      BY DEF Funct3Bins
    <2>3. QED
      BY <2>1, <2>2 DEF LegalFunct3Bins
  <1>2. LegalRtypeBins \subseteq RtypeBins
    BY DEF LegalRtypeBins
  <1>3. LegalShiftBins \subseteq ShiftBins
    BY DEF LegalShiftBins, ShiftBins, Funct7Class
  <1>4. LegalImmBins \subseteq ImmBins
    BY DEF LegalImmBins
  <1>5. QED
    BY <1>1, <1>2, <1>3, <1>4, Zenon DEF Targetable, Bins

\* A transaction counts up to the cap, and adds natural numbers to the two sums.
LEMMA DriveType ==
    ASSUME TypeOK, NEW i, Drive(i)
    PROVE  /\ hits' \in [Bins -> 0 .. HIT_CAP] /\ errors' \in Nat /\ violations' \in Nat
           /\ test' = test
  <1>1. hits' \in [Bins -> 0 .. HIT_CAP]
    <2>1. \A n \in 0 .. HIT_CAP : n < HIT_CAP => n + 1 \in 0 .. HIT_CAP
      BY BenchAssumption
    <2>2. \A b \in Bins : hits[b] \in 0 .. HIT_CAP
      BY Zenon DEF TypeOK
    <2>3. hits' = Bump(hits, sample_bins(i))
      BY DEF Drive
    <2>4. QED
      BY <2>1, <2>2, <2>3, Zenon DEF Bump
  <1>2. errors' \in Nat
    BY DriveCounts DEF TypeOK
  <1>3. violations' \in Nat
    <2> DEFINE F == Failures(i, device(defect, i))
               R == {"mutual_exclusion", "reg_write_consistency", "mem_consistency",
                     "alu_src_consistency", "branch_jump_exclusive", "illegal_opcode_default",
                     "rs1", "rs2", "rd"}
    <2>1. F \subseteq R
      BY Zenon DEF Failures
    <2>2. IsFiniteSet(R)
      <3> DEFINE A == {"mutual_exclusion", "reg_write_consistency", "mem_consistency"}
                 B == {"alu_src_consistency", "branch_jump_exclusive", "illegal_opcode_default"}
                 C == {"rs1", "rs2", "rd"}
      <3>1. \A x, y, z : IsFiniteSet({x, y, z})
        <4> TAKE x, y, z
        <4>1. IsFiniteSet({x})
          BY FS_Singleton
        <4>2. IsFiniteSet({x} \cup {y})
          BY <4>1, FS_AddElement
        <4>3. IsFiniteSet(({x} \cup {y}) \cup {z})
          BY <4>2, FS_AddElement
        <4>4. ({x} \cup {y}) \cup {z} = {x, y, z}
          OBVIOUS
        <4>5. QED
          BY <4>3, <4>4, Zenon
      <3>2. IsFiniteSet(A) /\ IsFiniteSet(B) /\ IsFiniteSet(C)
        BY <3>1, Zenon
      <3> HIDE DEF A, B, C
      <3>3. IsFiniteSet((A \cup B) \cup C)
        BY <3>2, FS_Union
      <3>4. R = (A \cup B) \cup C
        BY DEF A, B, C
      <3>5. QED
        BY <3>3, <3>4, Zenon
    <2> HIDE DEF R, F
    <2>3. Cardinality(F) \in Nat
      BY <2>1, <2>2, FS_Subset, FS_CardinalityType
    <2>4. violations' = violations + Cardinality(F) /\ violations \in Nat
      BY DEF Drive, TypeOK, F
    <2>5. QED
      BY <2>3, <2>4
  <1>4. QED
    BY <1>1, <1>2, <1>3 DEF Drive

\* Every state of a test is well typed: in particular the loop remembers only bins it can
\* aim at with counts within the cap, and begins no more passes than it may.
THEOREM UnitBenchIsTyped == Spec => []TypeOK
  <1>1. Init => TypeOK
    <2> SUFFICES ASSUME Init PROVE TypeOK
      OBVIOUS
    <2>1. test \in TESTS /\ plan \in Seq(SequenceNames \X Nat) /\ max_driven_passes \in Nat
      BY BenchAssumption DEF Init, plan, max_driven_passes
    <2>2. Len(plan) \in Nat /\ 0 \in 0 .. HIT_CAP /\ 0 \in 0 .. max_driven_passes
      BY <2>1, BenchAssumption, LenProperties
    <2>3. stage \in 1 .. Len(plan) + 1
      BY <2>2 DEF Init
    <2>4. hits \in [Bins -> 0 .. HIT_CAP]
      BY <2>2, Zenon DEF Init
    <2>5. QED
      BY <2>1, <2>2, <2>3, <2>4 DEF Init, TypeOK
  <1>2. TypeOK /\ [Next]_bench_vars => TypeOK'
    <2> SUFFICES ASSUME TypeOK, [Next]_bench_vars PROVE TypeOK'
      OBVIOUS
    <2>0. /\ test \in TESTS /\ plan \in Seq(SequenceNames \X Nat) /\ max_driven_passes \in Nat
          /\ Len(plan) \in Nat
      BY BenchAssumption, LenProperties DEF TypeOK, plan, max_driven_passes
    <2>1. ASSUME NEW i, Drive(i), sent' = sent + 1, UNCHANGED <<stage, pass, weak, done>>
          PROVE  TypeOK'
      <3>1. /\ hits' \in [Bins -> 0 .. HIT_CAP] /\ errors' \in Nat /\ violations' \in Nat
            /\ test' = test
        BY <2>1, DriveType
      <3>2. sent' \in Nat
        BY <2>1 DEF TypeOK
      <3>3. QED
        BY <2>1, <3>1, <3>2, Zenon DEF TypeOK, plan, max_driven_passes
    <2>2. CASE DriveScripted
      BY <2>1, <2>2 DEF DriveScripted
    <2>3. CASE \E b \in Pool : DriveTargeted(b)
      BY <2>1, <2>3 DEF DriveTargeted
    <2>4. CASE DriveRandom
      BY <2>1, <2>4 DEF DriveRandom
    <2>5. CASE NextStage
      <3>1. stage' \in 1 .. Len(plan) + 1 /\ sent' \in Nat
        BY <2>0, <2>5 DEF NextStage, TypeOK
      <3>2. QED
        BY <2>5, <3>1, Zenon DEF NextStage, TypeOK, plan, max_driven_passes
    <2>6. CASE StartPass
      <3>1. pass' \in 0 .. max_driven_passes /\ sent' \in Nat
        BY <2>0, <2>6 DEF StartPass, Enough, TypeOK
      <3>2. weak' \subseteq Targetable \X (0 .. HIT_CAP)
        <4>1. \A b \in get_weak_bins(hits, THRESHOLD) : b \in Targetable /\ hits[b] \in 0 .. HIT_CAP
          BY TargetableIsCounted, Zenon DEF get_weak_bins, Short, TypeOK
        <4>2. weak' = { <<b, hits[b]>> : b \in get_weak_bins(hits, THRESHOLD) }
          BY <2>6 DEF StartPass
        <4>3. QED
          BY <4>1, <4>2
      <3>3. QED
        BY <2>6, <3>1, <3>2, Zenon DEF StartPass, TypeOK, plan, max_driven_passes
    <2>7. CASE Finish
      BY <2>7, Zenon DEF Finish, TypeOK, plan, max_driven_passes
    <2>8. CASE UNCHANGED bench_vars
      BY <2>8, Zenon DEF bench_vars, TypeOK, plan, max_driven_passes
    <2>9. QED
      BY <2>2, <2>3, <2>4, <2>5, <2>6, <2>7, <2>8 DEF Next
  <1>3. QED
    BY <1>1, <1>2, PTL DEF Spec

-----------------------------------------------------------------------------
(* Lists of lists put end to end                                            *)

\* Their elements are those of the lists.
LEMMA FlattenType ==
    ASSUME NEW T, NEW s \in Seq(Seq(T))
    PROVE  FlattenSeq(s) \in Seq(T)
  <1> DEFINE n == Len(s)
             Is(g, m) == g = [i \in 1 .. m |-> IF i = 1 THEN s[i] ELSE g[i - 1] \o s[i]]
             f == CHOOSE g : Is(g, n)
             M == {m \in Nat : \E g : Is(g, m)}
  <1>1. n \in Nat /\ \A i \in 1 .. n : s[i] \in Seq(T)
    BY LenProperties
  <1>2. Nat \subseteq M
    <2>1. 0 \in M
      <3>1. Is([i \in 1 .. 0 |-> 0], 0)
        OBVIOUS
      <3>2. QED
        BY <3>1
    <2>2. ASSUME NEW m \in Nat, m \in M PROVE m + 1 \in M
      <3>1. PICK g : Is(g, m)
        BY <2>2
      <3> DEFINE h == [i \in 1 .. m + 1 |-> IF i = 1 THEN s[i]
                                            ELSE IF i = m + 1 THEN g[m] \o s[i] ELSE g[i]]
      <3>2. \A i \in 1 .. m + 1 : h[i] = IF i = 1 THEN s[i] ELSE h[i - 1] \o s[i]
        <4> TAKE i \in 1 .. m + 1
        <4>1. CASE i = 1
          BY <4>1
        <4>2. CASE i # 1 /\ i = m + 1
          <5>1. h[i] = g[m] \o s[i]
            BY <4>2
          <5>2. h[m] = g[m]
            <6>1. m \in 1 .. m /\ m # m + 1 /\ m \in 1 .. m + 1
              BY <4>2
            <6>2. m = 1 => g[m] = s[m]
              BY <3>1, <6>1
            <6>3. QED
              BY <6>1, <6>2
          <5>3. i - 1 = m
            BY <4>2
          <5>4. QED
            BY <4>2, <5>1, <5>2, <5>3
        <4>3. CASE i # 1 /\ i # m + 1
          <5>1. i \in 1 .. m /\ i - 1 \in 1 .. m /\ i - 1 \in 1 .. m + 1 /\ i - 1 # m + 1
            BY <4>3
          <5>2. h[i] = g[i] /\ g[i] = g[i - 1] \o s[i]
            BY <3>1, <4>3, <5>1
          <5>3. h[i - 1] = g[i - 1]
            <6>1. i - 1 = 1 => g[i - 1] = s[i - 1]
              BY <3>1, <5>1
            <6>2. QED
              BY <5>1, <6>1
          <5>4. QED
            BY <4>3, <5>2, <5>3
        <4>4. QED
          BY <4>1, <4>2, <4>3
      <3>3. Is(h, m + 1)
        <4>1. h = [i \in 1 .. m + 1 |-> h[i]]
          OBVIOUS
        <4> HIDE DEF h
        <4>2. QED
          BY <3>2, <4>1
      <3>4. m + 1 \in Nat
        OBVIOUS
      <3> HIDE DEF h, Is
      <3>5. QED
        BY <3>3, <3>4, Zenon
    <2> HIDE DEF M
    <2>3. QED
      BY <2>1, <2>2, SetInduction
  <1>3. Is(f, n)
    <2>1. \E g : Is(g, n)
      BY <1>1, <1>2
    <2> HIDE DEF Is
    <2>2. QED
      BY <2>1, Zenon
  <1>4. FlattenSeq(s) = IF n = 0 THEN s ELSE f[n]
    BY Zenon DEF FlattenSeq
  <1> HIDE DEF f
  <1>5. \A i \in 1 .. n : f[i] = IF i = 1 THEN s[i] ELSE f[i - 1] \o s[i]
    BY <1>3
  <1> HIDE DEF n, M, Is
  <1>6. \A i \in Nat : i \in 1 .. n => f[i] \in Seq(T)
    <2> DEFINE P == {i \in Nat : i \in 1 .. n => f[i] \in Seq(T)}
    <2>1. 0 \in P
      OBVIOUS
    <2>2. ASSUME NEW m \in Nat, m \in P PROVE m + 1 \in P
      <3> SUFFICES ASSUME m + 1 \in 1 .. n PROVE f[m + 1] \in Seq(T)
        OBVIOUS
      <3>1. s[m + 1] \in Seq(T)
        BY <1>1
      <3>2. CASE m = 0
        BY <1>5, <3>1, <3>2
      <3>3. CASE m # 0
        <4>1. m \in 1 .. n /\ (m + 1) - 1 = m /\ m + 1 # 1
          BY <1>1, <3>3
        <4>2. f[m] \in Seq(T) /\ f[m + 1] = f[m] \o s[m + 1]
          BY <1>5, <2>2, <4>1
        <4>3. QED
          BY <3>1, <4>2
      <3>4. QED
        BY <3>2, <3>3
    <2>3. Nat \subseteq P
      <3> HIDE DEF P
      <3>1. QED
        BY <2>1, <2>2, SetInduction
    <2>4. QED
      BY <2>3
  <1>7. CASE n = 0
    <2>1. s = <<>>
      BY <1>7 DEF n
    <2>2. QED
      BY <1>4, <1>7, <2>1
  <1>8. CASE n # 0
    <2>1. n \in 1 .. n
      BY <1>1, <1>8
    <2>2. QED
      BY <1>1, <1>4, <1>6, <1>8, <2>1
  <1>9. QED
    BY <1>7, <1>8

-----------------------------------------------------------------------------
(* What the sequences send                                                  *)

\* The instruction words the golden model and the device read alike.
Sound == {i \in Instr : ~UndefinedShift(i)}

\* What is no shift right by an immediate is sound.
LEMMA SoundWord ==
    ASSUME NEW f7 \in 0 .. 127, NEW rs2 \in RegIndex, NEW rs1 \in RegIndex, NEW f3 \in 0 .. 7,
           NEW rd \in RegIndex, NEW op \in 0 .. 127, op # I_TYPE \/ f3 # 5
    PROVE  Encoded(f7, rs2, rs1, f3, rd, op) \in Sound
  <1>1. Encoded(f7, rs2, rs1, f3, rd, op) \in Instr
    BY DEF Encoded, Instr
  <1>2. ~UndefinedShift(Encoded(f7, rs2, rs1, f3, rd, op))
    BY DEF Encoded, UndefinedShift
  <1>3. QED
    BY <1>1, <1>2 DEF Sound

\* R-type words are sound, whatever funct7 is asked for.
LEMMA SoundR ==
    ASSUME NEW f7 \in Int, NEW rs2 \in RegIndex, NEW rs1 \in RegIndex, NEW f3 \in 0 .. 7,
           NEW rd \in RegIndex
    PROVE  encode_r(f7, rs2, rs1, f3, rd) \in Sound
  <1>1. f7 % 128 \in 0 .. 127 /\ R_TYPE # I_TYPE /\ R_TYPE \in 0 .. 127
    BY DEF R_TYPE, I_TYPE
  <1>2. QED
    BY <1>1, SoundWord, Zenon DEF encode_r, enc_R

\* I-type words with an immediate are sound but for a shift right.
LEMMA SoundI ==
    ASSUME NEW op \in {I_TYPE, LOAD}, NEW f3 \in 0 .. 7, NEW rd \in RegIndex, NEW rs1 \in RegIndex,
           NEW imm \in Int, op = LOAD \/ f3 # 5
    PROVE  encode_i(op, f3, rd, rs1, imm) \in Sound
  <1>1. op \in 0 .. 127 /\ (op # I_TYPE \/ f3 # 5)
    BY DEF I_TYPE, LOAD
  <1> DEFINE hi == (imm % 4096) \div 32
             lo == (imm % 4096) % 32
  <1>2. encode_i(op, f3, rd, rs1, imm) = Encoded(hi, lo, rs1, f3, rd, op)
    BY DEF encode_i, enc_I
  <1>3. hi \in 0 .. 127 /\ lo \in RegIndex
    BY DEF RegIndex
  <1> HIDE DEF hi, lo
  <1>4. Encoded(hi, lo, rs1, f3, rd, op) \in Sound
    BY <1>1, <1>3, SoundWord
  <1>5. QED
    BY <1>2, <1>4

\* A shift by immediate is sound if its funct7 is that of SRAI or has bit 30 clear.
LEMMA SoundShift ==
    ASSUME NEW f7 \in 0 .. 127, NEW f3 \in 0 .. 7, NEW rd \in RegIndex, NEW rs1 \in RegIndex,
           NEW sh \in Int, (f7 \div 32) % 2 = 0 \/ f7 = 32
    PROVE  encode_i_shift(f7, f3, rd, rs1, sh) \in Sound
  <1>1. f7 % 128 = f7 /\ sh % 32 \in RegIndex /\ I_TYPE \in 0 .. 127
    BY DEF I_TYPE, RegIndex
  <1> DEFINE shamt == sh % 32
             word  == Encoded(f7, shamt, rs1, f3, rd, I_TYPE)
  <1>2. encode_i_shift(f7, f3, rd, rs1, sh) = word
    BY <1>1 DEF encode_i_shift, enc_R
  <1>3. shamt \in RegIndex
    BY <1>1
  <1> HIDE DEF shamt
  <1>4. word \in Instr
    BY <1>1, <1>3 DEF Encoded, Instr
  <1>5. ~UndefinedShift(word)
    BY DEF Encoded, UndefinedShift
  <1>6. QED
    BY <1>2, <1>4, <1>5 DEF Sound

\* So are stores, branches and jumps.
LEMMA SoundSBJ ==
    ASSUME NEW a \in RegIndex, NEW b \in RegIndex, NEW f3 \in 0 .. 7, NEW imm \in Int
    PROVE  /\ encode_s(a, b, imm) \in Sound /\ encode_b(a, b, f3, imm) \in Sound
           /\ encode_j(a, imm) \in Sound
  <1>1. STORE \in 0 .. 127 /\ STORE # I_TYPE /\ BRANCH \in 0 .. 127 /\ BRANCH # I_TYPE
        /\ JAL \in 0 .. 127 /\ JAL # I_TYPE /\ 2 \in 0 .. 7
    BY DEF STORE, I_TYPE, BRANCH, JAL
  <1>2. encode_s(a, b, imm) \in Sound
    <2> DEFINE hi == (imm % 4096) \div 32
               lo == (imm % 4096) % 32
    <2>1. hi \in 0 .. 127 /\ lo \in RegIndex
      BY DEF RegIndex
    <2>2. encode_s(a, b, imm) = Encoded(hi, b, a, 2, lo, STORE)
      BY Zenon DEF encode_s, enc_S
    <2> HIDE DEF hi, lo
    <2>3. Encoded(hi, b, a, 2, lo, STORE) \in Sound
      BY <1>1, <2>1, SoundWord
    <2>4. QED
      BY <2>2, <2>3
  <1>3. encode_b(a, b, f3, imm) \in Sound
    <2> DEFINE n == imm % 8192
               hi == (n \div 4096) * 64 + ((n \div 32) % 64)
               lo == ((n \div 2) % 16) * 2 + ((n \div 2048) % 2)
    <2>1. encode_b(a, b, f3, imm) = Encoded(hi, b, a, f3, lo, BRANCH)
      BY SMT DEF encode_b, enc_B
    <2>2. n \in Nat /\ n < 8192
      OBVIOUS
    <2> HIDE DEF n
    <2> DEFINE q == n \div 32
               r == n \div 2
               t == n \div 2048
    <2>3. n \div 4096 \in 0 .. 1 /\ q \in Nat /\ r \in Nat /\ t \in Nat
      BY <2>2
    <2> HIDE DEF q, r, t
    <2>4. q % 64 \in 0 .. 63 /\ r % 16 \in 0 .. 15 /\ t % 2 \in 0 .. 1
      BY <2>3
    <2>5. hi \in 0 .. 127
      BY <2>3, <2>4 DEF q
    <2>6. lo \in RegIndex
      BY <2>4 DEF RegIndex, r, t
    <2> HIDE DEF hi, lo
    <2>7. Encoded(hi, b, a, f3, lo, BRANCH) \in Sound
      BY <1>1, <2>5, <2>6, SoundWord
    <2>8. QED
      BY <2>1, <2>7
  <1>4. encode_j(a, imm) \in Sound
    <2> DEFINE n  == imm % 2097152
               h  == (n \div 4096) % 256
               l  == (n \div 2) % 1024
               f7 == (n \div 1048576) * 64 + (l \div 16)
               r2 == (l % 16) * 2 + ((n \div 2048) % 2)
               r1 == h \div 8
               m3 == h % 8
    <2>1. encode_j(a, imm) = Encoded(f7, r2, r1, m3, a, JAL)
      BY SMT DEF encode_j, enc_J
    <2>2. n \in Nat /\ n < 2097152
      BY SMT
    <2> HIDE DEF n
    <2> DEFINE q == n \div 4096
               r == n \div 2
               t == n \div 2048
    <2>3. n \div 1048576 \in 0 .. 1 /\ q \in Nat /\ r \in Nat /\ t \in Nat
      BY <2>2, SMT
    <2> HIDE DEF q, r, t
    <2>11. t % 2 \in 0 .. 1
      BY <2>3, SMT
    <2>4. h \in 0 .. 255 /\ l \in 0 .. 1023
      BY <2>3, SMT DEF q, r
    <2> HIDE DEF h, l
    <2>5. l \div 16 \in 0 .. 63 /\ l % 16 \in 0 .. 15
      BY <2>4, SMT
    <2>6. f7 \in 0 .. 127
      BY <2>3, <2>5, SMT
    <2>7. r2 \in RegIndex
      BY <2>5, <2>11, SMT DEF RegIndex, t
    <2>8. r1 \in RegIndex /\ m3 \in 0 .. 7
      BY <2>4, SMT DEF RegIndex
    <2> HIDE DEF f7, r2, r1, m3
    <2>9. Encoded(f7, r2, r1, m3, a, JAL) \in Sound
      BY <1>1, <2>6, <2>7, <2>8, SoundWord
    <2>10. QED
      BY <2>1, <2>9
  <1>5. QED
    BY <1>2, <1>3, <1>4

\* The registers and immediates that are drawn are registers and numbers.
LEMMA Drawn ==
    /\ R5 \subseteq RegIndex /\ RANDOM_REGS \subseteq RegIndex /\ SHAMTS \subseteq Int
    /\ IMM12S \subseteq Int /\ B_OFFSETS \subseteq Int /\ J_OFFSETS \subseteq Int
    /\ RANDOM_CLASSES \subseteq InstrClasses
  BY DrawAssumption, SMT DEF RegIndex

\* A list of words or of sets of words, put together by ForEach.
LEMMA Chained ==
    ASSUME NEW T, NEW n \in Nat, NEW f, f = [k \in 1 .. n |-> f[k]], \A k \in 1 .. n : f[k] \in Seq(T)
    PROVE  FlattenSeq(f) \in Seq(T)
  <1>1. f \in [1 .. n -> Seq(T)]
    BY Zenon
  <1>2. f \in Seq(Seq(T))
    BY <1>1, SeqDef
  <1>3. QED
    BY <1>2, FlattenType

\* A transaction of a sequence: the set of words it may turn out to be.
Draws == SUBSET Sound

\* The funct7 a shift by immediate may have.
ShiftFunct7 == {f7 \in 0 .. 127 : (f7 \div 32) % 2 = 0 \/ f7 = 32}

\* Whatever registers are drawn, the words are sound.
LEMMA DrawnWords ==
    /\ \A op \in 0 .. 127 : Draw3(LAMBDA a, b, c : Encoded(0, c, b, 0, a, op)) \in Draws
    /\ \A f7 \in Int, f3 \in 0 .. 7 : Draw3(LAMBDA a, b, c : encode_r(f7, a, b, f3, c)) \in Draws
    /\ \A f7 \in ShiftFunct7, f3 \in 0 .. 7 :
         /\ Draw3(LAMBDA a, b, c : encode_i_shift(f7, f3, a, b, c)) \in Draws
         /\ \A sh \in Int : Draw2(LAMBDA a, b : encode_i_shift(f7, f3, a, b, sh)) \in Draws
    /\ \A f3 \in 0 .. 7, imm \in Int :
         /\ f3 # 5 => Draw2(LAMBDA a, b : encode_i(I_TYPE, f3, a, b, imm)) \in Draws
         /\ Draw2(LAMBDA a, b : encode_i(LOAD, f3, a, b, imm)) \in Draws
         /\ Draw2(LAMBDA a, b : encode_s(a, b, imm)) \in Draws
         /\ Draw2(LAMBDA a, b : encode_b(a, b, f3, imm)) \in Draws
         /\ { encode_j(a, imm) : a \in R5 } \in Draws
  <1>1. \A a \in R5 : a \in RegIndex /\ a \in Int
    BY Drawn DEF RegIndex
  <1>2. ASSUME NEW op \in 0 .. 127 PROVE Draw3(LAMBDA a, b, c : Encoded(0, c, b, 0, a, op)) \in Draws
    <2>1. \A a, b, c \in R5 : Encoded(0, c, b, 0, a, op) \in Sound
      <3> SUFFICES ASSUME NEW a \in R5, NEW b \in R5, NEW c \in R5
                   PROVE  Encoded(0, c, b, 0, a, op) \in Sound
        OBVIOUS
      <3>1. a \in RegIndex /\ b \in RegIndex /\ c \in RegIndex
            /\ 0 \in 0 .. 127 /\ 0 \in 0 .. 7 /\ 0 # 5
        BY <1>1
      <3>2. QED
        BY <3>1, SoundWord, Zenon
    <2>2. QED
      BY <2>1 DEF Draw3, Draws
  <1>3. ASSUME NEW f7 \in Int, NEW f3 \in 0 .. 7
        PROVE  Draw3(LAMBDA a, b, c : encode_r(f7, a, b, f3, c)) \in Draws
    <2>1. \A a, b, c \in R5 : encode_r(f7, a, b, f3, c) \in Sound
      BY <1>1, SoundR
    <2>2. QED
      BY <2>1 DEF Draw3, Draws
  <1>4. ASSUME NEW f7 \in ShiftFunct7, NEW f3 \in 0 .. 7
        PROVE  /\ Draw3(LAMBDA a, b, c : encode_i_shift(f7, f3, a, b, c)) \in Draws
               /\ \A sh \in Int : Draw2(LAMBDA a, b : encode_i_shift(f7, f3, a, b, sh)) \in Draws
    <2>1. \A a, b \in R5, sh \in Int : encode_i_shift(f7, f3, a, b, sh) \in Sound
      BY <1>1, SoundShift DEF ShiftFunct7
    <2>2. Draw3(LAMBDA a, b, c : encode_i_shift(f7, f3, a, b, c)) \in Draws
      BY <1>1, <2>1 DEF Draw3, Draws
    <2>3. \A sh \in Int : Draw2(LAMBDA a, b : encode_i_shift(f7, f3, a, b, sh)) \in Draws
      BY <2>1 DEF Draw2, Draws
    <2>4. QED
      BY <2>2, <2>3
  <1>5. ASSUME NEW f3 \in 0 .. 7, NEW imm \in Int
        PROVE  /\ f3 # 5 => Draw2(LAMBDA a, b : encode_i(I_TYPE, f3, a, b, imm)) \in Draws
               /\ Draw2(LAMBDA a, b : encode_i(LOAD, f3, a, b, imm)) \in Draws
               /\ Draw2(LAMBDA a, b : encode_s(a, b, imm)) \in Draws
               /\ Draw2(LAMBDA a, b : encode_b(a, b, f3, imm)) \in Draws
               /\ { encode_j(a, imm) : a \in R5 } \in Draws
    <2>1. \A a, b \in R5 : /\ f3 # 5 => encode_i(I_TYPE, f3, a, b, imm) \in Sound
                           /\ encode_i(LOAD, f3, a, b, imm) \in Sound
      BY <1>1, SoundI
    <2>2. \A a, b \in R5 : /\ encode_s(a, b, imm) \in Sound /\ encode_b(a, b, f3, imm) \in Sound
                           /\ encode_j(a, imm) \in Sound
      BY <1>1, SoundSBJ
    <2>3. f3 # 5 => Draw2(LAMBDA a, b : encode_i(I_TYPE, f3, a, b, imm)) \in Draws
      BY <2>1 DEF Draw2, Draws
    <2>4. Draw2(LAMBDA a, b : encode_i(LOAD, f3, a, b, imm)) \in Draws
      BY <2>1 DEF Draw2, Draws
    <2>5. Draw2(LAMBDA a, b : encode_s(a, b, imm)) \in Draws
      BY <2>2 DEF Draw2, Draws
    <2>6. Draw2(LAMBDA a, b : encode_b(a, b, f3, imm)) \in Draws
      BY <2>2 DEF Draw2, Draws
    <2>7. { encode_j(a, imm) : a \in R5 } \in Draws
      BY <2>2 DEF Draws
    <2>8. QED
      BY <2>3, <2>4, <2>5, <2>6, <2>7
  <1>6. QED
    BY <1>2, <1>3, <1>4, <1>5, Zenon

\* The encodings of the operations: only the shifts right have funct3 5.
LEMMA OperationFields ==
    ASSUME NEW op \in AluOp
    PROVE  /\ Funct3Of(op) \in 0 .. 7 /\ Funct7Of(op) \in {0, 32}
           /\ op \notin {"SLL", "SRL", "SRA"} => Funct3Of(op) # 5
  <1>1. Funct7Of(op) \in {0, 32}
    BY DEF Funct7Of
  <1>2. /\ op = "ADD" \/ op = "SUB" \/ op = "SLL" \/ op = "SLT" \/ op = "SLTU"
             \/ op = "XOR" \/ op = "SRL" \/ op = "SRA" \/ op = "OR" \/ op = "AND"
    BY DEF AluOp
  <1>3. /\ op = "ADD" \/ op = "SUB" => Funct3Of(op) = 0
        /\ op = "SLL" => Funct3Of(op) = 1
        /\ op = "SLT" => Funct3Of(op) = 2
        /\ op = "SLTU" => Funct3Of(op) = 3
        /\ op = "XOR" => Funct3Of(op) = 4
        /\ op = "SRL" \/ op = "SRA" => Funct3Of(op) = 5
        /\ op = "OR" => Funct3Of(op) = 6
        /\ op = "AND" => Funct3Of(op) = 7
    BY DEF Funct3Of
  <1>4. QED
    BY <1>1, <1>2, <1>3

\* So are the random transactions of a class, and those of any class.
LEMMA RandomWords ==
    /\ \A op \in AluOp : make_r(op) \in Draws /\ make_i(op) \in Draws
    /\ make_load \in Draws /\ make_store \in Draws /\ make_jal \in Draws /\ make_random \in Draws
    /\ \A f3 \in 0 .. 7 : make_branch(f3) \in Draws
  <1>1. ASSUME NEW op \in AluOp PROVE make_r(op) \in Draws /\ make_i(op) \in Draws
    <2>1. /\ Funct3Of(op) \in 0 .. 7 /\ Funct7Of(op) \in {0, 32}
          /\ op \notin {"SLL", "SRL", "SRA"} => Funct3Of(op) # 5
      BY OperationFields
    <2>2. Funct7Of(op) \in 0 .. 127 /\ ((Funct7Of(op) \div 32) % 2 = 0 \/ Funct7Of(op) = 32)
      BY <2>1
    <2>3. \A rd, rs1, rs2 \in RANDOM_REGS : encode_r(Funct7Of(op), rs2, rs1, Funct3Of(op), rd) \in Sound
      BY <2>1, <2>2, Drawn, SoundR
    <2>4. \A rd, rs1 \in RANDOM_REGS, sh \in SHAMTS :
            encode_i_shift(Funct7Of(op), Funct3Of(op), rd, rs1, sh) \in Sound
      BY <2>1, <2>2, Drawn, SoundShift
    <2>5. op \notin {"SLL", "SRL", "SRA"} =>
            \A rd, rs1 \in RANDOM_REGS, imm \in IMM12S :
               encode_i(I_TYPE, Funct3Of(op), rd, rs1, imm) \in Sound
      BY <2>1, Drawn, SoundI
    <2>6. make_r(op) \in Draws
      BY <2>3 DEF make_r, Draws
    <2>7. make_i(op) \in Draws
      BY <2>4, <2>5 DEF make_i, Draws
    <2>8. QED
      BY <2>6, <2>7
  <1>2. make_load \in Draws
    <2>1. \A rd, rs1 \in RANDOM_REGS, imm \in IMM12S : encode_i(LOAD, 2, rd, rs1, imm) \in Sound
      BY Drawn, SoundI
    <2>2. QED
      BY <2>1 DEF make_load, Draws
  <1>3. make_store \in Draws
    <2>1. \A rs1, rs2 \in RANDOM_REGS, imm \in IMM12S : encode_s(rs1, rs2, imm) \in Sound
      BY Drawn, SoundSBJ
    <2>2. QED
      BY <2>1 DEF make_store, Draws
  <1>4. make_jal \in Draws
    <2>1. \A rd \in RANDOM_REGS, off \in J_OFFSETS : encode_j(rd, off) \in Sound
      BY Drawn, SoundSBJ
    <2>2. QED
      BY <2>1 DEF make_jal, Draws
  <1>5. ASSUME NEW f3 \in 0 .. 7 PROVE make_branch(f3) \in Draws
    <2>1. \A rs1, rs2 \in RANDOM_REGS, off \in B_OFFSETS : encode_b(rs1, rs2, f3, off) \in Sound
      BY Drawn, SoundSBJ
    <2>2. QED
      BY <2>1 DEF make_branch, Draws
  <1>6. ASSUME NEW cls \in InstrClasses PROVE make_class(cls) \in Draws
    <2>1. cls \in RClasses \cup IClasses => cls[2] \in AluOp
      BY DEF RClasses, IClasses
    <2>2. cls \in RClasses \/ cls \in IClasses
          \/ cls = LW \/ cls = SW \/ cls = BEQ \/ cls = BNE \/ cls = J
      BY DEF InstrClasses, ImmClasses
    <2>3. /\ make_branch(0) \in Draws /\ make_branch(1) \in Draws
          /\ cls \in RClasses \cup IClasses => make_r(cls[2]) \in Draws /\ make_i(cls[2]) \in Draws
      BY <1>1, <1>5, <2>1
    <2> HIDE DEF Draws
    <2>4. QED
      BY <1>2, <1>3, <1>4, <2>2, <2>3 DEF make_class
  <1>7. make_random \in Draws
    BY <1>6, Drawn, Zenon DEF make_random, Draws
  <1>8. QED
    BY <1>1, <1>2, <1>3, <1>4, <1>5, <1>7

\* Short lists.
LEMMA ShortLists ==
    ASSUME NEW T, NEW x \in T, NEW y \in T, NEW z \in T, NEW u \in T
    PROVE  /\ <<x>> \in Seq(T) /\ <<x, y>> \in Seq(T) /\ <<x, y, z>> \in Seq(T)
           /\ <<x, y, z, u>> \in Seq(T)
  OBVIOUS

\* Six lists over a set put together are a list over that set.
LEMMA SixLists ==
    ASSUME NEW T, NEW a \in Seq(T), NEW b \in Seq(T), NEW c \in Seq(T), NEW d \in Seq(T),
           NEW e \in Seq(T), NEW f \in Seq(T)
    PROVE  a \o b \o c \o d \o e \o f \in Seq(T)
  OBVIOUS

\* Every transaction of the sequence of illegal encodings is sound: the undefined funct7
\* it gives to shifts have bit 30 clear.
LEMMA SoundIllegal == IllegalEncoding \in Seq(Draws)
  <1>1. ForEach(UNKNOWN_OPCODES, LAMBDA op :
          << Draw3(LAMBDA a, b, c : Encoded(0, c, b, 0, a, op)) >>) \in Seq(Draws)
    <2> DEFINE w(op) == << Draw3(LAMBDA a, b, c : Encoded(0, c, b, 0, a, op)) >>
               s == UNKNOWN_OPCODES
               f == [k \in DOMAIN s |-> w(s[k])]
    <2>1. ASSUME NEW op \in 0 .. 127 PROVE w(op) \in Seq(Draws)
      <3>2. Draw3(LAMBDA a, b, c : Encoded(0, c, b, 0, a, op)) \in Draws
        BY <2>1, DrawnWords, Zenon
      <3> HIDE DEF Draws
      <3>3. QED
        BY <3>2, ShortLists
    <2>2. DOMAIN s = 1 .. 8 /\ \A k \in 1 .. 8 : s[k] \in 0 .. 127
      BY DEF UNKNOWN_OPCODES
    <2>3. ForEach(UNKNOWN_OPCODES, LAMBDA op :
            << Draw3(LAMBDA a, b, c : Encoded(0, c, b, 0, a, op)) >>) = FlattenSeq(f)
      BY DEF ForEach
    <2> HIDE DEF w, s
    <2>4. f = [k \in 1 .. 8 |-> f[k]] /\ \A k \in 1 .. 8 : f[k] \in Seq(Draws)
      BY <2>1, <2>2
    <2> HIDE DEF f
    <2>5. FlattenSeq(f) \in Seq(Draws)
      BY <2>4, Chained
    <2>6. QED
      BY <2>3, <2>5, Zenon
  <1>2. ForEach(<<1, 2, 4, 8, 64, 127>>, LAMBDA f7 :
          [k \in 1 .. 8 |-> Draw3(LAMBDA a, b, c : encode_r(f7, a, b, k - 1, c))]) \in Seq(Draws)
    <2> DEFINE w(f7) == [k \in 1 .. 8 |-> Draw3(LAMBDA a, b, c : encode_r(f7, a, b, k - 1, c))]
               s == <<1, 2, 4, 8, 64, 127>>
               f == [k \in DOMAIN s |-> w(s[k])]
    <2>1. ASSUME NEW f7 \in Int PROVE w(f7) \in Seq(Draws)
      <3>1. ASSUME NEW k \in 1 .. 8 PROVE Draw3(LAMBDA a, b, c : encode_r(f7, a, b, k - 1, c)) \in Draws
        <4>1. k - 1 \in 0 .. 7
          OBVIOUS
        <4>2. \A a, b, c \in R5 : encode_r(f7, a, b, k - 1, c) \in Sound
          BY <2>1, <4>1, Drawn, SoundR
        <4>3. QED
          BY <4>2 DEF Draw3, Draws
      <3> DEFINE g(k) == Draw3(LAMBDA a, b, c : encode_r(f7, a, b, k - 1, c))
      <3>2. \A k \in 1 .. 8 : g(k) \in Draws
        BY <3>1
      <3> HIDE DEF g, Draws
      <3>3. [k \in 1 .. 8 |-> g(k)] \in Seq(Draws)
        BY <3>2, SeqDef
      <3>4. QED
        BY <3>3 DEF g
    <2>2. DOMAIN s = 1 .. 6 /\ \A k \in 1 .. 6 : s[k] \in Int
      OBVIOUS
    <2>3. ForEach(<<1, 2, 4, 8, 64, 127>>, LAMBDA f7 :
            [k \in 1 .. 8 |-> Draw3(LAMBDA a, b, c : encode_r(f7, a, b, k - 1, c))]) = FlattenSeq(f)
      BY DEF ForEach
    <2> HIDE DEF w, s
    <2>4. f = [k \in 1 .. 6 |-> f[k]] /\ \A k \in 1 .. 6 : f[k] \in Seq(Draws)
      BY <2>1, <2>2
    <2> HIDE DEF f
    <2>5. FlattenSeq(f) \in Seq(Draws)
      BY <2>4, Chained
    <2>6. QED
      BY <2>3, <2>5, Zenon
  <1>3. ForEach(<<1, 2, 3, 4, 6, 7>>, LAMBDA f3 :
          << Draw3(LAMBDA a, b, c : encode_r(32, a, b, f3, c)) >>) \in Seq(Draws)
    <2> DEFINE w(f3) == << Draw3(LAMBDA a, b, c : encode_r(32, a, b, f3, c)) >>
               s == <<1, 2, 3, 4, 6, 7>>
               f == [k \in DOMAIN s |-> w(s[k])]
    <2>1. ASSUME NEW f3 \in 0 .. 7 PROVE w(f3) \in Seq(Draws)
      <3>1. 32 \in Int /\ f3 \in 0 .. 7
        BY <2>1
      <3>2. Draw3(LAMBDA a, b, c : encode_r(32, a, b, f3, c)) \in Draws
        BY <3>1, DrawnWords, Zenon
      <3> HIDE DEF Draws
      <3>3. QED
        BY <3>2, ShortLists
    <2>2. DOMAIN s = 1 .. 6 /\ \A k \in 1 .. 6 : s[k] \in 0 .. 7
      OBVIOUS
    <2>3. ForEach(<<1, 2, 3, 4, 6, 7>>, LAMBDA f3 :
            << Draw3(LAMBDA a, b, c : encode_r(32, a, b, f3, c)) >>) = FlattenSeq(f)
      BY DEF ForEach
    <2> HIDE DEF w, s
    <2>4. f = [k \in 1 .. 6 |-> f[k]] /\ \A k \in 1 .. 6 : f[k] \in Seq(Draws)
      BY <2>1, <2>2
    <2> HIDE DEF f
    <2>5. FlattenSeq(f) \in Seq(Draws)
      BY <2>4, Chained
    <2>6. QED
      BY <2>3, <2>5, Zenon
  <1>4. ForEach(BAD_SHIFT_F7, LAMBDA f7 :
          << Draw3(LAMBDA a, b, c : encode_i_shift(f7, 1, a, b, c)),
            Draw3(LAMBDA a, b, c : encode_i_shift(f7, 5, a, b, c)) >>) \in Seq(Draws)
    <2> DEFINE w(f7) == << Draw3(LAMBDA a, b, c : encode_i_shift(f7, 1, a, b, c)),
                          Draw3(LAMBDA a, b, c : encode_i_shift(f7, 5, a, b, c)) >>
               s == BAD_SHIFT_F7
               f == [k \in DOMAIN s |-> w(s[k])]
    <2>1. ASSUME NEW f7 \in ShiftFunct7 PROVE w(f7) \in Seq(Draws)
      <3>1. f7 \in ShiftFunct7 /\ 1 \in 0 .. 7 /\ 5 \in 0 .. 7
        BY <2>1
      <3>2. /\ Draw3(LAMBDA a, b, c : encode_i_shift(f7, 1, a, b, c)) \in Draws
            /\ Draw3(LAMBDA a, b, c : encode_i_shift(f7, 5, a, b, c)) \in Draws
        BY <3>1, DrawnWords, Zenon
      <3> HIDE DEF Draws
      <3>3. QED
        BY <3>2, ShortLists
    <2>2. DOMAIN s = 1 .. 5 /\ \A k \in 1 .. 5 : s[k] \in ShiftFunct7
      BY DEF BAD_SHIFT_F7, ShiftFunct7
    <2>3. ForEach(BAD_SHIFT_F7, LAMBDA f7 :
            << Draw3(LAMBDA a, b, c : encode_i_shift(f7, 1, a, b, c)),
              Draw3(LAMBDA a, b, c : encode_i_shift(f7, 5, a, b, c)) >>) = FlattenSeq(f)
      BY DEF ForEach
    <2> HIDE DEF w, s
    <2>4. f = [k \in 1 .. 5 |-> f[k]] /\ \A k \in 1 .. 5 : f[k] \in Seq(Draws)
      BY <2>1, <2>2
    <2> HIDE DEF f
    <2>5. FlattenSeq(f) \in Seq(Draws)
      BY <2>4, Chained
    <2>6. QED
      BY <2>3, <2>5, Zenon
  <1>5. ForEach(<<0, 1, 3, 4, 5, 6, 7>>, LAMBDA f3 :
          << Draw2(LAMBDA a, b : encode_i(LOAD, f3, a, b, 0)) >>) \in Seq(Draws)
    <2> DEFINE w(f3) == << Draw2(LAMBDA a, b : encode_i(LOAD, f3, a, b, 0)) >>
               s == <<0, 1, 3, 4, 5, 6, 7>>
               f == [k \in DOMAIN s |-> w(s[k])]
    <2>1. ASSUME NEW f3 \in 0 .. 7 PROVE w(f3) \in Seq(Draws)
      <3>1. 0 \in Int /\ f3 \in 0 .. 7
        BY <2>1
      <3>2. Draw2(LAMBDA a, b : encode_i(LOAD, f3, a, b, 0)) \in Draws
        BY <3>1, DrawnWords, Zenon
      <3> HIDE DEF Draws
      <3>3. QED
        BY <3>2, ShortLists
    <2>2. DOMAIN s = 1 .. 7 /\ \A k \in 1 .. 7 : s[k] \in 0 .. 7
      OBVIOUS
    <2>3. ForEach(<<0, 1, 3, 4, 5, 6, 7>>, LAMBDA f3 :
            << Draw2(LAMBDA a, b : encode_i(LOAD, f3, a, b, 0)) >>) = FlattenSeq(f)
      BY DEF ForEach
    <2> HIDE DEF w, s
    <2>4. f = [k \in 1 .. 7 |-> f[k]] /\ \A k \in 1 .. 7 : f[k] \in Seq(Draws)
      BY <2>1, <2>2
    <2> HIDE DEF f
    <2>5. FlattenSeq(f) \in Seq(Draws)
      BY <2>4, Chained
    <2>6. QED
      BY <2>3, <2>5, Zenon
  <1>6. ForEach(<<2, 3, 4, 5, 6, 7>>, LAMBDA f3 : << Draw2(LAMBDA a, b : encode_b(a, b, f3, 8)) >>)
          \in Seq(Draws)
    <2> DEFINE w(f3) == << Draw2(LAMBDA a, b : encode_b(a, b, f3, 8)) >>
               s == <<2, 3, 4, 5, 6, 7>>
               f == [k \in DOMAIN s |-> w(s[k])]
    <2>1. ASSUME NEW f3 \in 0 .. 7 PROVE w(f3) \in Seq(Draws)
      <3>1. 8 \in Int /\ f3 \in 0 .. 7
        BY <2>1
      <3>2. Draw2(LAMBDA a, b : encode_b(a, b, f3, 8)) \in Draws
        BY <3>1, DrawnWords, Zenon
      <3> HIDE DEF Draws
      <3>3. QED
        BY <3>2, ShortLists
    <2>2. DOMAIN s = 1 .. 6 /\ \A k \in 1 .. 6 : s[k] \in 0 .. 7
      OBVIOUS
    <2>3. ForEach(<<2, 3, 4, 5, 6, 7>>, LAMBDA f3 :
            << Draw2(LAMBDA a, b : encode_b(a, b, f3, 8)) >>) = FlattenSeq(f)
      BY DEF ForEach
    <2> HIDE DEF w, s
    <2>4. f = [k \in 1 .. 6 |-> f[k]] /\ \A k \in 1 .. 6 : f[k] \in Seq(Draws)
      BY <2>1, <2>2
    <2> HIDE DEF f
    <2>5. FlattenSeq(f) \in Seq(Draws)
      BY <2>4, Chained
    <2>6. QED
      BY <2>3, <2>5, Zenon
  <1>7. QED
    BY <1>1, <1>2, <1>3, <1>4, <1>5, <1>6, SixLists, Zenon DEF IllegalEncoding

\* Every transaction of the boundary sequence is sound.
LEMMA SoundBoundary == BoundaryImm \in Seq(Draws)
  <1>1. ForEach(I_FUNCT3, LAMBDA f3 :
          ForEach(I_BOUNDARY, LAMBDA imm :
            << Draw2(LAMBDA a, b : encode_i(I_TYPE, f3, a, b, imm)) >>)) \in Seq(Draws)
    <2> DEFINE w(f3) == ForEach(I_BOUNDARY, LAMBDA imm :
                          << Draw2(LAMBDA a, b : encode_i(I_TYPE, f3, a, b, imm)) >>)
               s == I_FUNCT3
               f == [k \in DOMAIN s |-> w(s[k])]
    <2>1. ASSUME NEW f3 \in (0 .. 7) \ {5} PROVE w(f3) \in Seq(Draws)
      <3>1. ForEach(I_BOUNDARY, LAMBDA imm :
              << Draw2(LAMBDA a, b : encode_i(I_TYPE, f3, a, b, imm)) >>) \in Seq(Draws)
        <4> DEFINE w1(imm) == << Draw2(LAMBDA a, b : encode_i(I_TYPE, f3, a, b, imm)) >>
                   s1 == I_BOUNDARY
                   f1 == [k \in DOMAIN s1 |-> w1(s1[k])]
        <4>1. ASSUME NEW imm \in Int PROVE w1(imm) \in Seq(Draws)
          <5>1. imm \in Int /\ f3 \in 0 .. 7 /\ f3 # 5
            BY <4>1, <2>1
          <5>2. Draw2(LAMBDA a, b : encode_i(I_TYPE, f3, a, b, imm)) \in Draws
            BY <5>1, DrawnWords, Zenon
          <5> HIDE DEF Draws
          <5>3. QED
            BY <5>2, ShortLists
        <4>2. DOMAIN s1 = 1 .. 5 /\ \A k \in 1 .. 5 : s1[k] \in Int
          BY DEF I_BOUNDARY
        <4>3. ForEach(I_BOUNDARY, LAMBDA imm :
                << Draw2(LAMBDA a, b : encode_i(I_TYPE, f3, a, b, imm)) >>) = FlattenSeq(f1)
          BY DEF ForEach
        <4> HIDE DEF w1, s1
        <4>4. f1 = [k \in 1 .. 5 |-> f1[k]] /\ \A k \in 1 .. 5 : f1[k] \in Seq(Draws)
          BY <4>1, <4>2
        <4> HIDE DEF f1
        <4>5. FlattenSeq(f1) \in Seq(Draws)
          BY <4>4, Chained
        <4>6. QED
          BY <4>3, <4>5, Zenon
      <3>2. QED
        BY <3>1
    <2>2. DOMAIN s = 1 .. 6 /\ \A k \in 1 .. 6 : s[k] \in (0 .. 7) \ {5}
      BY DEF I_FUNCT3
    <2>3. ForEach(I_FUNCT3, LAMBDA f3 :
            ForEach(I_BOUNDARY, LAMBDA imm :
              << Draw2(LAMBDA a, b : encode_i(I_TYPE, f3, a, b, imm)) >>)) = FlattenSeq(f)
      BY DEF ForEach
    <2> HIDE DEF w, s
    <2>4. f = [k \in 1 .. 6 |-> f[k]] /\ \A k \in 1 .. 6 : f[k] \in Seq(Draws)
      BY <2>1, <2>2
    <2> HIDE DEF f
    <2>5. FlattenSeq(f) \in Seq(Draws)
      BY <2>4, Chained
    <2>6. QED
      BY <2>3, <2>5, Zenon
  <1>2. ForEach(<<0, 1, 31>>, LAMBDA sh :
          ForEach(<< <<0, 1>>, <<0, 5>>, <<32, 5>> >>, LAMBDA e :
            << Draw2(LAMBDA a, b : encode_i_shift(e[1], e[2], a, b, sh)) >>)) \in Seq(Draws)
    <2> DEFINE w(sh) == ForEach(<< <<0, 1>>, <<0, 5>>, <<32, 5>> >>, LAMBDA e :
                          << Draw2(LAMBDA a, b : encode_i_shift(e[1], e[2], a, b, sh)) >>)
               s == <<0, 1, 31>>
               f == [k \in DOMAIN s |-> w(s[k])]
    <2>1. ASSUME NEW sh \in Int PROVE w(sh) \in Seq(Draws)
      <3>1. ForEach(<< <<0, 1>>, <<0, 5>>, <<32, 5>> >>, LAMBDA e :
              << Draw2(LAMBDA a, b : encode_i_shift(e[1], e[2], a, b, sh)) >>) \in Seq(Draws)
        <4> DEFINE w1(e) == << Draw2(LAMBDA a, b : encode_i_shift(e[1], e[2], a, b, sh)) >>
                   s1 == << <<0, 1>>, <<0, 5>>, <<32, 5>> >>
                   f1 == [k \in DOMAIN s1 |-> w1(s1[k])]
        <4>1. ASSUME NEW e \in ShiftFunct7 \X {1, 5} PROVE w1(e) \in Seq(Draws)
          <5>1. sh \in Int /\ e[1] \in ShiftFunct7 /\ e[2] \in 0 .. 7
            BY <4>1, <2>1
          <5>2. Draw2(LAMBDA a, b : encode_i_shift(e[1], e[2], a, b, sh)) \in Draws
            BY <5>1, DrawnWords, Zenon
          <5> HIDE DEF Draws
          <5>3. QED
            BY <5>2, ShortLists
        <4>2. DOMAIN s1 = 1 .. 3 /\ \A k \in 1 .. 3 : s1[k] \in ShiftFunct7 \X {1, 5}
          BY DEF ShiftFunct7
        <4>3. ForEach(<< <<0, 1>>, <<0, 5>>, <<32, 5>> >>, LAMBDA e :
                << Draw2(LAMBDA a, b : encode_i_shift(e[1], e[2], a, b, sh)) >>) = FlattenSeq(f1)
          BY DEF ForEach
        <4> HIDE DEF w1, s1
        <4>4. f1 = [k \in 1 .. 3 |-> f1[k]] /\ \A k \in 1 .. 3 : f1[k] \in Seq(Draws)
          BY <4>1, <4>2
        <4> HIDE DEF f1
        <4>5. FlattenSeq(f1) \in Seq(Draws)
          BY <4>4, Chained
        <4>6. QED
          BY <4>3, <4>5, Zenon
      <3>2. QED
        BY <3>1
    <2>2. DOMAIN s = 1 .. 3 /\ \A k \in 1 .. 3 : s[k] \in Int
      OBVIOUS
    <2>3. ForEach(<<0, 1, 31>>, LAMBDA sh :
            ForEach(<< <<0, 1>>, <<0, 5>>, <<32, 5>> >>, LAMBDA e :
              << Draw2(LAMBDA a, b : encode_i_shift(e[1], e[2], a, b, sh)) >>)) = FlattenSeq(f)
      BY DEF ForEach
    <2> HIDE DEF w, s
    <2>4. f = [k \in 1 .. 3 |-> f[k]] /\ \A k \in 1 .. 3 : f[k] \in Seq(Draws)
      BY <2>1, <2>2
    <2> HIDE DEF f
    <2>5. FlattenSeq(f) \in Seq(Draws)
      BY <2>4, Chained
    <2>6. QED
      BY <2>3, <2>5, Zenon
  <1>3. ForEach(I_BOUNDARY, LAMBDA imm : << Draw2(LAMBDA a, b : encode_i(LOAD, 2, a, b, imm)) >>)
          \in Seq(Draws)
    <2> DEFINE w(imm) == << Draw2(LAMBDA a, b : encode_i(LOAD, 2, a, b, imm)) >>
               s == I_BOUNDARY
               f == [k \in DOMAIN s |-> w(s[k])]
    <2>1. ASSUME NEW imm \in Int PROVE w(imm) \in Seq(Draws)
      <3>1. imm \in Int /\ 2 \in 0 .. 7
        BY <2>1
      <3>2. Draw2(LAMBDA a, b : encode_i(LOAD, 2, a, b, imm)) \in Draws
        BY <3>1, DrawnWords, Zenon
      <3> HIDE DEF Draws
      <3>3. QED
        BY <3>2, ShortLists
    <2>2. DOMAIN s = 1 .. 5 /\ \A k \in 1 .. 5 : s[k] \in Int
      BY DEF I_BOUNDARY
    <2>3. ForEach(I_BOUNDARY, LAMBDA imm : << Draw2(LAMBDA a, b : encode_i(LOAD, 2, a, b, imm)) >>)
            = FlattenSeq(f)
      BY DEF ForEach
    <2> HIDE DEF w, s
    <2>4. f = [k \in 1 .. 5 |-> f[k]] /\ \A k \in 1 .. 5 : f[k] \in Seq(Draws)
      BY <2>1, <2>2
    <2> HIDE DEF f
    <2>5. FlattenSeq(f) \in Seq(Draws)
      BY <2>4, Chained
    <2>6. QED
      BY <2>3, <2>5, Zenon
  <1>4. ForEach(I_BOUNDARY, LAMBDA imm : << Draw2(LAMBDA a, b : encode_s(a, b, imm)) >>) \in Seq(Draws)
    <2> DEFINE w(imm) == << Draw2(LAMBDA a, b : encode_s(a, b, imm)) >>
               s == I_BOUNDARY
               f == [k \in DOMAIN s |-> w(s[k])]
    <2>1. ASSUME NEW imm \in Int PROVE w(imm) \in Seq(Draws)
      <3>1. imm \in Int /\ 2 \in 0 .. 7
        BY <2>1
      <3>2. Draw2(LAMBDA a, b : encode_s(a, b, imm)) \in Draws
        BY <3>1, DrawnWords, Zenon
      <3> HIDE DEF Draws
      <3>3. QED
        BY <3>2, ShortLists
    <2>2. DOMAIN s = 1 .. 5 /\ \A k \in 1 .. 5 : s[k] \in Int
      BY DEF I_BOUNDARY
    <2>3. ForEach(I_BOUNDARY, LAMBDA imm : << Draw2(LAMBDA a, b : encode_s(a, b, imm)) >>)
            = FlattenSeq(f)
      BY DEF ForEach
    <2> HIDE DEF w, s
    <2>4. f = [k \in 1 .. 5 |-> f[k]] /\ \A k \in 1 .. 5 : f[k] \in Seq(Draws)
      BY <2>1, <2>2
    <2> HIDE DEF f
    <2>5. FlattenSeq(f) \in Seq(Draws)
      BY <2>4, Chained
    <2>6. QED
      BY <2>3, <2>5, Zenon
  <1>5. ForEach(B_BOUNDARY, LAMBDA off :
          << Draw2(LAMBDA a, b : encode_b(a, b, 0, off)),
            Draw2(LAMBDA a, b : encode_b(a, b, 1, off)) >>) \in Seq(Draws)
    <2> DEFINE w(off) == << Draw2(LAMBDA a, b : encode_b(a, b, 0, off)),
                           Draw2(LAMBDA a, b : encode_b(a, b, 1, off)) >>
               s == B_BOUNDARY
               f == [k \in DOMAIN s |-> w(s[k])]
    <2>1. ASSUME NEW off \in Int PROVE w(off) \in Seq(Draws)
      <3>1. off \in Int /\ 0 \in 0 .. 7 /\ 1 \in 0 .. 7
        BY <2>1
      <3>2. /\ Draw2(LAMBDA a, b : encode_b(a, b, 0, off)) \in Draws
            /\ Draw2(LAMBDA a, b : encode_b(a, b, 1, off)) \in Draws
        BY <3>1, DrawnWords, Zenon
      <3> HIDE DEF Draws
      <3>3. QED
        BY <3>2, ShortLists
    <2>2. DOMAIN s = 1 .. 5 /\ \A k \in 1 .. 5 : s[k] \in Int
      BY DEF B_BOUNDARY
    <2>3. ForEach(B_BOUNDARY, LAMBDA off :
            << Draw2(LAMBDA a, b : encode_b(a, b, 0, off)),
              Draw2(LAMBDA a, b : encode_b(a, b, 1, off)) >>) = FlattenSeq(f)
      BY DEF ForEach
    <2> HIDE DEF w, s
    <2>4. f = [k \in 1 .. 5 |-> f[k]] /\ \A k \in 1 .. 5 : f[k] \in Seq(Draws)
      BY <2>1, <2>2
    <2> HIDE DEF f
    <2>5. FlattenSeq(f) \in Seq(Draws)
      BY <2>4, Chained
    <2>6. QED
      BY <2>3, <2>5, Zenon
  <1>6. ForEach(J_BOUNDARY, LAMBDA off : << { encode_j(a, off) : a \in R5 } >>) \in Seq(Draws)
    <2> DEFINE w(off) == << { encode_j(a, off) : a \in R5 } >>
               s == J_BOUNDARY
               f == [k \in DOMAIN s |-> w(s[k])]
    <2>1. ASSUME NEW off \in Int PROVE w(off) \in Seq(Draws)
      <3>1. off \in Int /\ 0 \in 0 .. 7
        BY <2>1
      <3>2. { encode_j(a, off) : a \in R5 } \in Draws
        BY <3>1, DrawnWords, Zenon
      <3> HIDE DEF Draws
      <3>3. QED
        BY <3>2, ShortLists
    <2>2. DOMAIN s = 1 .. 5 /\ \A k \in 1 .. 5 : s[k] \in Int
      BY SMT DEF J_BOUNDARY, J_MIN, J_MAX
    <2>3. ForEach(J_BOUNDARY, LAMBDA off : << { encode_j(a, off) : a \in R5 } >>) = FlattenSeq(f)
      BY DEF ForEach
    <2> HIDE DEF w, s
    <2>4. f = [k \in 1 .. 5 |-> f[k]] /\ \A k \in 1 .. 5 : f[k] \in Seq(Draws)
      BY <2>1, <2>2
    <2> HIDE DEF f
    <2>5. FlattenSeq(f) \in Seq(Draws)
      BY <2>4, Chained
    <2>6. QED
      BY <2>3, <2>5, Zenon
  <1>7. QED
    BY <1>1, <1>2, <1>3, <1>4, <1>5, <1>6,SixLists, Zenon DEF BoundaryImm

\* Every transaction of the R-type sweep is sound.
LEMMA SoundSweep == RTypeFunct7 \in Seq(Draws)
  <1>1. ForEach(<<0, 1, 2, 3, 4, 5, 6, 7>>, LAMBDA f3 :
          << Draw3(LAMBDA a, b, c : encode_r(0, a, b, f3, c)),
            Draw3(LAMBDA a, b, c : encode_r(32, a, b, f3, c)) >>) \in Seq(Draws)
    <2> DEFINE w(f3) == << Draw3(LAMBDA a, b, c : encode_r(0, a, b, f3, c)),
                          Draw3(LAMBDA a, b, c : encode_r(32, a, b, f3, c)) >>
               s == <<0, 1, 2, 3, 4, 5, 6, 7>>
               f == [k \in DOMAIN s |-> w(s[k])]
    <2>1. ASSUME NEW f3 \in 0 .. 7 PROVE w(f3) \in Seq(Draws)
      <3>1. 0 \in Int /\ 32 \in Int /\ f3 \in 0 .. 7
        BY <2>1
      <3>2. /\ Draw3(LAMBDA a, b, c : encode_r(0, a, b, f3, c)) \in Draws
            /\ Draw3(LAMBDA a, b, c : encode_r(32, a, b, f3, c)) \in Draws
        BY <3>1, DrawnWords, Zenon
      <3> HIDE DEF Draws
      <3>3. QED
        BY <3>2, ShortLists
    <2>2. DOMAIN s = 1 .. 8 /\ \A k \in 1 .. 8 : s[k] \in 0 .. 7
      OBVIOUS
    <2>3. ForEach(<<0, 1, 2, 3, 4, 5, 6, 7>>, LAMBDA f3 :
            << Draw3(LAMBDA a, b, c : encode_r(0, a, b, f3, c)),
              Draw3(LAMBDA a, b, c : encode_r(32, a, b, f3, c)) >>) = FlattenSeq(f)
      BY DEF ForEach
    <2> HIDE DEF w, s
    <2>4. f = [k \in 1 .. 8 |-> f[k]] /\ \A k \in 1 .. 8 : f[k] \in Seq(Draws)
      BY <2>1, <2>2
    <2> HIDE DEF f
    <2>5. FlattenSeq(f) \in Seq(Draws)
      BY <2>4, Chained
    <2>6. QED
      BY <2>3, <2>5, Zenon
  <1>2. QED
    BY <1>1 DEF RTypeFunct7

\* Naming x0 as one of its registers leaves a word sound.
LEMMA ClearedSound ==
    ASSUME NEW S \in Draws, NEW field \in {"rd", "rs1", "rs2"}
    PROVE  Cleared(S, field) \in Draws
  <1>1. ASSUME NEW i \in Sound PROVE [i EXCEPT ![field] = 0] \in Sound
    <2> DEFINE j == [i EXCEPT ![field] = 0]
    <2>1. i \in Instr /\ ~UndefinedShift(i)
      BY DEF Sound
    <2>2. j \in Instr /\ j.opcode = i.opcode /\ j.funct3 = i.funct3 /\ j.funct7 = i.funct7
      BY <2>1 DEF Instr, RegIndex
    <2> HIDE DEF j
    <2>3. ~UndefinedShift(j)
      BY <2>1, <2>2 DEF UndefinedShift
    <2>4. QED
      BY <2>2, <2>3 DEF Sound, j
  <1>2. QED
    BY <1>1 DEF Cleared, Draws

\* Every transaction of the register-zero sequence is sound.
LEMMA SoundZero == RegisterZero \in Seq(Draws)
  <1>1. ForEach(<<"ADD", "SUB", "AND", "OR", "XOR", "SLT", "SLTU", "SLL", "SRL", "SRA">>,
          LAMBDA op : << make_r(op), Cleared(make_r(op), "rd"), Cleared(make_r(op), "rs1"),
            Cleared(make_r(op), "rs2") >>) \in Seq(Draws)
    <2> DEFINE w(op) == << make_r(op), Cleared(make_r(op), "rd"), Cleared(make_r(op), "rs1"),
                          Cleared(make_r(op), "rs2") >>
               s == <<"ADD", "SUB", "AND", "OR", "XOR", "SLT", "SLTU", "SLL", "SRL", "SRA">>
               f == [k \in DOMAIN s |-> w(s[k])]
    <2>1. ASSUME NEW op \in AluOp PROVE w(op) \in Seq(Draws)
      <3>1. make_r(op) \in Draws
        BY <2>1, RandomWords
      <3> HIDE DEF Draws
      <3>2. Cleared(make_r(op), "rd") \in Draws /\ Cleared(make_r(op), "rs1") \in Draws
            /\ Cleared(make_r(op), "rs2") \in Draws
        BY <3>1, ClearedSound
      <3>3. QED
        BY <3>1, <3>2, ShortLists
    <2>2. DOMAIN s = 1 .. 10 /\ \A k \in 1 .. 10 : s[k] \in AluOp
      BY DEF AluOp
    <2>3. ForEach(<<"ADD", "SUB", "AND", "OR", "XOR", "SLT", "SLTU", "SLL", "SRL", "SRA">>,
            LAMBDA op : << make_r(op), Cleared(make_r(op), "rd"), Cleared(make_r(op), "rs1"),
              Cleared(make_r(op), "rs2") >>) = FlattenSeq(f)
      BY DEF ForEach
    <2> HIDE DEF w, s
    <2>4. f = [k \in 1 .. 10 |-> f[k]] /\ \A k \in 1 .. 10 : f[k] \in Seq(Draws)
      BY <2>1, <2>2
    <2> HIDE DEF f
    <2>5. FlattenSeq(f) \in Seq(Draws)
      BY <2>4, Chained
    <2>6. QED
      BY <2>3, <2>5, Zenon
  <1>2. ForEach(<<"ADD", "SLT", "SLTU", "XOR", "OR", "AND", "SLL", "SRL", "SRA">>, LAMBDA op :
          << make_i(op), Cleared(make_i(op), "rd"), Cleared(make_i(op), "rs1") >>) \in Seq(Draws)
    <2> DEFINE w(op) == << make_i(op), Cleared(make_i(op), "rd"), Cleared(make_i(op), "rs1") >>
               s == <<"ADD", "SLT", "SLTU", "XOR", "OR", "AND", "SLL", "SRL", "SRA">>
               f == [k \in DOMAIN s |-> w(s[k])]
    <2>1. ASSUME NEW op \in AluOp PROVE w(op) \in Seq(Draws)
      <3>1. make_i(op) \in Draws
        BY <2>1, RandomWords
      <3> HIDE DEF Draws
      <3>2. Cleared(make_i(op), "rd") \in Draws /\ Cleared(make_i(op), "rs1") \in Draws
        BY <3>1, ClearedSound
      <3>3. QED
        BY <3>1, <3>2, ShortLists
    <2>2. DOMAIN s = 1 .. 9 /\ \A k \in 1 .. 9 : s[k] \in AluOp
      BY DEF AluOp
    <2>3. ForEach(<<"ADD", "SLT", "SLTU", "XOR", "OR", "AND", "SLL", "SRL", "SRA">>, LAMBDA op :
            << make_i(op), Cleared(make_i(op), "rd"), Cleared(make_i(op), "rs1") >>) = FlattenSeq(f)
      BY DEF ForEach
    <2> HIDE DEF w, s
    <2>4. f = [k \in 1 .. 9 |-> f[k]] /\ \A k \in 1 .. 9 : f[k] \in Seq(Draws)
      BY <2>1, <2>2
    <2> HIDE DEF f
    <2>5. FlattenSeq(f) \in Seq(Draws)
      BY <2>4, Chained
    <2>6. QED
      BY <2>3, <2>5, Zenon
  <1>3. << { encode_i(LOAD, 2, 0, a, 0) : a \in R5 }, { encode_i(LOAD, 2, a, 0, 0) : a \in R5 },
          { encode_s(0, a, 0) : a \in R5 }, { encode_s(a, 0, 0) : a \in R5 },
          { encode_b(0, a, 0, 8) : a \in R5 }, { encode_b(a, 0, 0, 8) : a \in R5 },
          { encode_b(0, a, 1, 8) : a \in R5 }, { encode_j(0, 8) } >> \in Seq(Draws)
    <2>1. \A a \in R5 : a \in RegIndex
      BY Drawn
    <2>2. 0 \in RegIndex /\ LOAD \in {I_TYPE, LOAD} /\ 0 \in 0 .. 7 /\ 1 \in 0 .. 7 /\ 2 \in 0 .. 7
      BY DEF RegIndex
    <2>3. { encode_i(LOAD, 2, 0, a, 0) : a \in R5 } \in Draws
          /\ { encode_i(LOAD, 2, a, 0, 0) : a \in R5 } \in Draws
      BY <2>1, <2>2, SoundI DEF Draws
    <2>4. { encode_s(0, a, 0) : a \in R5 } \in Draws /\ { encode_s(a, 0, 0) : a \in R5 } \in Draws
      BY <2>1, <2>2, SoundSBJ DEF Draws
    <2>5. { encode_b(0, a, 0, 8) : a \in R5 } \in Draws /\ { encode_b(a, 0, 0, 8) : a \in R5 } \in Draws
      BY <2>1, <2>2, SoundSBJ DEF Draws
    <2>6. { encode_b(0, a, 1, 8) : a \in R5 } \in Draws /\ { encode_j(0, 8) } \in Draws
      BY <2>1, <2>2, SoundSBJ DEF Draws
    <2> HIDE DEF Draws
    <2>7. QED
      BY <2>3, <2>4, <2>5, <2>6
  <1>4. QED
    BY <1>1, <1>2, <1>3, ConcatProperties, Zenon DEF RegisterZero

\* So are ten.
LEMMA TenLists ==
    ASSUME NEW T, NEW a \in Seq(T), NEW b \in Seq(T), NEW c \in Seq(T), NEW d \in Seq(T),
           NEW e \in Seq(T), NEW f \in Seq(T), NEW g \in Seq(T), NEW h \in Seq(T),
           NEW i \in Seq(T), NEW j \in Seq(T)
    PROVE  a \o b \o c \o d \o e \o f \o g \o h \o i \o j \in Seq(T)
  OBVIOUS

\* A list of fixed words.
LEMMA ExactlySound == ASSUME NEW s \in Seq(Sound) PROVE Exactly(s) \in Seq(Draws)
  <1> DEFINE n == Len(s)
             e == [k \in DOMAIN s |-> {s[k]}]
  <1>1. n \in Nat /\ DOMAIN s = 1 .. n /\ \A k \in 1 .. n : s[k] \in Sound
    BY LenProperties
  <1>2. \A k \in 1 .. n : {s[k]} \in Draws
    BY <1>1 DEF Draws
  <1> HIDE DEF n, Draws
  <1>3. e \in [1 .. n -> Draws]
    BY <1>1, <1>2
  <1>4. QED
    BY <1>1, <1>3, SeqDef DEF Exactly

\* Every transaction of the directed sequence is sound.
LEMMA SoundDirected == Directed \in Seq(Draws)
  <1> DEFINE rtypes == ForEach(R_ENCODINGS, LAMBDA e : << encode_r(e[1], 0, 0, e[2], 0) >>)
             aliases == << encode_r(0, 11, 10, 0, 10), encode_r(32, 11, 10, 0, 5),
                          encode_r(0, 11, 10, 5, 5), encode_r(32, 11, 10, 5, 5) >>
             itypes == ForEach(I_FUNCT3, LAMBDA f3 :
                         [k \in 1 .. 5 |-> encode_i(I_TYPE, f3, 10, 11, DIRECTED_IMMS[k])]
                           \o << encode_i(I_TYPE, f3, 0, 0, 0) >>)
             shifts == ForEach(<< <<0, 1>>, <<0, 5>>, <<32, 5>> >>, LAMBDA e :
                         [k \in 1 .. 3 |-> encode_i_shift(e[1], e[2], 10, 11, <<0, 1, 31>>[k])])
             loads == [k \in 1 .. 5 |-> encode_i(LOAD, 2, 10, 11, DIRECTED_IMMS[k])]
             stores == [k \in 1 .. 5 |-> encode_s(11, 10, DIRECTED_IMMS[k])]
             branches == [k \in 1 .. 5 |-> encode_b(10, 11, 0, DIRECTED_OFFSETS[k])]
             jumps == << encode_b(10, 11, 1, 2), encode_b(10, 11, 1, -2), encode_b(0, 0, 0, 2),
                        encode_j(1, 2), encode_j(1, -2), encode_j(0, 2), encode_j(1, J_MAX),
                          encode_j(1, J_MIN) >>
  <1>1. /\ 0 \in RegIndex /\ 1 \in RegIndex /\ 5 \in RegIndex /\ 10 \in RegIndex /\ 11 \in RegIndex
        /\ \A k \in 1 .. 5 : DIRECTED_IMMS[k] \in Int /\ DIRECTED_OFFSETS[k] \in Int
        /\ LOAD \in {I_TYPE, LOAD} /\ I_TYPE \in {I_TYPE, LOAD} /\ 2 \in 0 .. 7
        /\ 0 \in 0 .. 7 /\ 1 \in 0 .. 7
    BY SMT DEF RegIndex, DIRECTED_IMMS, DIRECTED_OFFSETS
  <1>2. rtypes \in Seq(Sound)
    <2> DEFINE w(e) == << encode_r(e[1], 0, 0, e[2], 0) >>
               s == R_ENCODINGS
               f == [k \in DOMAIN s |-> w(s[k])]
    <2>1. ASSUME NEW e \in Int \X (0 .. 7) PROVE w(e) \in Seq(Sound)
      <3>1. e[1] \in Int /\ e[2] \in 0 .. 7
        BY <2>1
      <3>2. encode_r(e[1], 0, 0, e[2], 0) \in Sound
        BY <1>1, <3>1, SoundR, Zenon
      <3>3. QED
        BY <3>2, ShortLists
    <2>2. DOMAIN s = 1 .. 10 /\ \A k \in 1 .. 10 : s[k] \in Int \X (0 .. 7)
      BY DEF R_ENCODINGS
    <2>3. ForEach(R_ENCODINGS, LAMBDA e : << encode_r(e[1], 0, 0, e[2], 0) >>) = FlattenSeq(f)
      BY DEF ForEach
    <2> HIDE DEF w, s
    <2>4. f = [k \in 1 .. 10 |-> f[k]] /\ \A k \in 1 .. 10 : f[k] \in Seq(Sound)
      BY <2>1, <2>2
    <2> HIDE DEF f
    <2>5. FlattenSeq(f) \in Seq(Sound)
      BY <2>4, Chained
    <2>6. QED
      BY <2>3, <2>5, Zenon
  <1>3. aliases \in Seq(Sound)
    <2>1. 0 \in Int /\ 32 \in Int /\ 5 \in 0 .. 7
      OBVIOUS
    <2>2. /\ encode_r(0, 11, 10, 0, 10) \in Sound /\ encode_r(32, 11, 10, 0, 5) \in Sound
          /\ encode_r(0, 11, 10, 5, 5) \in Sound /\ encode_r(32, 11, 10, 5, 5) \in Sound
      BY <1>1, <2>1, SoundR, Zenon
    <2>3. QED
      BY <2>2, ShortLists
  <1>4. itypes \in Seq(Sound)
    <2> DEFINE w(f3) == [k \in 1 .. 5 |-> encode_i(I_TYPE, f3, 10, 11, DIRECTED_IMMS[k])]
                          \o << encode_i(I_TYPE, f3, 0, 0, 0) >>
               s == I_FUNCT3
               f == [k \in DOMAIN s |-> w(s[k])]
    <2>1. ASSUME NEW f3 \in (0 .. 7) \ {5} PROVE w(f3) \in Seq(Sound)
      <3>1. f3 \in 0 .. 7 /\ f3 # 5 /\ 0 \in Int
        BY <2>1
      <3>2. /\ \A k \in 1 .. 5 : encode_i(I_TYPE, f3, 10, 11, DIRECTED_IMMS[k]) \in Sound
            /\ encode_i(I_TYPE, f3, 0, 0, 0) \in Sound
        BY <1>1, <3>1, SoundI, Zenon
      <3>3. QED
        BY <3>2, SeqDef
    <2>2. DOMAIN s = 1 .. 6 /\ \A k \in 1 .. 6 : s[k] \in (0 .. 7) \ {5}
      BY DEF I_FUNCT3
    <2>3. ForEach(I_FUNCT3, LAMBDA f3 :
            [k \in 1 .. 5 |-> encode_i(I_TYPE, f3, 10, 11, DIRECTED_IMMS[k])]
              \o << encode_i(I_TYPE, f3, 0, 0, 0) >>) = FlattenSeq(f)
      BY DEF ForEach
    <2> HIDE DEF w, s
    <2>4. f = [k \in 1 .. 6 |-> f[k]] /\ \A k \in 1 .. 6 : f[k] \in Seq(Sound)
      BY <2>1, <2>2
    <2> HIDE DEF f
    <2>5. FlattenSeq(f) \in Seq(Sound)
      BY <2>4, Chained
    <2>6. QED
      BY <2>3, <2>5, Zenon
  <1>5. shifts \in Seq(Sound)
    <2> DEFINE w(e) == [k \in 1 .. 3 |-> encode_i_shift(e[1], e[2], 10, 11, <<0, 1, 31>>[k])]
               s == << <<0, 1>>, <<0, 5>>, <<32, 5>> >>
               f == [k \in DOMAIN s |-> w(s[k])]
    <2>1. ASSUME NEW e \in ShiftFunct7 \X {1, 5} PROVE w(e) \in Seq(Sound)
      <3>1. /\ e[1] \in 0 .. 127 /\ ((e[1] \div 32) % 2 = 0 \/ e[1] = 32) /\ e[2] \in 0 .. 7
            /\ \A k \in 1 .. 3 : <<0, 1, 31>>[k] \in Int
        BY <2>1 DEF ShiftFunct7
      <3>2. \A k \in 1 .. 3 : encode_i_shift(e[1], e[2], 10, 11, <<0, 1, 31>>[k]) \in Sound
        BY <1>1, <3>1, SoundShift, Zenon
      <3>3. QED
        BY <3>2, SeqDef
    <2>2. DOMAIN s = 1 .. 3 /\ \A k \in 1 .. 3 : s[k] \in ShiftFunct7 \X {1, 5}
      BY DEF ShiftFunct7
    <2>3. ForEach(<< <<0, 1>>, <<0, 5>>, <<32, 5>> >>, LAMBDA e :
            [k \in 1 .. 3 |-> encode_i_shift(e[1], e[2], 10, 11, <<0, 1, 31>>[k])]) = FlattenSeq(f)
      BY DEF ForEach
    <2> HIDE DEF w, s
    <2>4. f = [k \in 1 .. 3 |-> f[k]] /\ \A k \in 1 .. 3 : f[k] \in Seq(Sound)
      BY <2>1, <2>2
    <2> HIDE DEF f
    <2>5. FlattenSeq(f) \in Seq(Sound)
      BY <2>4, Chained
    <2>6. QED
      BY <2>3, <2>5, Zenon
  <1>6. loads \in Seq(Sound)
    <2>1. \A k \in 1 .. 5 : encode_i(LOAD, 2, 10, 11, DIRECTED_IMMS[k]) \in Sound
      BY <1>1, SoundI, Zenon
    <2>2. QED
      BY <2>1, SeqDef
  <1>7. stores \in Seq(Sound)
    <2>1. \A k \in 1 .. 5 : encode_s(11, 10, DIRECTED_IMMS[k]) \in Sound
      BY <1>1, SoundSBJ, Zenon
    <2>2. QED
      BY <2>1, SeqDef
  <1>8. branches \in Seq(Sound)
    <2>1. \A k \in 1 .. 5 : encode_b(10, 11, 0, DIRECTED_OFFSETS[k]) \in Sound
      BY <1>1, SoundSBJ, Zenon
    <2>2. QED
      BY <2>1, SeqDef
  <1>9. << encode_i(LOAD, 2, 0, 0, 0) >> \in Seq(Sound) /\ << encode_s(0, 0, 0) >> \in Seq(Sound)
    <2>1. encode_i(LOAD, 2, 0, 0, 0) \in Sound /\ encode_s(0, 0, 0) \in Sound
      <3>1. 0 \in Int
        OBVIOUS
      <3>2. QED
        BY <1>1, <3>1, SoundI, SoundSBJ, Zenon
    <2>2. QED
      BY <2>1, ShortLists
  <1>10. jumps \in Seq(Sound)
    <2>1. 2 \in Int /\ -2 \in Int /\ J_MAX \in Int /\ J_MIN \in Int
      BY SMT DEF J_MAX, J_MIN
    <2>2. /\ encode_b(10, 11, 1, 2) \in Sound /\ encode_b(10, 11, 1, -2) \in Sound
          /\ encode_b(0, 0, 0, 2) \in Sound /\ encode_j(1, 2) \in Sound /\ encode_j(1, -2) \in Sound
          /\ encode_j(0, 2) \in Sound /\ encode_j(1, J_MAX) \in Sound /\ encode_j(1, J_MIN) \in Sound
      BY <1>1, <2>1, SoundSBJ, Zenon
    <2>3. QED
      BY <2>2
  <1>11. Directed = Exactly(rtypes \o aliases \o itypes \o shifts \o loads
                       \o << encode_i(LOAD, 2, 0, 0, 0) >> \o stores \o << encode_s(0, 0, 0) >>
                         \o branches \o jumps)
    BY DEF Directed
  <1> HIDE DEF rtypes, aliases, itypes, shifts, loads, stores, branches, jumps
  <1>12. rtypes \o aliases \o itypes \o shifts \o loads
                       \o << encode_i(LOAD, 2, 0, 0, 0) >> \o stores \o << encode_s(0, 0, 0) >>
                         \o branches \o jumps \in Seq(Sound)
    BY <1>2, <1>3, <1>4, <1>5, <1>6, <1>7, <1>8, <1>9, <1>10, TenLists
  <1>13. QED
    BY <1>11, <1>12, ExactlySound

\* So every sequence of a plan sends sound words only.
LEMMA SoundRounds == \A name \in SequenceNames : Round(name) \in Seq(Draws)
  <1>1. RandomStress \in Seq(Draws) /\ FullSweep \in Seq(Draws) /\ BiasedRandom \in Seq(Draws)
    <2>1. make_r("ADD") \in Draws /\ make_i("ADD") \in Draws /\ make_load \in Draws
          /\ make_random \in Draws
      BY RandomWords DEF AluOp
    <2>2. make_r("ADD") \cup make_i("ADD") \cup make_load \cup make_random \in Draws
      BY <2>1 DEF Draws
    <2> HIDE DEF Draws
    <2>3. RandomStress \in Seq(Draws)
      BY <2>1, ShortLists DEF RandomStress
    <2>4. FullSweep \in Seq(Draws)
      BY <2>1, SeqDef DEF FullSweep
    <2>5. BiasedRandom \in Seq(Draws)
      BY <2>2, ShortLists, Zenon DEF BiasedRandom
    <2>6. QED
      BY <2>3, <2>4, <2>5
  <1> HIDE DEF Draws
  <1>2. /\ Round("directed") = Directed /\ Round("illegal") = IllegalEncoding
        /\ Round("boundary") = BoundaryImm /\ Round("regzero") = RegisterZero
        /\ Round("rtype_f7") = RTypeFunct7 /\ Round("biased") = BiasedRandom
        /\ Round("stress") = RandomStress /\ Round("full_sweep") = FullSweep
    BY DEF Round
  <1>3. QED
    BY <1>1, <1>2, SoundDirected, SoundIllegal, SoundBoundary, SoundSweep, SoundZero, Zenon
       DEF SequenceNames

\* The immediates drawn for a bin are numbers, and the words they are put into sound.
LEMMA AimedImmediates ==
    \A cls \in ImmClasses, ib \in ImmBoundary :
       UNION { synthesize_with_imm(cls, imm) : imm \in BoundaryImms(ib, imm_range(cls)) } \in Draws
  <1> SUFFICES ASSUME NEW cls \in ImmClasses, NEW ib \in ImmBoundary
               PROVE  UNION { synthesize_with_imm(cls, imm) :
                        imm \in BoundaryImms(ib, imm_range(cls)) } \in Draws
    OBVIOUS
  <1>1. imm_range(cls)[1] \in Int /\ imm_range(cls)[2] \in Int
    <2>1. J_MIN \in Int /\ J_MAX \in Int
      BY SMT DEF J_MIN, J_MAX
    <2>2. imm_range(cls) \in {<<-4096, 4094>>, <<J_MIN, J_MAX>>, <<0, 31>>, <<1024, 1055>>,
            <<-2048, 2047>>}
      BY SMT DEF imm_range
    <2>3. QED
      BY <2>1, <2>2, SMT
  <1>2. BoundaryImms(ib, imm_range(cls)) \subseteq Int
    <2> DEFINE lo == imm_range(cls)[1]
               hi == imm_range(cls)[2]
    <2>1. lo \in Int /\ hi \in Int
      BY <1>1
    <2>2. BoundaryImms(ib, imm_range(cls)) \in
             {{lo}, {-1}, {lo + 1, -2}, {0}, {1}, {2, hi - 1}, {hi}}
      BY DEF BoundaryImms, ImmBoundary
    <2> HIDE DEF lo, hi
    <2>3. QED
      BY <2>1, <2>2
  <1>3. ASSUME NEW imm \in Int PROVE synthesize_with_imm(cls, imm) \in Draws
    <2>1. CASE cls \in {I_TYPE} \X {"ADD", "SLT", "SLTU", "XOR", "OR", "AND"}
      <3> DEFINE f3 == Funct3Of(cls[2])
      <3>1. cls[2] \in AluOp /\ cls[2] \notin {"SLL", "SRL", "SRA"}
        BY <2>1 DEF AluOp
      <3>2. f3 \in 0 .. 7 /\ f3 # 5
        BY <3>1, OperationFields
      <3>3. synthesize_with_imm(cls, imm) = Draw2(LAMBDA a, b : encode_i(I_TYPE, f3, a, b, imm))
        <4>1. cls # LW /\ cls # SW /\ cls # BEQ /\ cls # BNE /\ cls # J
          BY <2>1 DEF LW, SW, BEQ, BNE, J, I_TYPE, LOAD, STORE, BRANCH, JAL
        <4>2. QED
          BY <2>1, <4>1 DEF synthesize_with_imm
      <3> HIDE DEF f3
      <3>4. Draw2(LAMBDA a, b : encode_i(I_TYPE, f3, a, b, imm)) \in Draws
        BY <3>2, DrawnWords, Zenon
      <3>5. QED
        BY <3>3, <3>4, Zenon
    <2>2. CASE cls \notin {I_TYPE} \X {"ADD", "SLT", "SLTU", "XOR", "OR", "AND"}
      <3>1. 0 \in 0 .. 7 /\ 1 \in 0 .. 7 /\ 2 \in 0 .. 7
        OBVIOUS
      <3>2. /\ Draw2(LAMBDA a, b : encode_i(LOAD, 2, a, b, imm)) \in Draws
            /\ Draw2(LAMBDA a, b : encode_s(a, b, imm)) \in Draws
            /\ Draw2(LAMBDA a, b : encode_b(a, b, 0, imm)) \in Draws
            /\ Draw2(LAMBDA a, b : encode_b(a, b, 1, imm)) \in Draws
            /\ { encode_j(a, imm) : a \in R5 } \in Draws
            /\ make_random \in Draws
        BY <3>1, DrawnWords, RandomWords, Zenon
      <3>3. /\ LW # SW /\ LW # BEQ /\ LW # BNE /\ LW # J /\ SW # BEQ /\ SW # BNE /\ SW # J
            /\ BEQ # BNE /\ BEQ # J /\ BNE # J
        BY DEF LW, SW, BEQ, BNE, J, LOAD, STORE, BRANCH, JAL
      <3>4. \/ synthesize_with_imm(cls, imm) = Draw2(LAMBDA a, b : encode_i(LOAD, 2, a, b, imm))
            \/ synthesize_with_imm(cls, imm) = Draw2(LAMBDA a, b : encode_s(a, b, imm))
            \/ synthesize_with_imm(cls, imm) = Draw2(LAMBDA a, b : encode_b(a, b, 0, imm))
            \/ synthesize_with_imm(cls, imm) = Draw2(LAMBDA a, b : encode_b(a, b, 1, imm))
            \/ synthesize_with_imm(cls, imm) = { encode_j(a, imm) : a \in R5 }
            \/ synthesize_with_imm(cls, imm) = make_random
        BY <2>2, <3>3 DEF synthesize_with_imm
      <3> HIDE DEF Draws
      <3>5. QED
        BY <3>2, <3>4, Zenon
    <2>3. QED
      BY <2>1, <2>2
  <1>4. QED
    BY <1>2, <1>3, Zenon DEF Draws

\* So are the transactions aimed at a bin the loop may target.
LEMMA AimedWords == \A b \in Targetable : synthesize(b) \in Draws
  <1>1. 0 \in Int /\ 1 \in 0 .. 7 /\ 0 \in 0 .. 7 /\ 5 \in 0 .. 7 /\ 0 \in ShiftFunct7
        /\ 32 \in ShiftFunct7
    BY DEF ShiftFunct7
  <1>2. \A c : AltFunct7(c) \in ShiftFunct7 /\ AltFunct7(c) \in Int
    BY <1>1 DEF AltFunct7
  <1>3. ASSUME NEW f3 \in 0 .. 7 PROVE synthesize(<<"rtype_f3", f3>>) \in Draws
    <2>1. synthesize(<<"rtype_f3", f3>>) = Draw3(LAMBDA x, y, z : encode_r(0, x, y, f3, z))
      BY DEF synthesize
    <2>2. Draw3(LAMBDA x, y, z : encode_r(0, x, y, f3, z)) \in Draws
      BY <1>1, DrawnWords, Zenon
    <2>3. QED
      BY <2>1, <2>2, Zenon
  <1>4. ASSUME NEW f3 \in 0 .. 7, NEW c PROVE synthesize(<<"rtype_f3_f7", f3, c>>) \in Draws
    <2> DEFINE f7 == AltFunct7(c)
    <2>1. synthesize(<<"rtype_f3_f7", f3, c>>) = Draw3(LAMBDA x, y, z : encode_r(f7, x, y, f3, z))
      BY DEF synthesize
    <2>2. f7 \in Int
      BY <1>2
    <2> HIDE DEF f7
    <2>3. Draw3(LAMBDA x, y, z : encode_r(f7, x, y, f3, z)) \in Draws
      BY <2>2, DrawnWords, Zenon
    <2>4. QED
      BY <2>1, <2>3, Zenon
  <1>5. ASSUME NEW f3 \in 0 .. 7 PROVE synthesize(<<"itype_f3", f3>>) \in Draws
    <2>1. CASE f3 \in {1, 5}
      <3>1. /\ synthesize(<<"itype_f3", 1>>) = Draw3(LAMBDA x, y, z : encode_i_shift(0, 1, x, y, z))
            /\ synthesize(<<"itype_f3", 5>>) = Draw3(LAMBDA x, y, z : encode_i_shift(0, 5, x, y, z))
        BY DEF synthesize
      <3>2. /\ Draw3(LAMBDA x, y, z : encode_i_shift(0, 1, x, y, z)) \in Draws
            /\ Draw3(LAMBDA x, y, z : encode_i_shift(0, 5, x, y, z)) \in Draws
        BY <1>1, DrawnWords, Zenon
      <3>3. synthesize(<<"itype_f3", 1>>) \in Draws /\ synthesize(<<"itype_f3", 5>>) \in Draws
        BY <3>1, <3>2, Zenon
      <3> HIDE DEF Draws
      <3>4. QED
        BY <2>1, <3>3
    <2>2. CASE f3 \notin {1, 5}
      <3>1. synthesize(<<"itype_f3", f3>>) = Draw2(LAMBDA x, y :
              encode_i(I_TYPE, FromAddi(f3), x, y, 0))
        BY <2>2 DEF synthesize
      <3>2. FromAddi(f3) \in 0 .. 7 /\ FromAddi(f3) # 5
        BY DEF FromAddi, I_FUNCT3
      <3>3. Draw2(LAMBDA x, y : encode_i(I_TYPE, FromAddi(f3), x, y, 0)) \in Draws
        BY <1>1, <3>2, DrawnWords, Zenon
      <3>4. QED
        BY <3>1, <3>3, Zenon
    <2>3. QED
      BY <2>1, <2>2
  <1>6. ASSUME NEW c PROVE synthesize(<<"itype_shift_f7", 5, c>>) \in Draws
    <2> DEFINE f7 == AltFunct7(c)
    <2>1. synthesize(<<"itype_shift_f7", 5, c>>) = Draw3(LAMBDA x, y, z :
            encode_i_shift(f7, 5, x, y, z))
      BY DEF synthesize
    <2>2. f7 \in ShiftFunct7
      BY <1>2
    <2> HIDE DEF f7
    <2>3. Draw3(LAMBDA x, y, z : encode_i_shift(f7, 5, x, y, z)) \in Draws
      BY <1>1, <2>2, DrawnWords, Zenon
    <2>4. QED
      BY <2>1, <2>3, Zenon
  <1>7. /\ synthesize(<<"load_f3", 2>>) = make_load /\ synthesize(<<"store_f3", 2>>) = make_store
        /\ synthesize(<<"branch_f3", 0>>) = make_branch(0) /\ synthesize(<<"branch_f3",
             1>>) = make_branch(1)
        /\ synthesize(JalBin) = make_jal
    BY DEF synthesize, JalBin
  <1>8. ASSUME NEW cls \in ImmClasses, NEW ib \in ImmBoundary
        PROVE  synthesize(<<"imm_boundary", cls, ib>>) \in Draws
    <2>1. synthesize(<<"imm_boundary", cls, ib>>)
             = UNION { synthesize_with_imm(cls, imm) : imm \in BoundaryImms(ib, imm_range(cls)) }
      BY DEF synthesize
    <2>2. QED
      BY <2>1, AimedImmediates, Zenon
  <1>9. ASSUME NEW b \in LegalFunct3Bins PROVE synthesize(b) \in Draws
    <2>1. \/ \E f3 \in 0 .. 7 : b = <<"rtype_f3", f3>> \/ b = <<"itype_f3", f3>>
          \/ b \in {<<"load_f3", 2>>, <<"store_f3", 2>>, <<"branch_f3", 0>>, <<"branch_f3", 1>>, JalBin}
      BY DEF LegalFunct3Bins
    <2>2. make_branch(0) \in Draws /\ make_branch(1) \in Draws
      BY <1>1, RandomWords
    <2> HIDE DEF Draws
    <2>3. QED
      BY <1>3, <1>5, <1>7, <2>1, <2>2, RandomWords, Zenon
  <1>10. ASSUME NEW b \in LegalRtypeBins PROVE synthesize(b) \in Draws
    <2>1. \E f3 \in 0 .. 7, c \in Funct7Class : b = <<"rtype_f3_f7", f3, c>>
      BY DEF LegalRtypeBins, RtypeBins
    <2>2. QED
      BY <1>4, <2>1, Zenon
  <1>11. ASSUME NEW b \in LegalShiftBins PROVE synthesize(b) \in Draws
    BY <1>6, <1>11, Zenon DEF LegalShiftBins
  <1>12. ASSUME NEW b \in LegalImmBins PROVE synthesize(b) \in Draws
    <2>1. \E cls \in ImmClasses, ib \in ImmBoundary : b = <<"imm_boundary", cls, ib>>
      BY DEF LegalImmBins, ImmBins
    <2>2. QED
      BY <1>8, <2>1, Zenon
  <1>13. QED
    BY <1>9, <1>10, <1>11, <1>12, Zenon DEF Targetable

\* On a sound word a device without a defect gives the golden model's answer.
LEMMA SoundIsMatched ==
    ASSUME NEW i \in Sound, defect = SoundDevice
    PROVE  ~Mismatch(i)
  <1>1. i \in Instr /\ ~UndefinedShift(i)
    BY DEF Sound
  <1>2. golden_decode(i) = dut_decode(i)
    BY <1>1, DutIsRtl, GoldenIsRtl, Zenon
  <1>3. device(defect, i) = dut_decode(i)
    BY DEF device
  <1>4. QED
    BY <1>2, <1>3, Zenon DEF Mismatch

\* So no transaction a test sends to it is counted as an error.
LEMMA SoundDrive ==
    ASSUME NEW S \in Draws, NEW i \in S, Drive(i), errors \in Nat
    PROVE  defect' = defect /\ (defect = SoundDevice => errors' = errors)
  <1>1. defect' = defect
    BY DEF Drive, defect
  <1>2. ASSUME defect = SoundDevice PROVE errors' = errors
    <2>1. i \in Sound
      BY DEF Draws
    <2>2. ~Mismatch(i)
      BY <1>2, <2>1, SoundIsMatched, Zenon
    <2>3. QED
      BY <2>2 DEF Drive, Flag
  <1>3. QED
    BY <1>1, <1>2

\* The unit testbench raises no false alarm: whatever the plan of sequences, the draws and
\* the bins the feedback loop aims at, a device without a defect never differs from the
\* golden model and never breaks an assertion, although the golden model and decoder.cpp
\* do decode some words differently.
THEOREM SoundDevicePasses == Spec => []NoFalseAlarm
  <1> DEFINE Clean == defect = SoundDevice => errors = 0
  <1>1. Init => Clean
    BY DEF Init
  <1>2. TypeOK /\ Clean /\ [Next]_bench_vars => Clean'
    <2> SUFFICES ASSUME TypeOK, Clean, [Next]_bench_vars PROVE Clean'
      OBVIOUS
    <2>0. errors \in Nat
      BY DEF TypeOK
    <2>1. ASSUME NEW S \in Draws, NEW i \in S, Drive(i) PROVE Clean'
      BY <2>0, <2>1, SoundDrive
    <2>2. CASE DriveScripted
      <3>1. stage \in 1 .. Len(plan) /\ sent \in Nat
        BY <2>2 DEF DriveScripted, TypeOK
      <3>2. plan \in Seq(SequenceNames \X Nat)
        BY BenchAssumption DEF TypeOK, plan
      <3>3. plan[stage][1] \in SequenceNames /\ plan[stage][2] \in Nat
        <4>1. plan[stage] \in SequenceNames \X Nat
          BY <3>1, <3>2, ElementOfSeq
        <4>2. QED
          BY <4>1
      <3>4. Rounds \in Seq(Draws)
        BY <3>3, SoundRounds DEF Rounds
      <3> DEFINE m == Len(Rounds)
                 at == (sent % Len(Rounds)) + 1
      <3>5. m \in Nat /\ sent < m * plan[stage][2]
        BY <2>2, <3>4, LenProperties DEF DriveScripted
      <3>6. m > 0
        <4>1. m = 0 => m * plan[stage][2] = 0
          BY <3>3
        <4>2. QED
          BY <3>1, <3>5, <4>1
      <3>7. at \in 1 .. m
        <4> HIDE DEF m
        <4>1. sent % m \in 0 .. m - 1
          BY <3>1, <3>5, <3>6
        <4>2. QED
          BY <3>5, <4>1 DEF m
      <3> HIDE DEF Draws
      <3>8. Rounds[at] \in Draws
        BY <3>4, <3>7, ElementOfSeq
      <3>9. PICK i \in Rounds[at] : Drive(i)
        BY <2>2 DEF DriveScripted
      <3>10. QED
        BY <2>1, <3>8, <3>9
    <2>3. CASE \E b \in Pool : DriveTargeted(b)
      <3>1. PICK b \in Pool : DriveTargeted(b)
        BY <2>3
      <3>2. b \in Targetable
        BY DEF Pool, TypeOK
      <3>3. synthesize(b) \in Draws
        BY <3>2, AimedWords, Zenon
      <3>4. PICK i \in synthesize(b) : Drive(i)
        BY <3>1 DEF DriveTargeted
      <3>5. QED
        BY <2>1, <3>3, <3>4
    <2>4. CASE DriveRandom
      <3>1. PICK i \in make_random : Drive(i)
        BY <2>4 DEF DriveRandom
      <3>2. QED
        BY <2>1, <3>1, RandomWords
    <2>5. CASE NextStage \/ StartPass \/ Finish
      BY <2>5 DEF NextStage, StartPass, Finish, defect
    <2>6. CASE UNCHANGED bench_vars
      BY <2>6 DEF bench_vars, defect
    <2>7. QED
      BY <2>2, <2>3, <2>4, <2>5, <2>6 DEF Next
  <1>3. TypeOK /\ Clean /\ ViolationsAreErrors => NoFalseAlarm
    BY DEF NoFalseAlarm, ViolationsAreErrors, TypeOK
  <1>4. QED
    BY <1>1, <1>2, <1>3, UnitBenchIsTyped, ErrorsCoverViolations, PTL DEF Spec

-----------------------------------------------------------------------------
(* Encoding and decoding                                                    *)

\* A word of 21 bits or more holds every immediate.
WideWord == WordMod >= 2097152

\* The low bits of an immediate, sign-extended as a field is, are the immediate.
LEMMA FieldIsImmediate ==
    ASSUME NEW s \in Int, s > 0, 2 * s <= WordMod, NEW v \in Int, -s <= v, v < s
    PROVE  Signed(SignExtend(v % (2 * s), s)) = v
  <1>1. CASE v >= 0
    <2>1. v = (2 * s) * 0 + v
      OBVIOUS
    <2>2. v % (2 * s) = v
      BY <1>1, <2>1, DivUnique
    <2>3. QED
      BY <1>1, <2>2, SignedTrunc, WordFacts DEF SignExtend
  <1>2. CASE v < 0
    <2>1. v = (2 * s) * (-1) + (v + 2 * s) /\ -1 \in Int /\ v + 2 * s \in Int
      OBVIOUS
    <2>2. v % (2 * s) = v + 2 * s
      BY <1>2, <2>1, DivUnique
    <2>3. ~(v + 2 * s < s) /\ (v + 2 * s) - 2 * s = v
      BY <1>2
    <2>4. SignExtend(v % (2 * s), s) = Trunc(v)
      BY <2>2, <2>3 DEF SignExtend
    <2>5. QED
      BY <1>2, <2>4, SignedTrunc, WordFacts
  <1>3. QED
    BY <1>1, <1>2

\* Cut into the fields of an I- or S-type word, twelve bits are put together again.
LEMMA TwelveBits == \A n \in Nat : (n \div 32) * 32 + (n % 32) = n
  OBVIOUS

\* So are the bits of a branch offset, but for the lowest, which has no place in the word,
LEMMA ThirteenBits ==
    ASSUME NEW n \in Nat, n < 8192, NEW f7, NEW rd,
           f7 = (n \div 4096) * 64 + ((n \div 32) % 64), rd = ((n \div 2) % 16) * 2 + ((n \div 2048) % 2)
    PROVE  (f7 \div 64) * 4096 + (rd % 2) * 2048 + (f7 % 64) * 32 + (rd \div 2) * 2 = n - (n % 2)
  <1> DEFINE a == n \div 4096
             b == (n \div 2048) % 2
             c == (n \div 32) % 64
             d == (n \div 2) % 16
             e == n % 2
  <1>1. a \in 0 .. 1 /\ b \in 0 .. 1 /\ c \in 0 .. 63 /\ d \in 0 .. 15 /\ e \in 0 .. 1
    BY SMT
  <1>2. n = 4096 * a + 2048 * b + 32 * c + 2 * d + e
    <2> DEFINE q == n \div 2
               r == n \div 32
               t == n \div 2048
    <2>1. n = 2 * q + e /\ q \in Nat
      OBVIOUS
    <2>2. q = 16 * r + d /\ r \in Nat
      OBVIOUS
    <2>3. r = 64 * t + c /\ t \in Nat
      OBVIOUS
    <2>4. t = 2 * a + b
      OBVIOUS
    <2> HIDE DEF a, b, c, d, e, q, r, t
    <2>5. QED
      BY <1>1, <2>1, <2>2, <2>3, <2>4
  <1>3. f7 = a * 64 + c /\ rd = d * 2 + b
    OBVIOUS
  <1> HIDE DEF a, b, c, d
  <1>4. f7 \div 64 = a /\ f7 % 64 = c /\ rd \div 2 = d /\ rd % 2 = b
    BY <1>1, <1>3, SMT
  <1>5. QED
    BY <1>1, <1>2, <1>4, SMT

\* and those of a jump offset, which the word holds in four pieces out of order.
LEMMA TwentyOneBits ==
    ASSUME NEW n \in Nat, n < 2097152
    PROVE  LET h   == (n \div 4096) % 256
               l   == (n \div 2) % 1024
               f7  == (n \div 1048576) * 64 + (l \div 16)
               rs2 == (l % 16) * 2 + ((n \div 2048) % 2)
           IN  /\ ((h \div 8) * 8) + (h % 8) = h
               /\ (f7 \div 64) * 1048576 + h * 4096 + (rs2 % 2) * 2048 + (f7 % 64) * 32 + (rs2 \div 2) * 2 = n - (n % 2)
  <1> DEFINE h   == (n \div 4096) % 256
             l   == (n \div 2) % 1024
             f7  == (n \div 1048576) * 64 + (l \div 16)
             rs2 == (l % 16) * 2 + ((n \div 2048) % 2)
  <1> SUFFICES /\ ((h \div 8) * 8) + (h % 8) = h
               /\ (f7 \div 64) * 1048576 + h * 4096 + (rs2 % 2) * 2048 + (f7 % 64) * 32 + (rs2 \div 2) * 2 = n - (n % 2)
    BY SMT
  <1> DEFINE a == n \div 1048576
             b == (n \div 2048) % 2
             c == l \div 16
             d == l % 16
             e == n % 2
  <1>1. a \in Int /\ 0 <= a /\ a <= 1 /\ b \in Int /\ 0 <= b /\ b <= 1 /\ h \in Int /\ l \in Int /\ 0 <= l /\ l < 1024
    BY SMT
  <1>2. c \in Int /\ 0 <= c /\ c <= 63 /\ d \in Int /\ 0 <= d /\ d <= 15 /\ l = c * 16 + d
    BY <1>1, SMT
  <1>3. n = 1048576 * a + 4096 * h + 2048 * b + 2 * l + e /\ e \in Int
    <2> DEFINE q == n \div 2
               t == n \div 2048
               u == n \div 4096
    <2>1. n = 2 * q + e /\ q \in Nat /\ e \in Int
      OBVIOUS
    <2>2. q = 1024 * t + l /\ t \in Nat
      OBVIOUS
    <2>3. t = 2 * u + b /\ u \in Nat
      OBVIOUS
    <2>4. u = 256 * a + h
      BY SMT
    <2> HIDE DEF a, b, e, q, t, u
    <2>5. QED
      BY <1>1, <2>1, <2>2, <2>3, <2>4, SMT
  <1>4. f7 = a * 64 + c /\ rs2 = d * 2 + b
    BY SMT
  <1>5. ((h \div 8) * 8) + (h % 8) = h
    BY <1>1
  <1> HIDE DEF a, b, c, d, e, h, l, f7, rs2
  <1>6. f7 \div 64 = a /\ f7 % 64 = c /\ rs2 \div 2 = d /\ rs2 % 2 = b
    BY <1>1, <1>2, <1>4, SMT
  <1>7. QED
    BY <1>1, <1>2, <1>3, <1>5, <1>6, SMT DEF e

\* The immediates in the words of the encoders.
LEMMA EncodedImmediates ==
    ASSUME WideWord, NEW rd \in RegIndex, NEW rs1 \in RegIndex, NEW rs2 \in RegIndex, NEW f3, NEW op, NEW v \in Int
    PROVE  /\ -2048 <= v /\ v <= 2047 => /\ Signed(imm_i(encode_i(op, f3, rd, rs1, v))) = v
                                         /\ Signed(imm_s(encode_s(rs1, rs2, v))) = v
           /\ -4096 <= v /\ v <= 4095 => Signed(imm_b(encode_b(rs1, rs2, f3, v))) = v - (v % 2)
           /\ J_MIN <= v /\ v <= J_MAX + 1 => Signed(imm_j(encode_j(rd, v))) = v - (v % 2)
  <1>1. WordMod \in Int /\ 2 * 2048 <= WordMod /\ 2 * 4096 <= WordMod /\ 2 * 1048576 <= WordMod
    BY WordFacts, SMT DEF WideWord
  <1>2. ASSUME -2048 <= v, v <= 2047
        PROVE  Signed(imm_i(encode_i(op, f3, rd, rs1, v))) = v /\ Signed(imm_s(encode_s(rs1, rs2, v))) = v
    <2> DEFINE n == v % 4096
    <2>1. n \in Nat
      OBVIOUS
    <2>2. Signed(SignExtend(n, 2048)) = v
      <3>1. 2048 \in Int /\ 2048 > 0 /\ 2 * 2048 = 4096 /\ v < 2048
        BY <1>2
      <3>2. QED
        BY <1>1, <1>2, <3>1, FieldIsImmediate
    <2>3. /\ encode_i(op, f3, rd, rs1, v) = Encoded(n \div 32, n % 32, rs1, f3, rd, op)
          /\ encode_s(rs1, rs2, v) = Encoded(n \div 32, rs2, rs1, 2, n % 32, STORE)
      BY Zenon DEF encode_i, enc_I, encode_s, enc_S
    <2> HIDE DEF n
    <2>4. (n \div 32) * 32 + (n % 32) = n
      BY <2>1, TwelveBits
    <2>5. /\ imm_i(encode_i(op, f3, rd, rs1, v)) = SignExtend(n, 2048)
          /\ imm_s(encode_s(rs1, rs2, v)) = SignExtend(n, 2048)
      BY <2>3, <2>4 DEF imm_i, imm_s, Encoded
    <2>6. QED
      BY <2>2, <2>5
  <1>3. ASSUME -4096 <= v, v <= 4095 PROVE Signed(imm_b(encode_b(rs1, rs2, f3, v))) = v - (v % 2)
    <2> DEFINE n  == v % 8192
               w  == v - (v % 2)
               f7 == (n \div 4096) * 64 + ((n \div 32) % 64)
               lo == ((n \div 2) % 16) * 2 + ((n \div 2048) % 2)
    <2>1. n \in Nat /\ n < 8192 /\ w \in Int /\ -4096 <= w /\ w < 4096
      BY <1>3
    <2>2. w % 8192 = n - (n % 2)
      BY SMT
    <2>3. Signed(SignExtend(w % 8192, 4096)) = w
      <3>1. 4096 \in Int /\ 4096 > 0 /\ 2 * 4096 = 8192
        OBVIOUS
      <3> HIDE DEF w
      <3>2. QED
        BY <1>1, <2>1, <3>1, FieldIsImmediate
    <2>4. encode_b(rs1, rs2, f3, v) = Encoded(f7, rs2, rs1, f3, lo, BRANCH)
      BY SMT DEF encode_b, enc_B
    <2> HIDE DEF n, w
    <2>5. (f7 \div 64) * 4096 + (lo % 2) * 2048 + (f7 % 64) * 32 + (lo \div 2) * 2 = n - (n % 2)
      BY <2>1, ThirteenBits
    <2> HIDE DEF f7, lo
    <2>6. imm_b(encode_b(rs1, rs2, f3, v)) = SignExtend(n - (n % 2), 4096)
      BY <2>4, <2>5, SMT DEF imm_b, Encoded
    <2>7. QED
      BY <2>2, <2>3, <2>6 DEF w
  <1>4. ASSUME J_MIN <= v, v <= J_MAX + 1 PROVE Signed(imm_j(encode_j(rd, v))) = v - (v % 2)
    <2> DEFINE n  == v % 2097152
               w  == v - (v % 2)
               h  == (n \div 4096) % 256
               l  == (n \div 2) % 1024
               f7 == (n \div 1048576) * 64 + (l \div 16)
               r2 == (l % 16) * 2 + ((n \div 2048) % 2)
    <2>1. n \in Nat /\ n < 2097152 /\ w \in Int /\ -1048576 <= w /\ w < 1048576
      BY <1>4, SMT DEF J_MIN, J_MAX
    <2>2. w % 2097152 = n - (n % 2)
      BY SMT
    <2>3. Signed(SignExtend(w % 2097152, 1048576)) = w
      <3>1. 1048576 \in Int /\ 1048576 > 0 /\ 2 * 1048576 = 2097152
        BY SMT
      <3> HIDE DEF w
      <3>2. QED
        BY <1>1, <2>1, <3>1, FieldIsImmediate, SMT
    <2>4. encode_j(rd, v) = Encoded(f7, r2, h \div 8, h % 8, rd, JAL)
      BY SMT DEF encode_j, enc_J
    <2> HIDE DEF n, w
    <2>5. /\ ((h \div 8) * 8) + (h % 8) = h
          /\ (f7 \div 64) * 1048576 + h * 4096 + (r2 % 2) * 2048 + (f7 % 64) * 32 + (r2 \div 2) * 2 = n - (n % 2)
      BY <2>1, TwentyOneBits, SMT
    <2> HIDE DEF f7, r2, h, l
    <2>6. imm_j(encode_j(rd, v)) = SignExtend(n - (n % 2), 1048576)
      BY <2>4, <2>5, SMT DEF imm_j, Encoded
    <2>7. QED
      BY <2>2, <2>3, <2>6, SMT DEF w
  <1>5. QED
    BY <1>2, <1>3, <1>4

\* What the encoders put together the decoder takes apart: the registers, and the immediate
\* as the signed number it was, but for the lowest bit of a branch or jump offset.
THEOREM EncodersRoundTrip ==
    ASSUME WideWord, NEW rd \in RegIndex, NEW rs1 \in RegIndex, NEW rs2 \in RegIndex, NEW f3 \in 0 .. 7, NEW v \in Int
    PROVE  /\ -2048 <= v /\ v <= 2047 =>
                /\ \A op \in {I_TYPE, LOAD} :
                      LET d == Decode(encode_i(op, f3, rd, rs1, v)) IN d.rd = rd /\ d.rs1 = rs1 /\ Signed(d.imm) = v
                /\ LET d == Decode(encode_s(rs1, rs2, v)) IN d.rs1 = rs1 /\ d.rs2 = rs2 /\ Signed(d.imm) = v
           /\ -4096 <= v /\ v <= 4095 =>
                LET d == Decode(encode_b(rs1, rs2, f3, v)) IN d.rs1 = rs1 /\ d.rs2 = rs2 /\ Signed(d.imm) = v - (v % 2)
           /\ J_MIN <= v /\ v <= J_MAX + 1 =>
                LET d == Decode(encode_j(rd, v)) IN d.rd = rd /\ Signed(d.imm) = v - (v % 2)
  <1>1. \A i : /\ i.opcode = I_TYPE => Decode(i).imm = imm_i(i)
               /\ i.opcode = LOAD => Decode(i).imm = imm_i(i)
               /\ i.opcode = STORE => Decode(i).imm = imm_s(i)
               /\ i.opcode = BRANCH => Decode(i).imm = imm_b(i)
               /\ i.opcode = JAL => Decode(i).imm = imm_j(i)
    BY DEF Decode, Signals, R_TYPE, I_TYPE, LOAD, STORE, BRANCH, JAL
  <1>2. \A i : Decode(i).rd = i.rd /\ Decode(i).rs1 = i.rs1 /\ Decode(i).rs2 = i.rs2
    BY DEF Decode, Signals
  <1>3. ASSUME NEW op
        PROVE  LET i == encode_i(op, f3, rd, rs1, v) IN i.opcode = op /\ i.rd = rd /\ i.rs1 = rs1
    BY DEF encode_i, enc_I, Encoded
  <1>4. LET i == encode_s(rs1, rs2, v) IN i.opcode = STORE /\ i.rs1 = rs1 /\ i.rs2 = rs2
    BY DEF encode_s, enc_S, Encoded
  <1>5. LET i == encode_b(rs1, rs2, f3, v) IN i.opcode = BRANCH /\ i.rs1 = rs1 /\ i.rs2 = rs2
    BY SMT DEF encode_b, enc_B, Encoded
  <1>6. LET i == encode_j(rd, v) IN i.opcode = JAL /\ i.rd = rd
    BY SMT DEF encode_j, enc_J, Encoded
  <1>7. QED
    BY <1>1, <1>2, <1>3, <1>4, <1>5, <1>6, EncodedImmediates

-----------------------------------------------------------------------------
(* Transactions aimed at a bin                                              *)

\* Which transactions count in a bin the feedback loop may aim at.
LEMMA BinMembers ==
    ASSUME NEW i
    PROVE  /\ \A f : <<"rtype_f3", f>> \in sample_bins(i) <=> i.opcode = R_TYPE /\ i.funct3 = f
           /\ \A f : <<"itype_f3", f>> \in sample_bins(i) <=> i.opcode = I_TYPE /\ i.funct3 = f
           /\ \A f : <<"load_f3", f>> \in sample_bins(i) <=> i.opcode = LOAD /\ i.funct3 = f
           /\ \A f : <<"store_f3", f>> \in sample_bins(i) <=> i.opcode = STORE /\ i.funct3 = f
           /\ \A f : <<"branch_f3", f>> \in sample_bins(i) <=> i.opcode = BRANCH /\ i.funct3 = f
           /\ JalBin \in sample_bins(i) <=> i.opcode = JAL
           /\ \A f, c : <<"rtype_f3_f7", f, c>> \in sample_bins(i)
                          <=> i.opcode = R_TYPE /\ i.funct3 = f /\ classify_funct7(i.funct7) = c
           /\ \A f, c : <<"itype_shift_f7", f, c>> \in sample_bins(i)
                          <=> i.opcode = I_TYPE /\ i.funct3 = f /\ f \in {1, 5} /\ classify_funct7(i.funct7) = c
           /\ \A cls, ib : <<"imm_boundary", cls, ib>> \in sample_bins(i)
                 <=> /\ cls = Class(i) /\ cls \in ImmClasses
                     /\ classify_imm_boundary(Signed(golden_decode(i).imm), imm_range(cls)) = ib
  <1> DEFINE RegF7  == { <<"rtype_f3_f7", i.funct3, classify_funct7(i.funct7)>> : r \in {R_TYPE} \cap {i.opcode} }
             ShF7   == { <<"itype_shift_f7", i.funct3, classify_funct7(i.funct7)>> :
                           f3 \in {f \in {1, 5} : i.opcode = I_TYPE /\ i.funct3 = f} }
             Kinds  == { <<"illegal_hits", k>> : k \in illegal_kinds(i) }
             Zeros  == { <<f, Class(i)>> : f \in {g \in {"rs1", "rs2", "rd"} : i.opcode \in Opcodes /\ i[g] = 0} }
             Combos == { <<"ctrl_combos", Raised(golden_decode(i))>> }
  <1>1. sample_bins(i) = Funct3Bin(i) \cup RegF7 \cup ShF7 \cup Kinds \cup ImmBin(i) \cup Zeros \cup Combos
    BY DEF sample_bins
  <1>2. /\ i.opcode = R_TYPE => Funct3Bin(i) = {<<"rtype_f3", i.funct3>>}
        /\ i.opcode = I_TYPE => Funct3Bin(i) = {<<"itype_f3", i.funct3>>}
        /\ i.opcode = LOAD => Funct3Bin(i) = {<<"load_f3", i.funct3>>}
        /\ i.opcode = STORE => Funct3Bin(i) = {<<"store_f3", i.funct3>>}
        /\ i.opcode = BRANCH => Funct3Bin(i) = {<<"branch_f3", i.funct3>>}
        /\ i.opcode = JAL => Funct3Bin(i) = {JalBin}
        /\ i.opcode \notin Opcodes => Funct3Bin(i) = {}
    BY DEF Funct3Bin, Opcodes, R_TYPE, I_TYPE, LOAD, STORE, BRANCH, JAL
  <1>3. \A x : /\ x \in RegF7 => x[1] = "rtype_f3_f7"
               /\ x \in ShF7 => x[1] = "itype_shift_f7"
               /\ x \in Kinds => x[1] = "illegal_hits"
               /\ x \in ImmBin(i) => x[1] = "imm_boundary"
               /\ x \in Zeros => x[1] \in {"rs1", "rs2", "rd"}
               /\ x \in Combos => x[1] = "ctrl_combos"
    BY DEF ImmBin
  <1>4. /\ \A f, c : <<"rtype_f3_f7", f, c>> \in RegF7
                       <=> i.opcode = R_TYPE /\ i.funct3 = f /\ classify_funct7(i.funct7) = c
        /\ \A f, c : <<"itype_shift_f7", f, c>> \in ShF7
                       <=> i.opcode = I_TYPE /\ i.funct3 = f /\ f \in {1, 5} /\ classify_funct7(i.funct7) = c
    OBVIOUS
  <1>5. \A cls, ib : <<"imm_boundary", cls, ib>> \in ImmBin(i)
           <=> /\ cls = Class(i) /\ cls \in ImmClasses
               /\ classify_imm_boundary(Signed(golden_decode(i).imm), imm_range(cls)) = ib
    BY DEF ImmBin
  <1> HIDE DEF RegF7, ShF7, Kinds, Zeros, Combos
  <1>6. \A x \in Funct3Bin(i) : x[1] \in {"rtype_f3", "itype_f3", "load_f3", "store_f3", "branch_f3", "jal_hit"}
    BY <1>2 DEF Opcodes, JalBin
  <1>7. /\ \A f, c : <<"rtype_f3_f7", f, c>> \in sample_bins(i) <=> <<"rtype_f3_f7", f, c>> \in RegF7
        /\ \A f, c : <<"itype_shift_f7", f, c>> \in sample_bins(i) <=> <<"itype_shift_f7", f, c>> \in ShF7
        /\ \A f, c : <<"imm_boundary", f, c>> \in sample_bins(i) <=> <<"imm_boundary", f, c>> \in ImmBin(i)
    BY <1>1, <1>3, <1>6
  <1>8. \A t \in {"rtype_f3", "itype_f3", "load_f3", "store_f3", "branch_f3"} :
           \A f : <<t, f>> \in sample_bins(i) <=> <<t, f>> \in Funct3Bin(i)
    BY <1>1, <1>3
  <1>9. JalBin \in sample_bins(i) <=> JalBin \in Funct3Bin(i)
    BY <1>1, <1>3 DEF JalBin
  <1>10. /\ \A f : <<"rtype_f3", f>> \in Funct3Bin(i) <=> i.opcode = R_TYPE /\ i.funct3 = f
         /\ \A f : <<"itype_f3", f>> \in Funct3Bin(i) <=> i.opcode = I_TYPE /\ i.funct3 = f
         /\ \A f : <<"load_f3", f>> \in Funct3Bin(i) <=> i.opcode = LOAD /\ i.funct3 = f
         /\ \A f : <<"store_f3", f>> \in Funct3Bin(i) <=> i.opcode = STORE /\ i.funct3 = f
         /\ \A f : <<"branch_f3", f>> \in Funct3Bin(i) <=> i.opcode = BRANCH /\ i.funct3 = f
         /\ JalBin \in Funct3Bin(i) <=> i.opcode = JAL
    BY <1>2 DEF Opcodes, JalBin
  <1>11. QED
    BY <1>4, <1>5, <1>7, <1>8, <1>9, <1>10

\* The fields the bins look at.
LEMMA EncodedFields ==
    /\ \A f7, a, b, f3, c : /\ encode_r(f7, a, b, f3, c).opcode = R_TYPE
                            /\ encode_r(f7, a, b, f3, c).funct3 = f3
                            /\ encode_r(f7, a, b, f3, c).funct7 = f7 % 128
    /\ \A f7, f3, a, b, sh : /\ encode_i_shift(f7, f3, a, b, sh).opcode = I_TYPE
                             /\ encode_i_shift(f7, f3, a, b, sh).funct3 = f3
                             /\ encode_i_shift(f7, f3, a, b, sh).funct7 = f7 % 128
    /\ \A op, f3, a, b, v : /\ encode_i(op, f3, a, b, v).opcode = op
                            /\ encode_i(op, f3, a, b, v).funct3 = f3
    /\ \A a, b, v : encode_s(a, b, v).opcode = STORE /\ encode_s(a, b, v).funct3 = 2
    /\ \A a, b, f3, v : encode_b(a, b, f3, v).opcode = BRANCH /\ encode_b(a, b, f3, v).funct3 = f3
    /\ \A a, v : encode_j(a, v).opcode = JAL
  <1>1. ASSUME NEW f7, NEW r2, NEW r1, NEW m, NEW rd, NEW op
        PROVE  /\ Encoded(f7, r2, r1, m, rd, op).opcode = op
               /\ Encoded(f7, r2, r1, m, rd, op).funct3 = m
               /\ Encoded(f7, r2, r1, m, rd, op).funct7 = f7
    BY DEF Encoded
  <1>2. ASSUME NEW f7, NEW a, NEW b, NEW f3, NEW c
        PROVE  /\ encode_r(f7, a, b, f3, c) = Encoded(f7 % 128, a, b, f3, c, R_TYPE)
               /\ encode_i_shift(f7, f3, a, b, c) = Encoded(f7 % 128, c % 32, b, f3, a, I_TYPE)
    BY Zenon DEF encode_r, enc_R, encode_i_shift
  <1>3. ASSUME NEW op, NEW f3, NEW a, NEW b, NEW v
        PROVE  encode_i(op, f3, a, b, v).opcode = op /\ encode_i(op, f3, a, b, v).funct3 = f3
    BY <1>1 DEF encode_i, enc_I
  <1>4. ASSUME NEW a, NEW b, NEW v PROVE encode_s(a, b, v).opcode = STORE /\ encode_s(a, b, v).funct3 = 2
    BY <1>1 DEF encode_s, enc_S
  <1>5. ASSUME NEW a, NEW b, NEW f3, NEW v
        PROVE  encode_b(a, b, f3, v).opcode = BRANCH /\ encode_b(a, b, f3, v).funct3 = f3
    BY SMT DEF encode_b, enc_B, Encoded
  <1>6. ASSUME NEW a, NEW v PROVE encode_j(a, v).opcode = JAL
    BY SMT DEF encode_j, enc_J, Encoded
  <1>7. QED
    BY <1>1, <1>2, <1>3, <1>4, <1>5, <1>6

\* The immediates an I- or S-type word, a branch and a jump have room for.
FitsI(v) == v \in Int /\ -2048 <= v /\ v <= 2047
FitsB(v) == v \in Int /\ -4096 <= v /\ v <= 4095
FitsJ(v) == v \in Int /\ J_MIN <= v /\ v <= J_MAX + 1

\* The golden model reads the immediates back.
LEMMA GoldenImmediates ==
    ASSUME WideWord, NEW a \in RegIndex, NEW b \in RegIndex, NEW f3 \in 0 .. 7, NEW v \in Int
    PROVE  /\ FitsI(v) =>
                /\ f3 # 5 => Signed(golden_decode(encode_i(I_TYPE, f3, a, b, v)).imm) = v
                /\ Signed(golden_decode(encode_i(LOAD, f3, a, b, v)).imm) = v
                /\ Signed(golden_decode(encode_s(a, b, v)).imm) = v
           /\ FitsB(v) => Signed(golden_decode(encode_b(a, b, f3, v)).imm) = v - (v % 2)
           /\ FitsJ(v) => Signed(golden_decode(encode_j(a, v)).imm) = v - (v % 2)
  <1>1. \A i : /\ i.opcode = I_TYPE => golden_decode(i).imm = i_type(i)
               /\ i.opcode = LOAD => golden_decode(i).imm = i_type(i)
               /\ i.opcode = STORE => golden_decode(i).imm = s_type(i)
               /\ i.opcode = BRANCH => golden_decode(i).imm = b_type(i)
               /\ i.opcode = JAL => golden_decode(i).imm = j_type(i)
    BY DEF golden_decode, Signals, R_TYPE, I_TYPE, LOAD, STORE, BRANCH, JAL
  <1>2. \A i \in Sound : i_type(i) = imm_i(i) /\ s_type(i) = imm_s(i) /\ b_type(i) = imm_b(i) /\ j_type(i) = imm_j(i)
    BY ImmediatesAgree DEF Sound
  <1> DEFINE addi == encode_i(I_TYPE, f3, a, b, v)
             lw   == encode_i(LOAD, f3, a, b, v)
             sw   == encode_s(a, b, v)
             beq  == encode_b(a, b, f3, v)
             jal  == encode_j(a, v)
  <1>3. f3 # 5 => addi \in Sound
    BY SoundI, Zenon
  <1>4. lw \in Sound
    BY SoundI, Zenon
  <1>5. sw \in Sound /\ beq \in Sound /\ jal \in Sound
    BY SoundSBJ, Zenon
  <1>6. addi.opcode = I_TYPE /\ lw.opcode = LOAD /\ sw.opcode = STORE /\ beq.opcode = BRANCH /\ jal.opcode = JAL
    BY EncodedFields
  <1>7. /\ FitsI(v) => /\ Signed(imm_i(addi)) = v /\ Signed(imm_i(lw)) = v
                                      /\ Signed(imm_s(sw)) = v
        /\ FitsB(v) => Signed(imm_b(beq)) = v - (v % 2)
        /\ FitsJ(v) => Signed(imm_j(jal)) = v - (v % 2)
    BY EncodedImmediates DEF FitsI, FitsB, FitsJ
  <1> HIDE DEF addi, lw, sw, beq, jal
  <1>8. /\ f3 # 5 => golden_decode(addi).imm = imm_i(addi)
        /\ golden_decode(lw).imm = imm_i(lw) /\ golden_decode(sw).imm = imm_s(sw)
        /\ golden_decode(beq).imm = imm_b(beq) /\ golden_decode(jal).imm = imm_j(jal)
    BY <1>1, <1>2, <1>3, <1>4, <1>5, <1>6, Zenon
  <1>9. /\ FitsI(v) =>
             /\ f3 # 5 => Signed(golden_decode(addi).imm) = v
             /\ Signed(golden_decode(lw).imm) = v
             /\ Signed(golden_decode(sw).imm) = v
        /\ FitsB(v) => Signed(golden_decode(beq).imm) = v - (v % 2)
        /\ FitsJ(v) => Signed(golden_decode(jal).imm) = v - (v % 2)
    BY <1>7, <1>8
  <1>10. QED
    BY <1>9, Zenon DEF addi, lw, sw, beq, jal

\* Where the immediates between and at the ends of a range are counted.
LEMMA ImmediateKinds ==
    ASSUME NEW lo \in Int, NEW hi \in Int, lo <= -4, hi >= 4, NEW v \in Int
    PROVE  /\ v = lo => classify_imm_boundary(v, <<lo, hi>>) = "NEG_MIN"
           /\ v = -1 => classify_imm_boundary(v, <<lo, hi>>) = "NEG_ONE"
           /\ lo < v /\ v < -1 => classify_imm_boundary(v, <<lo, hi>>) = "NEG_GENERAL"
           /\ v = 0 => classify_imm_boundary(v, <<lo, hi>>) = "ZERO"
           /\ v = 1 => classify_imm_boundary(v, <<lo, hi>>) = "POS_ONE"
           /\ 1 < v /\ v < hi => classify_imm_boundary(v, <<lo, hi>>) = "POS_GENERAL"
           /\ v = hi => classify_imm_boundary(v, <<lo, hi>>) = "POS_MAX"
  BY SMT DEF classify_imm_boundary

\* The fields of the words drawn with registers of r5.
LEMMA DrawnFields ==
    /\ \A f7, f3 : \A i \in { encode_r(f7, x, y, f3, z) : x \in R5, y \in R5, z \in R5 } :
          i.opcode = R_TYPE /\ i.funct3 = f3 /\ i.funct7 = f7 % 128
    /\ \A f7, f3 : \A i \in { encode_i_shift(f7, f3, x, y, z) : x \in R5, y \in R5, z \in R5 } :
          i.opcode = I_TYPE /\ i.funct3 = f3 /\ i.funct7 = f7 % 128
    /\ \A f3, v : \A i \in { encode_i(I_TYPE, f3, x, y, v) : x \in R5, y \in R5 } :
          i.opcode = I_TYPE /\ i.funct3 = f3
  BY EncodedFields

\* A bin of groups A to C is hit by every transaction aimed at it, but the five of I-type
\* operations that the loop sends as another operation: those by none.
LEMMA RegisterBinsLand ==
    \A b \in LegalFunct3Bins \cup LegalRtypeBins \cup LegalShiftBins : \A i \in synthesize(b) :
       b \in sample_bins(i) <=> b \notin {"itype_f3"} \X {2, 3, 4, 6, 7}
  <1>1. ASSUME NEW f \in 0 .. 7
        PROVE  \A i \in synthesize(<<"rtype_f3", f>>) : <<"rtype_f3", f>> \in sample_bins(i)
    <2>1. synthesize(<<"rtype_f3", f>>) = { encode_r(0, x, y, f, z) : x \in R5, y \in R5, z \in R5 }
      BY DEF synthesize, Draw3, Draw2
    <2>2. \A i \in synthesize(<<"rtype_f3", f>>) : i.opcode = R_TYPE /\ i.funct3 = f
      BY <2>1, DrawnFields
    <2>3. QED
      BY <2>2, BinMembers
  <1>2. ASSUME NEW f \in 0 .. 7
        PROVE  \A i \in synthesize(<<"itype_f3", f>>) :
                  <<"itype_f3", f>> \in sample_bins(i) <=> f \notin {2, 3, 4, 6, 7}
    <2>1. \A i \in synthesize(<<"itype_f3", f>>) :
             i.opcode = I_TYPE /\ (i.funct3 = f <=> f \notin {2, 3, 4, 6, 7})
      <3>1. CASE f \in {1, 5}
        <4>1. /\ synthesize(<<"itype_f3", 1>>) = { encode_i_shift(0, 1, x, y, z) : x \in R5, y \in R5, z \in R5 }
              /\ synthesize(<<"itype_f3", 5>>) = { encode_i_shift(0, 5, x, y, z) : x \in R5, y \in R5, z \in R5 }
          BY DEF synthesize, Draw3, Draw2
        <4>2. /\ \A w \in synthesize(<<"itype_f3", 1>>) : w.opcode = I_TYPE /\ w.funct3 = 1
              /\ \A w \in synthesize(<<"itype_f3", 5>>) : w.opcode = I_TYPE /\ w.funct3 = 5
          BY <4>1, DrawnFields
        <4>3. QED
          BY <3>1, <4>2
      <3>2. CASE f \notin {1, 5}
        <4>1. synthesize(<<"itype_f3", f>>) = { encode_i(I_TYPE, FromAddi(f), x, y, 0) : x \in R5, y \in R5 }
          BY <3>2 DEF synthesize, Draw3, Draw2
        <4>2. \A i \in synthesize(<<"itype_f3", f>>) : i.opcode = I_TYPE /\ i.funct3 = FromAddi(f)
          BY <4>1, DrawnFields
        <4>3. FromAddi(f) = f <=> f = 0
          BY <3>2 DEF FromAddi, I_FUNCT3
        <4>4. QED
          BY <3>2, <4>2, <4>3
      <3>3. QED
        BY <3>1, <3>2
    <2>2. QED
      BY <2>1, BinMembers
  <1>3. ASSUME NEW f \in 0 .. 7, NEW c \in {"ZERO", "ALT_20"}
        PROVE  \A i \in synthesize(<<"rtype_f3_f7", f, c>>) : <<"rtype_f3_f7", f, c>> \in sample_bins(i)
    <2> DEFINE f7 == AltFunct7(c)
    <2>1. synthesize(<<"rtype_f3_f7", f, c>>) = { encode_r(f7, x, y, f, z) : x \in R5, y \in R5, z \in R5 }
      BY DEF synthesize, Draw3, Draw2
    <2>2. classify_funct7(f7 % 128) = c
      BY DEF AltFunct7, classify_funct7
    <2> HIDE DEF f7
    <2>3. \A i \in synthesize(<<"rtype_f3_f7", f, c>>) :
             i.opcode = R_TYPE /\ i.funct3 = f /\ i.funct7 = f7 % 128
      BY <2>1, DrawnFields
    <2>4. QED
      BY <2>2, <2>3, BinMembers
  <1>4. ASSUME NEW c \in {"ZERO", "ALT_20"}
        PROVE  \A i \in synthesize(<<"itype_shift_f7", 5, c>>) : <<"itype_shift_f7", 5, c>> \in sample_bins(i)
    <2> DEFINE f7 == AltFunct7(c)
    <2>1. synthesize(<<"itype_shift_f7", 5, c>>) = { encode_i_shift(f7, 5, x, y, z) : x \in R5, y \in R5, z \in R5 }
      BY DEF synthesize, Draw3, Draw2
    <2>2. classify_funct7(f7 % 128) = c
      BY DEF AltFunct7, classify_funct7
    <2> HIDE DEF f7
    <2>3. \A i \in synthesize(<<"itype_shift_f7", 5, c>>) :
             i.opcode = I_TYPE /\ i.funct3 = 5 /\ i.funct7 = f7 % 128
      BY <2>1, DrawnFields
    <2>4. QED
      BY <2>2, <2>3, BinMembers
  <1>5. ASSUME NEW b \in {<<"load_f3", 2>>, <<"store_f3", 2>>, <<"branch_f3", 0>>, <<"branch_f3", 1>>, JalBin}
        PROVE  \A i \in synthesize(b) : b \in sample_bins(i)
    <2>1. /\ synthesize(<<"load_f3", 2>>) = make_load /\ synthesize(<<"store_f3", 2>>) = make_store
          /\ synthesize(<<"branch_f3", 0>>) = make_branch(0) /\ synthesize(<<"branch_f3", 1>>) = make_branch(1)
          /\ synthesize(JalBin) = make_jal
      BY DEF synthesize, JalBin
    <2>2. \A i \in make_load : i.opcode = LOAD /\ i.funct3 = 2
      BY EncodedFields DEF make_load
    <2>3. \A i \in make_store : i.opcode = STORE /\ i.funct3 = 2
      BY EncodedFields DEF make_store
    <2>4. \A f : \A i \in make_branch(f) : i.opcode = BRANCH /\ i.funct3 = f
      BY EncodedFields DEF make_branch
    <2>5. \A i \in make_jal : i.opcode = JAL
      BY EncodedFields DEF make_jal
    <2>6. /\ \A i \in make_load : <<"load_f3", 2>> \in sample_bins(i)
          /\ \A i \in make_store : <<"store_f3", 2>> \in sample_bins(i)
          /\ \A f : \A i \in make_branch(f) : <<"branch_f3", f>> \in sample_bins(i)
          /\ \A i \in make_jal : JalBin \in sample_bins(i)
      BY <2>2, <2>3, <2>4, <2>5, BinMembers
    <2>7. QED
      BY <2>1, <2>6
  <1>6. ASSUME NEW b \in LegalFunct3Bins \cup LegalRtypeBins \cup LegalShiftBins
        PROVE  \/ \E f \in 0 .. 7 : b = <<"rtype_f3", f>>
               \/ \E f \in 0 .. 7 : b = <<"itype_f3", f>>
               \/ \E f \in 0 .. 7, c \in {"ZERO", "ALT_20"} : b = <<"rtype_f3_f7", f, c>>
               \/ \E c \in {"ZERO", "ALT_20"} : b = <<"itype_shift_f7", 5, c>>
               \/ b \in {<<"load_f3", 2>>, <<"store_f3", 2>>, <<"branch_f3", 0>>, <<"branch_f3", 1>>, JalBin}
    BY DEF LegalFunct3Bins, LegalRtypeBins, LegalShiftBins, RtypeBins, is_rtype_legal
  <1>7. \A b : b \in {"itype_f3"} \X {2, 3, 4, 6, 7} <=> \E f \in {2, 3, 4, 6, 7} : b = <<"itype_f3", f>>
    OBVIOUS
  <1>8. ASSUME NEW b \in LegalFunct3Bins \cup LegalRtypeBins \cup LegalShiftBins,
               NEW i \in synthesize(b)
        PROVE  b \in sample_bins(i) <=> b \notin {"itype_f3"} \X {2, 3, 4, 6, 7}
    <2>1. CASE \E f \in 0 .. 7 : b = <<"rtype_f3", f>>
      BY <1>1, <1>7, <2>1
    <2>2. CASE \E f \in 0 .. 7 : b = <<"itype_f3", f>>
      BY <1>2, <1>7, <2>2
    <2>3. CASE \E f \in 0 .. 7, c \in {"ZERO", "ALT_20"} : b = <<"rtype_f3_f7", f, c>>
      BY <1>3, <1>7, <2>3
    <2>4. CASE \E c \in {"ZERO", "ALT_20"} : b = <<"itype_shift_f7", 5, c>>
      BY <1>4, <1>7, <2>4
    <2>5. CASE b \in {<<"load_f3", 2>>, <<"store_f3", 2>>, <<"branch_f3", 0>>, <<"branch_f3", 1>>, JalBin}
      BY <1>5, <1>7, <2>5 DEF JalBin
    <2>6. QED
      BY <1>6, <2>1, <2>2, <2>3, <2>4, <2>5
  <1>9. QED
    BY <1>8

\* The words drawn with registers of r5 for an instruction and an immediate.
LEMMA DrawnImmediates ==
    ASSUME WideWord, NEW f3 \in 0 .. 7, NEW v \in Int
    PROVE  /\ FitsI(v) =>
                /\ f3 # 5 => \A i \in { encode_i(I_TYPE, f3, x, y, v) : x \in R5, y \in R5 } :
                                i.opcode = I_TYPE /\ i.funct3 = f3 /\ Signed(golden_decode(i).imm) = v
                /\ \A i \in { encode_i(LOAD, 2, x, y, v) : x \in R5, y \in R5 } :
                      i.opcode = LOAD /\ Signed(golden_decode(i).imm) = v
                /\ \A i \in { encode_s(x, y, v) : x \in R5, y \in R5 } :
                      i.opcode = STORE /\ Signed(golden_decode(i).imm) = v
           /\ FitsB(v) =>
                \A i \in { encode_b(x, y, f3, v) : x \in R5, y \in R5 } :
                   i.opcode = BRANCH /\ i.funct3 = f3 /\ Signed(golden_decode(i).imm) = v - (v % 2)
           /\ FitsJ(v) =>
                \A i \in { encode_j(x, v) : x \in R5 } :
                   i.opcode = JAL /\ Signed(golden_decode(i).imm) = v - (v % 2)
  <1>1. \A x \in R5 : x \in RegIndex
    BY Drawn
  <1>2. ASSUME FitsI(v), NEW x \in R5, NEW y \in R5
        PROVE  /\ f3 # 5 => Signed(golden_decode(encode_i(I_TYPE, f3, x, y, v)).imm) = v
               /\ Signed(golden_decode(encode_i(LOAD, 2, x, y, v)).imm) = v
               /\ Signed(golden_decode(encode_s(x, y, v)).imm) = v
    <2>1. 2 \in 0 .. 7 /\ x \in RegIndex /\ y \in RegIndex
      BY <1>1
    <2>2. QED
      BY <1>2, <2>1, GoldenImmediates, Zenon
  <1>3. ASSUME FitsB(v), NEW x \in R5, NEW y \in R5
        PROVE  Signed(golden_decode(encode_b(x, y, f3, v)).imm) = v - (v % 2)
    BY <1>1, <1>3, GoldenImmediates, Zenon
  <1>4. ASSUME FitsJ(v), NEW x \in R5
        PROVE  Signed(golden_decode(encode_j(x, v)).imm) = v - (v % 2)
    BY <1>1, <1>4, GoldenImmediates, Zenon
  <1>5. ASSUME FitsI(v)
        PROVE  /\ f3 # 5 => \A i \in { encode_i(I_TYPE, f3, x, y, v) : x \in R5, y \in R5 } :
                               i.opcode = I_TYPE /\ i.funct3 = f3 /\ Signed(golden_decode(i).imm) = v
               /\ \A i \in { encode_i(LOAD, 2, x, y, v) : x \in R5, y \in R5 } :
                     i.opcode = LOAD /\ Signed(golden_decode(i).imm) = v
               /\ \A i \in { encode_s(x, y, v) : x \in R5, y \in R5 } :
                     i.opcode = STORE /\ Signed(golden_decode(i).imm) = v
    BY <1>2, <1>5, EncodedFields
  <1>6. ASSUME FitsB(v)
        PROVE  \A i \in { encode_b(x, y, f3, v) : x \in R5, y \in R5 } :
                  i.opcode = BRANCH /\ i.funct3 = f3 /\ Signed(golden_decode(i).imm) = v - (v % 2)
    BY <1>3, <1>6, EncodedFields
  <1>7. ASSUME FitsJ(v)
        PROVE  \A i \in { encode_j(x, v) : x \in R5 } :
                  i.opcode = JAL /\ Signed(golden_decode(i).imm) = v - (v % 2)
    BY <1>4, <1>7, EncodedFields
  <1>8. QED
    BY <1>5, <1>6, <1>7

\* The immediates drawn for a bin, as they are counted when they are sent whole, and when their
\* lowest bit is lost.
LEMMA AimedKinds ==
    ASSUME NEW lo \in Int, NEW hi \in Int, lo <= -4, hi >= 4, NEW ib \in ImmBoundary,
           NEW imm \in BoundaryImms(ib, <<lo, hi>>)
    PROVE  /\ imm \in Int /\ lo <= imm /\ imm <= hi
           /\ classify_imm_boundary(imm, <<lo, hi>>) = ib
           /\ lo % 2 = 0 /\ hi % 2 = 0 /\ ib \notin {"NEG_ONE", "POS_ONE", "NEG_GENERAL"} =>
                classify_imm_boundary(imm - (imm % 2), <<lo, hi>>) = ib
  <1>1. /\ ib = "NEG_MIN" => imm = lo
        /\ ib = "NEG_ONE" => imm = -1
        /\ ib = "NEG_GENERAL" => imm = lo + 1 \/ imm = -2
        /\ ib = "ZERO" => imm = 0
        /\ ib = "POS_ONE" => imm = 1
        /\ ib = "POS_GENERAL" => imm = 2 \/ imm = hi - 1
        /\ ib = "POS_MAX" => imm = hi
    BY DEF BoundaryImms
  <1>2. imm \in Int /\ lo <= imm /\ imm <= hi
    BY <1>1 DEF ImmBoundary
  <1>3. classify_imm_boundary(imm, <<lo, hi>>) = ib
    <2>1. /\ ib = "NEG_GENERAL" => lo < imm /\ imm < -1
          /\ ib = "POS_GENERAL" => 1 < imm /\ imm < hi
      BY <1>1
    <2>2. /\ imm = lo => classify_imm_boundary(imm, <<lo, hi>>) = "NEG_MIN"
          /\ imm = -1 => classify_imm_boundary(imm, <<lo, hi>>) = "NEG_ONE"
          /\ lo < imm /\ imm < -1 => classify_imm_boundary(imm, <<lo, hi>>) = "NEG_GENERAL"
          /\ imm = 0 => classify_imm_boundary(imm, <<lo, hi>>) = "ZERO"
          /\ imm = 1 => classify_imm_boundary(imm, <<lo, hi>>) = "POS_ONE"
          /\ 1 < imm /\ imm < hi => classify_imm_boundary(imm, <<lo, hi>>) = "POS_GENERAL"
          /\ imm = hi => classify_imm_boundary(imm, <<lo, hi>>) = "POS_MAX"
      BY <1>2, ImmediateKinds, SMT
    <2>3. QED
      BY <1>1, <2>1, <2>2 DEF ImmBoundary
  <1>4. ASSUME lo % 2 = 0, hi % 2 = 0, ib \notin {"NEG_ONE", "POS_ONE", "NEG_GENERAL"}
        PROVE  classify_imm_boundary(imm - (imm % 2), <<lo, hi>>) = ib
    <2> DEFINE w == imm - (imm % 2)
    <2>1. /\ w \in Int
          /\ ib = "NEG_MIN" => w = lo
          /\ ib = "ZERO" => w = 0
          /\ ib = "POS_GENERAL" => 1 < w /\ w < hi
          /\ ib = "POS_MAX" => w = hi
      BY <1>1, <1>2, <1>4
    <2> HIDE DEF w
    <2>2. classify_imm_boundary(w, <<lo, hi>>) = ib
      BY <1>4, <2>1, ImmediateKinds DEF ImmBoundary
    <2>3. QED
      BY <2>2 DEF w
  <1>5. QED
    BY <1>2, <1>3, <1>4

\* The offsets of branches and jumps are even.
OffsetClasses == {BEQ, BNE, J}

\* The classes of shifts by immediate.
ShiftClasses == {<<I_TYPE, "SLL">>, <<I_TYPE, "SRL">>, <<I_TYPE, "SRA">>}

\* An immediate a class has room for.
Fits(cls, v) == IF cls \in {BEQ, BNE} THEN FitsB(v) ELSE IF cls = J THEN FitsJ(v) ELSE FitsI(v)

\* An immediate put into a word of a class is read back from it, without the lowest bit of an
\* offset, and the word is classified as the class it was made for.
LEMMA SentImmediate ==
    ASSUME WideWord, NEW cls \in ImmClasses, cls \notin ShiftClasses, NEW v, Fits(cls, v)
    PROVE  \A i \in synthesize_with_imm(cls, v) :
              /\ Class(i) = cls
              /\ Signed(golden_decode(i).imm) = IF cls \in OffsetClasses THEN v - (v % 2) ELSE v
  <1>1. /\ LW # SW /\ LW # BEQ /\ LW # BNE /\ LW # J /\ SW # BEQ /\ SW # BNE /\ SW # J
        /\ BEQ # BNE /\ BEQ # J /\ BNE # J
    BY DEF LW, SW, BEQ, BNE, J, LOAD, STORE, BRANCH, JAL
  <1>2. \A op : LET c == <<I_TYPE, op>> IN c # LW /\ c # SW /\ c # BEQ /\ c # BNE /\ c # J
    BY DEF LW, SW, BEQ, BNE, J, I_TYPE, LOAD, STORE, BRANCH, JAL
  <1>3. \A i : /\ i.opcode = I_TYPE => Class(i) = <<I_TYPE, golden_i_op(i)>>
               /\ i.opcode = LOAD => Class(i) = LW
               /\ i.opcode = STORE => Class(i) = SW
               /\ i.opcode = BRANCH /\ i.funct3 = 0 => Class(i) = BEQ
               /\ i.opcode = BRANCH /\ i.funct3 = 1 => Class(i) = BNE
               /\ i.opcode = JAL => Class(i) = J
    BY DEF Class, R_TYPE, I_TYPE, LOAD, STORE, BRANCH, JAL
  <1>4. v \in Int
    BY DEF Fits, FitsI, FitsB, FitsJ
  <1>5. 0 \in 0 .. 7 /\ 1 \in 0 .. 7 /\ 2 \in 0 .. 7
    OBVIOUS
  <1>6. CASE \E op \in AluOp \ {"SUB"} : cls = <<I_TYPE, op>>
    <2>1. PICK op \in AluOp \ {"SUB"} : cls = <<I_TYPE, op>>
      BY <1>6
    <2>2. op \in {"ADD", "SLT", "SLTU", "XOR", "OR", "AND"}
      BY <2>1 DEF AluOp, ShiftClasses
    <2> DEFINE f3 == Funct3Of(op)
               W  == { encode_i(I_TYPE, f3, a, b, v) : a \in R5, b \in R5 }
    <2>3. f3 \in 0 .. 7 /\ f3 # 5 /\ Funct3Op(f3) = op
      BY <2>2 DEF Funct3Of, Funct3Op
    <2>4. synthesize_with_imm(cls, v) = W
      <3>1. cls \in {I_TYPE} \X {"ADD", "SLT", "SLTU", "XOR", "OR", "AND"} /\ cls[2] = op
        BY <2>1, <2>2
      <3>2. cls # LW /\ cls # SW /\ cls # BEQ /\ cls # BNE /\ cls # J
        BY <1>2, <2>1
      <3>3. QED
        BY <3>1, <3>2 DEF synthesize_with_imm, Draw2
    <2>5. FitsI(v) /\ cls \notin OffsetClasses
      BY <1>2, <2>1 DEF Fits, OffsetClasses
    <2> HIDE DEF f3
    <2>6. \A i \in W :
             i.opcode = I_TYPE /\ i.funct3 = f3 /\ Signed(golden_decode(i).imm) = v
      BY <1>4, <2>3, <2>5, DrawnImmediates
    <2>7. \A i : i.funct3 = f3 => golden_i_op(i) = op
      BY <2>3 DEF golden_i_op
    <2> HIDE DEF W
    <2>8. QED
      BY <1>3, <2>1, <2>4, <2>5, <2>6, <2>7
  <1>7. CASE cls = LW
    <2> DEFINE W == { encode_i(LOAD, 2, a, b, v) : a \in R5, b \in R5 }
    <2>1. synthesize_with_imm(LW, v) = W
      BY <1>1 DEF synthesize_with_imm, Draw2, LW, LOAD, I_TYPE
    <2>2. FitsI(v) /\ cls \notin OffsetClasses
      BY <1>1, <1>7 DEF Fits, OffsetClasses
    <2>3. \A i \in W :
             i.opcode = LOAD /\ Signed(golden_decode(i).imm) = v
      BY <1>4, <1>5, <2>2, DrawnImmediates
    <2> HIDE DEF W
    <2>4. QED
      BY <1>3, <1>7, <2>1, <2>2, <2>3
  <1>8. CASE cls = SW
    <2> DEFINE W == { encode_s(a, b, v) : a \in R5, b \in R5 }
    <2>1. synthesize_with_imm(SW, v) = W
      BY <1>1 DEF synthesize_with_imm, Draw2, SW, STORE, I_TYPE
    <2>2. FitsI(v) /\ cls \notin OffsetClasses
      BY <1>1, <1>8 DEF Fits, OffsetClasses
    <2>3. \A i \in W :
             i.opcode = STORE /\ Signed(golden_decode(i).imm) = v
      BY <1>4, <1>5, <2>2, DrawnImmediates
    <2> HIDE DEF W
    <2>4. QED
      BY <1>3, <1>8, <2>1, <2>2, <2>3
  <1>9. CASE cls = BEQ
    <2> DEFINE W == { encode_b(a, b, 0, v) : a \in R5, b \in R5 }
    <2>1. synthesize_with_imm(BEQ, v) = W
      BY <1>1 DEF synthesize_with_imm, Draw2, BEQ, BRANCH, I_TYPE
    <2>2. FitsB(v) /\ cls \in OffsetClasses
      BY <1>9 DEF Fits, OffsetClasses
    <2>3. \A i \in W :
             i.opcode = BRANCH /\ i.funct3 = 0 /\ Signed(golden_decode(i).imm) = v - (v % 2)
      BY <1>4, <1>5, <2>2, DrawnImmediates
    <2> HIDE DEF W
    <2>4. QED
      BY <1>3, <1>9, <2>1, <2>2, <2>3
  <1>10. CASE cls = BNE
    <2> DEFINE W == { encode_b(a, b, 1, v) : a \in R5, b \in R5 }
    <2>1. synthesize_with_imm(BNE, v) = W
      BY <1>1 DEF synthesize_with_imm, Draw2, BNE, BRANCH, I_TYPE
    <2>2. FitsB(v) /\ cls \in OffsetClasses
      BY <1>10 DEF Fits, OffsetClasses
    <2>3. \A i \in W :
             i.opcode = BRANCH /\ i.funct3 = 1 /\ Signed(golden_decode(i).imm) = v - (v % 2)
      BY <1>4, <1>5, <2>2, DrawnImmediates
    <2> HIDE DEF W
    <2>4. QED
      BY <1>3, <1>10, <2>1, <2>2, <2>3
  <1>11. CASE cls = J
    <2> DEFINE W == { encode_j(a, v) : a \in R5 }
    <2>1. synthesize_with_imm(J, v) = W
      BY <1>1 DEF synthesize_with_imm, J, JAL, I_TYPE
    <2>2. FitsJ(v) /\ cls \in OffsetClasses
      BY <1>1, <1>11 DEF Fits, OffsetClasses
    <2>3. \A i \in W : i.opcode = JAL /\ Signed(golden_decode(i).imm) = v - (v % 2)
      BY <1>4, <1>5, <2>2, DrawnImmediates
    <2> HIDE DEF W
    <2>4. QED
      BY <1>3, <1>11, <2>1, <2>2, <2>3
  <1>12. QED
    BY <1>6, <1>7, <1>8, <1>9, <1>10, <1>11 DEF ImmClasses, IClasses

\* The range of a class that is no shift, and what the ends have room for.
LEMMA RangeOfClass ==
    ASSUME NEW cls \in ImmClasses, cls \notin ShiftClasses
    PROVE  \E lo, hi \in Int :
              /\ imm_range(cls) = <<lo, hi>> /\ lo <= -4 /\ hi >= 4
              /\ \A v \in Int : lo <= v /\ v <= hi => Fits(cls, v)
              /\ cls \in OffsetClasses => lo % 2 = 0 /\ hi % 2 = 0
  <1>1. BEQ # J /\ BNE # J /\ J \notin ShiftClasses /\ BEQ \notin ShiftClasses /\ BNE \notin ShiftClasses
    BY DEF BEQ, BNE, J, ShiftClasses, I_TYPE, BRANCH, JAL
  <1>2. CASE cls \in {BEQ, BNE}
    <2>1. imm_range(cls) = <<-4096, 4094>>
      <3>1. cls # J /\ cls \notin {<<I_TYPE, "SLL">>, <<I_TYPE, "SRL">>} /\ cls # <<I_TYPE, "SRA">>
        BY <1>1, <1>2 DEF ShiftClasses
      <3>2. QED
        BY <1>2, <3>1, SMT DEF imm_range
    <2>2. \A v \in Int : -4096 <= v /\ v <= 4094 => Fits(cls, v)
      BY <1>2, SMT DEF Fits, FitsB
    <2>3. -4096 \in Int /\ 4094 \in Int /\ -4096 <= -4 /\ 4094 >= 4 /\ (-4096) % 2 = 0 /\ 4094 % 2 = 0
      BY SMT
    <2>4. QED
      BY <2>1, <2>2, <2>3, SMT
  <1>3. CASE cls = J
    <2>1. imm_range(cls) = <<J_MIN, J_MAX>>
      <3>1. cls \notin {BEQ, BNE} /\ cls \notin {<<I_TYPE, "SLL">>, <<I_TYPE, "SRL">>} /\ cls # <<I_TYPE, "SRA">>
        BY <1>1, <1>3 DEF ShiftClasses
      <3>2. QED
        BY <1>3, <3>1, SMT DEF imm_range
    <2>2. J_MIN \in Int /\ J_MAX \in Int /\ J_MIN <= -4 /\ J_MAX >= 4 /\ J_MIN % 2 = 0 /\ J_MAX % 2 = 0
      BY SMT DEF J_MIN, J_MAX
    <2>3. \A v \in Int : J_MIN <= v /\ v <= J_MAX => Fits(cls, v)
      BY <1>1, <1>3, <2>2, SMT DEF Fits, FitsJ
    <2>4. QED
      BY <2>1, <2>2, <2>3, SMT
  <1>4. CASE cls \notin OffsetClasses
    <2>1. imm_range(cls) = <<-2048, 2047>>
      BY <1>4, SMT DEF imm_range, OffsetClasses, ShiftClasses
    <2>2. \A v \in Int : -2048 <= v /\ v <= 2047 => Fits(cls, v)
      BY <1>4, SMT DEF Fits, FitsI, OffsetClasses
    <2>3. -2048 \in Int /\ 2047 \in Int /\ -2048 <= -4 /\ 2047 >= 4
      BY SMT
    <2>4. QED
      BY <1>4, <2>1, <2>2, <2>3, SMT
  <1>5. QED
    BY <1>2, <1>3, <1>4 DEF OffsetClasses

\* An immediate bin of any other class is hit by every transaction aimed at it, unless it is the
\* general negative one of a branch or jump: there an odd offset next to the lowest is the lowest.
LEMMA ImmBinsLand ==
    ASSUME WideWord, NEW cls \in ImmClasses, cls \notin ShiftClasses, NEW ib \in ImmBoundary,
           is_imm_boundary_reachable(cls, ib)
    PROVE  LET b == <<"imm_boundary", cls, ib>>
           IN  /\ (cls \notin OffsetClasses \/ ib # "NEG_GENERAL") =>
                     \A i \in synthesize(b) : b \in sample_bins(i)
               /\ cls \in OffsetClasses /\ ib = "NEG_GENERAL" /\ R5 # {} =>
                     \E i \in synthesize(b) : b \notin sample_bins(i)
  <1> DEFINE b == <<"imm_boundary", cls, ib>>
  <1>1. PICK lo, hi \in Int : /\ imm_range(cls) = <<lo, hi>> /\ lo <= -4 /\ hi >= 4
                              /\ \A v \in Int : lo <= v /\ v <= hi => Fits(cls, v)
                              /\ cls \in OffsetClasses => lo % 2 = 0 /\ hi % 2 = 0
    BY RangeOfClass
  <1>2. synthesize(b) = UNION { synthesize_with_imm(cls, imm) : imm \in BoundaryImms(ib, <<lo, hi>>) }
    BY <1>1 DEF synthesize
  <1>3. \A i : b \in sample_bins(i)
                 <=> Class(i) = cls /\ classify_imm_boundary(Signed(golden_decode(i).imm), imm_range(cls)) = ib
    BY BinMembers
  <1> HIDE DEF b
  <1>4. ASSUME NEW imm \in BoundaryImms(ib, <<lo, hi>>), NEW i \in synthesize_with_imm(cls, imm)
        PROVE  /\ imm \in Int /\ Class(i) = cls
               /\ Signed(golden_decode(i).imm) = IF cls \in OffsetClasses THEN imm - (imm % 2) ELSE imm
    <2>1. imm \in Int /\ lo <= imm /\ imm <= hi
      BY <1>1, AimedKinds
    <2>2. Fits(cls, imm)
      BY <1>1, <2>1
    <2>3. QED
      BY <2>1, <2>2, SentImmediate
  <1>5. ASSUME cls \notin OffsetClasses \/ ib # "NEG_GENERAL"
        PROVE  \A i \in synthesize(b) : b \in sample_bins(i)
    <2>1. ASSUME NEW imm \in BoundaryImms(ib, <<lo, hi>>), NEW i \in synthesize_with_imm(cls, imm)
          PROVE  b \in sample_bins(i)
      <3>1. /\ imm \in Int /\ classify_imm_boundary(imm, <<lo, hi>>) = ib
            /\ lo % 2 = 0 /\ hi % 2 = 0 /\ ib \notin {"NEG_ONE", "POS_ONE", "NEG_GENERAL"} =>
                 classify_imm_boundary(imm - (imm % 2), <<lo, hi>>) = ib
        BY <1>1, <2>1, AimedKinds
      <3>2. cls \in OffsetClasses => ib \notin {"NEG_ONE", "POS_ONE", "NEG_GENERAL"}
        BY <1>5 DEF is_imm_boundary_reachable, OffsetClasses
      <3>3. classify_imm_boundary(Signed(golden_decode(i).imm), <<lo, hi>>) = ib
        BY <1>1, <1>4, <2>1, <3>1, <3>2
      <3>4. QED
        BY <1>1, <1>3, <1>4, <2>1, <3>3
    <2>2. QED
      BY <1>2, <2>1
  <1>6. ASSUME cls \in OffsetClasses, ib = "NEG_GENERAL", R5 # {}
        PROVE  \E i \in synthesize(b) : b \notin sample_bins(i)
    <2>1. lo + 1 \in BoundaryImms(ib, <<lo, hi>>)
      BY <1>6 DEF BoundaryImms
    <2>2. synthesize_with_imm(cls, lo + 1) # {}
      <3>1. PICK a \in R5 : TRUE
        BY <1>6
      <3>2. BEQ # BNE /\ BEQ # J /\ BNE # J /\ BEQ # LW /\ BNE # LW /\ J # LW /\ BEQ # SW /\ BNE # SW /\ J # SW
        BY DEF LW, SW, BEQ, BNE, J, LOAD, STORE, BRANCH, JAL
      <3>3. cls \notin {I_TYPE} \X {"ADD", "SLT", "SLTU", "XOR", "OR", "AND"}
        BY <1>6 DEF OffsetClasses, BEQ, BNE, J, BRANCH, JAL, I_TYPE
      <3>4. /\ cls = BEQ => encode_b(a, a, 0, lo + 1) \in synthesize_with_imm(cls, lo + 1)
            /\ cls = BNE => encode_b(a, a, 1, lo + 1) \in synthesize_with_imm(cls, lo + 1)
            /\ cls = J => encode_j(a, lo + 1) \in synthesize_with_imm(cls, lo + 1)
        BY <3>2, <3>3 DEF synthesize_with_imm, Draw2
      <3>5. QED
        BY <1>6, <3>4 DEF OffsetClasses
    <2>3. PICK i \in synthesize_with_imm(cls, lo + 1) : TRUE
      BY <2>2
    <2>4. Signed(golden_decode(i).imm) = lo
      <3>1. Signed(golden_decode(i).imm) = (lo + 1) - ((lo + 1) % 2)
        BY <1>4, <1>6, <2>1, <2>3
      <3>2. (lo + 1) % 2 = 1
        BY <1>1, <1>6
      <3>3. QED
        BY <3>1, <3>2
    <2>5. classify_imm_boundary(Signed(golden_decode(i).imm), imm_range(cls)) = "NEG_MIN"
      <3>1. lo <= -4 /\ hi >= 4
        BY <1>1
      <3>2. classify_imm_boundary(lo, <<lo, hi>>) = "NEG_MIN"
        BY <3>1, SMT DEF classify_imm_boundary
      <3>3. QED
        BY <1>1, <2>4, <3>2
    <2>6. b \notin sample_bins(i)
      BY <1>3, <1>6, <2>5
    <2>7. i \in synthesize(b)
      BY <1>2, <2>1, <2>3
    <2>8. QED
      BY <2>6, <2>7
  <1>7. QED
    BY <1>5, <1>6 DEF b

\* A bin of a shift by immediate is aimed at with a random transaction.
LEMMA ShiftBinsAreRandom ==
    ASSUME NEW cls \in {<<I_TYPE, "SLL">>, <<I_TYPE, "SRL">>}, NEW ib \in ImmBoundary
    PROVE  synthesize(<<"imm_boundary", cls, ib>>) = make_random
  <1>1. synthesize(<<"imm_boundary", cls, ib>>)
           = UNION { synthesize_with_imm(cls, imm) : imm \in BoundaryImms(ib, imm_range(cls)) }
    BY DEF synthesize
  <1>2. \A imm : synthesize_with_imm(cls, imm) = make_random
    <2>1. /\ cls # LW /\ cls # SW /\ cls # BEQ /\ cls # BNE /\ cls # J
          /\ cls \notin {I_TYPE} \X {"ADD", "SLT", "SLTU", "XOR", "OR", "AND"}
      BY DEF LW, SW, BEQ, BNE, J, I_TYPE, LOAD, STORE, BRANCH, JAL
    <2>2. QED
      BY <2>1, Zenon DEF synthesize_with_imm
  <1>3. BoundaryImms(ib, imm_range(cls)) # {}
    <2> DEFINE range == imm_range(cls)
    <2> HIDE DEF range
    <2>1. BoundaryImms(ib, range) # {}
      BY DEF BoundaryImms, ImmBoundary
    <2>2. QED
      BY <2>1, Zenon DEF range
  <1>4. QED
    BY <1>1, <1>2, <1>3

\* Which bins the loop may aim at are hit by whatever it sends, and which may be missed.
LEMMA AimedBinsLand ==
    ASSUME WideWord, R5 # {},
           \E i \in make_random : Class(i) \notin {<<I_TYPE, "SLL">>, <<I_TYPE, "SRL">>},
           NEW b \in Targetable
    PROVE  (\A i \in synthesize(b) : b \in sample_bins(i)) <=> b \notin Missable
  <1>1. ASSUME b \in LegalFunct3Bins \cup LegalRtypeBins \cup LegalShiftBins
        PROVE  (\A i \in synthesize(b) : b \in sample_bins(i)) <=> b \notin Missable
    <2>1. b \in Missable <=> b \in {"itype_f3"} \X {2, 3, 4, 6, 7}
      <3>1. b[1] # "imm_boundary"
        BY <1>1 DEF LegalFunct3Bins, LegalRtypeBins, LegalShiftBins, RtypeBins, JalBin
      <3>2. QED
        BY <3>1 DEF Missable, ImmBins
    <2>2. \A i \in synthesize(b) : b \in sample_bins(i) <=> b \notin Missable
      BY <1>1, <2>1, RegisterBinsLand
    <2>3. b \in Missable => synthesize(b) # {}
      <3>1. PICK a \in R5 : TRUE
        OBVIOUS
      <3>2. ASSUME NEW f \in {2, 3, 4, 6, 7} PROVE synthesize(<<"itype_f3", f>>) # {}
        <4>1. f \notin {1, 5}
          BY <3>2
        <4>2. synthesize(<<"itype_f3", f>>) = { encode_i(I_TYPE, FromAddi(f), x, y, 0) : x \in R5, y \in R5 }
          BY <4>1 DEF synthesize, Draw2
        <4>3. encode_i(I_TYPE, FromAddi(f), a, a, 0) \in synthesize(<<"itype_f3", f>>)
          BY <3>1, <4>2
        <4>4. QED
          BY <4>3
      <3>3. b \in Missable => \E f \in {2, 3, 4, 6, 7} : b = <<"itype_f3", f>>
        BY <2>1
      <3>4. QED
        BY <3>2, <3>3
    <2>4. QED
      BY <2>2, <2>3
  <1>2. ASSUME b \in LegalImmBins
        PROVE  (\A i \in synthesize(b) : b \in sample_bins(i)) <=> b \notin Missable
    <2>1. PICK cls \in ImmClasses, ib \in ImmBoundary :
             b = <<"imm_boundary", cls, ib>> /\ cls # <<I_TYPE, "SRA">> /\ is_imm_boundary_reachable(cls, ib)
      BY <1>2 DEF LegalImmBins, ImmBins
    <2>2. b \in Missable <=> \/ cls \in {<<I_TYPE, "SLL">>, <<I_TYPE, "SRL">>}
                             \/ (cls \in OffsetClasses /\ ib = "NEG_GENERAL")
      BY <2>1 DEF Missable, ImmBins, OffsetClasses
    <2>3. CASE cls \in {<<I_TYPE, "SLL">>, <<I_TYPE, "SRL">>}
      <3>1. synthesize(b) = make_random
        BY <2>1, <2>3, ShiftBinsAreRandom
      <3>2. \A i : Class(i) # cls => b \notin sample_bins(i)
        BY <2>1, BinMembers
      <3>3. PICK i \in make_random : Class(i) \notin {<<I_TYPE, "SLL">>, <<I_TYPE, "SRL">>}
        OBVIOUS
      <3>4. b \notin sample_bins(i)
        BY <2>3, <3>2, <3>3
      <3>5. QED
        BY <2>2, <2>3, <3>1, <3>3, <3>4
    <2>4. CASE cls \notin {<<I_TYPE, "SLL">>, <<I_TYPE, "SRL">>}
      <3>1. cls \notin ShiftClasses
        BY <2>1, <2>4 DEF ShiftClasses
      <3>2. /\ (cls \notin OffsetClasses \/ ib # "NEG_GENERAL") => \A i \in synthesize(b) : b \in sample_bins(i)
            /\ cls \in OffsetClasses /\ ib = "NEG_GENERAL" => \E i \in synthesize(b) : b \notin sample_bins(i)
        BY <2>1, <3>1, ImmBinsLand
      <3>3. QED
        BY <2>2, <2>4, <3>2
    <2>5. QED
      BY <2>3, <2>4
  <1>3. QED
    BY <1>1, <1>2 DEF Targetable

\* Whatever is drawn, a transaction the feedback loop aims at a weak bin lands in it, and exactly the
\* bins listed in Missable may be missed (decoder_sequence.h targets them all the same).
THEOREM AimedWordsLand ==
    ASSUME WideWord, R5 # {},
           \E i \in make_random : Class(i) \notin {<<I_TYPE, "SLL">>, <<I_TYPE, "SRL">>}
    PROVE  Spec => []TargetsLand
  <1>1. ASSUME TypeOK PROVE TargetsLand
    <2>1. Pool \subseteq Targetable
      <3>1. \A w \in weak : w[1] \in Targetable
        BY <1>1 DEF TypeOK
      <3>2. QED
        BY <3>1 DEF Pool
    <2>2. \A b \in Pool : (\A i \in synthesize(b) : b \in sample_bins(i)) <=> b \notin Missable
      BY <2>1, AimedBinsLand, Zenon
    <2>3. QED
      BY <2>2, Zenon DEF TargetsLand
  <1>2. QED
    BY <1>1, UnitBenchIsTyped, PTL
=============================================================================
