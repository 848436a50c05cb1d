--------------------------- MODULE ReferenceModel ---------------------------
(***************************************************************************)
(* cpp_tb/pipeline/reference_model.h: the instruction set simulator the    *)
(* pipeline is checked against, as operators over the architectural state  *)
(* (pc_, regs_, dmem_).  Decoding and arithmetic follow the C++ code, not  *)
(* the RTL: this is the independent second opinion.                        *)
(***************************************************************************)
EXTENDS Program

(* pipe_transaction.h: what a commit record's operator== compares.         *)

RegCommit(rd, data)        == [kind |-> "REG", rd |-> rd, data |-> data]
MemCommit(word_addr, data) == [kind |-> "MEM", word_addr |-> word_addr, data |-> data]

\* JAL x0, 0 (0x0000006F)
HALT == [opcode |-> JAL, rd |-> 0, funct3 |-> 0, rs1 |-> 0, rs2 |-> 0, funct7 |-> 0]

CommitRecord == [kind : {"REG"}, rd : RegIndex, data : Word]
                  \cup [kind : {"MEM"}, word_addr : Nat, data : Word]
-----------------------------------------------------------------------------
(* The immediate extractors: the sign bit's weight comes from the arith-   *)
(* metic shift of the top bits, the other bits are masked into place.      *)

SignBit(i)    == i.funct7 \div 64
SignedTop7(i) == i.funct7 - 128 * SignBit(i)

IssSext12(i) == Trunc(SignedTop7(i) * 32 + i.rs2)
IssImmS(i)   == Trunc(SignedTop7(i) * 32 + i.rd)
\* Faulty: a branch offset without its sign.
IssImmB_ZeroExtended(i) == Trunc((i.rd % 2) * 2048 + (i.funct7 % 64) * 32
                        + (i.rd \div 2) * 2 + SignBit(i) * 4096)
IssImmB(i)   == Trunc((i.rd % 2) * 2048 + (i.funct7 % 64) * 32
                        + (i.rd \div 2) * 2 - SignBit(i) * 4096)
IssImmJ(i)   == Trunc((i.rs1 * 8 + i.funct3) * 4096 + (i.rs2 % 2) * 2048
                        + (i.funct7 % 64) * 32 + (i.rs2 \div 2) * 2 - SignBit(i) * 1048576)

\* funct7 & 0x20
Alternate(i) == (i.funct7 \div 32) % 2 = 1

\* The inner switches on funct3 of the R-type and I-type cases; they differ in
\* the second operand, the shift amount, and whether funct3 = 0 can subtract.
ArithResult(i, v1, v2, sh, subtract) ==
    CASE i.funct3 = 0 -> IF subtract THEN Minus(v1, v2) ELSE Plus(v1, v2)
      [] i.funct3 = 7 -> BitAnd(v1, v2)
      [] i.funct3 = 6 -> BitOr(v1, v2)
      [] i.funct3 = 4 -> BitXor(v1, v2)
      [] i.funct3 = 2 -> Flag(Signed(v1) < Signed(v2))
      [] i.funct3 = 3 -> Flag(v1 < v2)
      [] i.funct3 = 1 -> ShiftLeft(v1, sh)
      [] i.funct3 = 5 -> IF Alternate(i) THEN ShiftRightArith(v1, sh) ELSE ShiftRight(v1, sh)

BranchDecision(i, rv1, rv2) == IF i.funct3 = 0 THEN rv1 = rv2 ELSE rv1 # rv2
-----------------------------------------------------------------------------
(* execute_one: the architectural state after one instruction, and the     *)
(* commit record it leaves, as a sequence of at most one.                  *)

\* The lambda reg_write, with the pc the instruction continues at.
RegWrite(regs_, dmem_, rd, val, next_pc) ==
    [pc |-> next_pc, dmem |-> dmem_,
     regs |-> IF rd # 0 THEN [regs_ EXCEPT ![rd] = val] ELSE regs_,
     commits |-> IF rd # 0 THEN <<RegCommit(rd, val)>> ELSE <<>>]

DmemIndex(ea) == (ea \div 4) % DMEM_WORDS

ExecuteOne(pc_, regs_, dmem_, i) ==
    LET rv1 == regs_[i.rs1]
        rv2 == regs_[i.rs2]
        next_pc == Plus(pc_, 4)
        Quiet(to) == [pc |-> to, regs |-> regs_, dmem |-> dmem_, commits |-> <<>>]
    IN  CASE i.opcode = R_TYPE ->
               RegWrite(regs_, dmem_, i.rd, ArithResult(i, rv1, rv2, rv2 % 32, Alternate(i)), next_pc)
          [] i.opcode = I_TYPE ->
               RegWrite(regs_, dmem_, i.rd, ArithResult(i, rv1, IssSext12(i), i.rs2, FALSE), next_pc)
          [] i.opcode = LOAD ->
               RegWrite(regs_, dmem_, i.rd, dmem_[DmemIndex(Plus(rv1, IssSext12(i)))], next_pc)
          [] i.opcode = STORE ->
               LET ea == Plus(rv1, IssImmS(i))
               IN  [pc |-> next_pc, regs |-> regs_,
                    dmem |-> [dmem_ EXCEPT ![DmemIndex(ea)] = rv2],
                    commits |-> <<MemCommit(ea \div 4, rv2)>>]
          [] i.opcode = BRANCH ->
               Quiet(IF BranchDecision(i, rv1, rv2) THEN Plus(pc_, IssImmB(i)) ELSE next_pc)
          [] i.opcode = JAL ->
               RegWrite(regs_, dmem_, i.rd, next_pc, Plus(pc_, IssImmJ(i)))
          [] OTHER -> Quiet(next_pc)

\* run() leaves its loop when the pc leaves instruction memory or at HALT.
OutOfMemory(pc_) == pc_ \div 4 >= IMEM_WORDS
-----------------------------------------------------------------------------
(* annotate_hazards: which hazard a step is counted as, from the register  *)
(* writers among the two steps before it.                                  *)

Uses(i, rd) == rd # 0 /\ rd \in {i.rs1, i.rs2}

\* What is_reg_writer and kind keep of a step.
Writer(i) == [rd |-> IF i.opcode \in {R_TYPE, I_TYPE, LOAD, JAL} THEN i.rd ELSE 0,
              load |-> i.opcode = LOAD]
NoWriter  == [rd |-> 0, load |-> FALSE]

\* Faulty: only the step before is looked at.
Annotation_OneBack(i, back1, back2) ==
    IF Uses(i, back1.rd) THEN IF back1.load THEN "load_use" ELSE "raw" ELSE "none"

\* back1 is the step before, back2 the one before that.
Annotation(i, back1, back2) ==
    IF Uses(i, back1.rd) THEN IF back1.load THEN "load_use" ELSE "raw"
    ELSE IF back1.rd # back2.rd /\ Uses(i, back2.rd) THEN "raw"
    ELSE "none"
-----------------------------------------------------------------------------
(* run(), one instruction at a time: the simulator as a record.            *)

LoadedModel(prog, pre) ==
    [imem |-> LoadedImem(prog), dmem |-> LoadedDmem(pre), pc |-> 0,
     regs |-> [r \in RegIndex |-> 0], steps |-> 0, commits |-> <<>>]

Halted(ref) == ~OutOfMemory(ref.pc) /\ ref.imem[ref.pc \div 4] = HALT

Stepped(ref) ==
    LET e == ExecuteOne(ref.pc, ref.regs, ref.dmem, ref.imem[ref.pc \div 4])
    IN  [ref EXCEPT !.pc = e.pc, !.regs = e.regs, !.dmem = e.dmem,
                    !.steps = @ + 1, !.commits = @ \o e.commits]
=============================================================================
