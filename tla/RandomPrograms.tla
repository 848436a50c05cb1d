--------------------------- MODULE RandomPrograms ---------------------------
(***************************************************************************)
(* cpp_tb/pipeline/program_gen.h: prog_random and prog_constrained, the    *)
(* two generators of the regression and the stress test, one slot of the   *)
(* program per step, and then the reference model running what they made.  *)
(* A draw of the random engine is a choice from the set it draws from.     *)
(***************************************************************************)
EXTENDS ReferenceModel, ProgramGen

CONSTANTS
    N,                \* the length asked for (200 in the regression, 500 in the stress test)
    MAX_PROG,         \* 243 in the code
    MAX_SLOTS,        \* 240 in the code
    BRANCH_BUDGET,    \* redirects in a program of prog_random (3 in the code)
    REGS,             \* the registers drawn (1 .. 15, 1 .. 30)
    IMMS,             \* the immediates drawn (-2048 .. 2047, kEdgeImm included)
    OFFSETS           \* the memory offsets drawn (0, 4, ..., 60)

ASSUME GeneratorAssumption ==
    /\ N \in Nat /\ BRANCH_BUDGET \in Nat /\ MAX_PROG \in Nat /\ MAX_SLOTS \in Nat
    /\ MAX_PROG >= 8 /\ MAX_SLOTS >= 12
    /\ REGS \subseteq RegIndex \ {0}
    /\ IMMS \subseteq -2048 .. 2047 /\ OFFSETS \subseteq {4 * k : k \in 0 .. 15}

\* The caps are what keeps a program and its HALT inside instruction memory.
ASSUME CapAssumption == MAX_PROG + 2 <= IMEM_WORDS /\ MAX_SLOTS < IMEM_WORDS

\* Every word of instruction memory has an address.
ASSUME AddressAssumption == 4 * IMEM_WORDS <= WordMod

VARIABLES
    phase,            \* "idle", "random", "constrained", "run", "done"
    prog,
    branch_budget,    \* of prog_random
    last_rd, last_mem_off, last_was_sw,   \* of prog_constrained
    ref               \* the reference model running the program

bias_vars == <<last_rd, last_mem_off, last_was_sw>>
vars == <<phase, prog, branch_budget, bias_vars, ref>>

\* Every redirect skips one instruction, always a NOP.
\* Faulty: the backward offset of prog_bne_loop.
SKIP_Back == -8
\* Faulty: one instruction too far.
SKIP_Two == 12
SKIP == 8

\* Faulty: no cap.
RandomTarget_Uncapped == N
RandomTarget == IF N < MAX_PROG - 8 THEN N ELSE MAX_PROG - 8
ConstrainedTarget == IF N < MAX_SLOTS - 12 THEN N ELSE MAX_SLOTS - 12

Init ==
    /\ phase = "idle" /\ prog = <<>> /\ branch_budget = 0
    /\ last_rd = 0 /\ last_mem_off = 0 /\ last_was_sw = FALSE
    /\ ref = LoadedModel(<<>>, <<>>)

Begin ==
    /\ phase = "idle"
    /\ \/ phase' = "random" /\ prog' = RandomSeeds /\ branch_budget' = BRANCH_BUDGET
       \/ phase' = "constrained" /\ prog' = ConstrainedSeeds /\ UNCHANGED branch_budget
    /\ UNCHANGED <<bias_vars, ref>>
-----------------------------------------------------------------------------
(* prog_random.                                                            *)

RandomOpen == phase = "random" /\ Len(prog) < RandomTarget + 8

\* What a turn may append: the R-type operations, ADDI, LW and SW at a small address.
PlainSlots ==
    LET ops == { <<0, 0>>, <<32, 0>>, <<0, 7>>, <<0, 6>>, <<0, 4>> }
    IN  { enc_R(op[1], rs2, rs1, op[2], rd, R_TYPE) : op \in ops, rd, rs1, rs2 \in REGS }
        \cup { Lw(rd, 0, off) : rd \in REGS, off \in OFFSETS }
        \cup { Sw(rs1, 0, off) : rs1 \in REGS, off \in OFFSETS }
ImmediateSlots == { Addi(rd, rs1, imm) : rd, rs1 \in REGS, imm \in IMMS \cap (-32 .. 31) }
ControlSlots == { Beq(rs1, rs2, SKIP) : rs1, rs2 \in REGS }
                \cup { Bne(rs1, rs2, SKIP) : rs1, rs2 \in REGS }
                \cup { Jal(rd, SKIP) : rd \in REGS }

RandomPlain ==
    /\ RandomOpen
    /\ \E i \in PlainSlots \cup ImmediateSlots : prog' = Append(prog, i)
    /\ UNCHANGED <<phase, branch_budget, bias_vars, ref>>

\* Faulty: one redirect more than the budget has.
RandomControl_OneMore ==
    /\ RandomOpen /\ branch_budget >= 0
    /\ \E i \in ControlSlots : prog' = prog \o <<i, NOP>>
    /\ branch_budget' = branch_budget - 1
    /\ UNCHANGED <<phase, bias_vars, ref>>

\* Without budget left these draws become ADDIs, which RandomPlain appends as well.
RandomControl ==
    /\ RandomOpen /\ branch_budget > 0
    /\ \E i \in ControlSlots : prog' = prog \o <<i, NOP>>
    /\ branch_budget' = branch_budget - 1
    /\ UNCHANGED <<phase, bias_vars, ref>>
-----------------------------------------------------------------------------
(* prog_constrained.                                                       *)

ConstrainedOpen ==
    phase = "constrained" /\ Len(prog) < ConstrainedTarget + 8 /\ Len(prog) < MAX_SLOTS

kROps == { <<0, 0>>, <<0, 1>>, <<7, 0>>, <<6, 0>>, <<4, 0>>,
           <<2, 0>>, <<3, 0>>, <<1, 0>>, <<5, 0>>, <<5, 1>> }

biased_rs == REGS \cup ({last_rd} \ {0})

\* A turn clears last_was_sw before it does anything else.
ConstrainedTurn(slots, rd) ==
    /\ ConstrainedOpen
    /\ prog' = prog \o slots /\ last_rd' = rd
    /\ UNCHANGED <<phase, branch_budget, ref>>

Plainly == last_was_sw' = FALSE /\ UNCHANGED last_mem_off

ConstrainedR == \E op \in kROps, rd \in REGS, rs1, rs2 \in biased_rs :
    ConstrainedTurn(<<enc_R(32 * op[2], rs2, rs1, op[1], rd, R_TYPE)>>, rd) /\ Plainly

\* The I-type turn and the fallback.
ConstrainedAddi == \E rd \in REGS, rs1 \in biased_rs, imm \in IMMS :
    ConstrainedTurn(<<Addi(rd, rs1, imm)>>, rd) /\ Plainly

\* LW, a branch and JAL need three free slots, and are an ADDI without them.
Roomy == Len(prog) + 3 <= MAX_SLOTS

\* What the LW case sees of last_was_sw.  The head of the turn (line 573) has just
\* cleared it, whatever the turn before left in it.
StoredBefore == FALSE

\* The base and offset of a load; after a store, that store's offset from x0 as well.
LoadOperands == (REGS \X OFFSETS) \cup (IF StoredBefore THEN {<<0, last_mem_off>>} ELSE {})

ConstrainedLw == \E rd \in REGS, at \in LoadOperands :
    /\ Roomy
    /\ \/ ConstrainedTurn(<<Lw(rd, at[1], at[2])>>, rd)
       \/ /\ Len(prog) + 1 < MAX_SLOTS - 2
          /\ \E rd2 \in REGS, imm \in IMMS :
                ConstrainedTurn(<<Lw(rd, at[1], at[2]), Addi(rd2, rd, imm)>>, rd2)
    /\ Plainly

ConstrainedSw == \E rs2 \in biased_rs, rs1 \in REGS, off \in OFFSETS :
    /\ ConstrainedTurn(<<Sw(rs2, rs1, off)>>, 0)
    /\ last_was_sw' = TRUE /\ last_mem_off' = off

ConstrainedBranch == \E rs1, rs2 \in biased_rs :
    /\ Roomy
    /\ \/ ConstrainedTurn(<<Beq(rs1, rs2, SKIP), NOP>>, 0)
       \/ ConstrainedTurn(<<Bne(rs1, rs2, SKIP), NOP>>, 0)
    /\ Plainly

ConstrainedJal == \E rd \in REGS :
    Roomy /\ ConstrainedTurn(<<Jal(rd, SKIP), NOP>>, rd) /\ Plainly
-----------------------------------------------------------------------------
(* HALT ends either program; then the reference model runs it.             *)

Close ==
    /\ phase \in {"random", "constrained"} /\ ~RandomOpen /\ ~ConstrainedOpen
    /\ prog' = Append(prog, Halt)
    /\ ref' = LoadedModel(prog', <<>>)
    /\ phase' = "run"
    /\ UNCHANGED <<branch_budget, bias_vars>>

\* One turn of run()'s loop, whose limit no generated program comes near.
RunReference ==
    /\ phase = "run" /\ ref.steps < 8000 /\ ~OutOfMemory(ref.pc) /\ ~Halted(ref)
    /\ ref' = Stepped(ref)
    /\ UNCHANGED <<phase, prog, branch_budget, bias_vars>>

AtHalt ==
    /\ phase = "run" /\ Halted(ref)
    /\ phase' = "done"
    /\ UNCHANGED <<prog, branch_budget, bias_vars, ref>>

Next ==
    \/ Begin \/ RandomPlain \/ RandomControl
    \/ ConstrainedR \/ ConstrainedAddi \/ ConstrainedLw \/ ConstrainedSw
    \/ ConstrainedBranch \/ ConstrainedJal
    \/ Close \/ RunReference \/ AtHalt

Spec == Init /\ [][Next]_vars

\* The generators are loops that append on every turn, the reference model a loop
\* that executes on every turn; nothing else runs.
FairSpec == Spec /\ WF_vars(Next)
-----------------------------------------------------------------------------
TypeOK ==
    /\ phase \in {"idle", "random", "constrained", "run", "done"}
    /\ prog \in Seq(Instr) /\ branch_budget \in 0 .. BRANCH_BUDGET
    /\ last_rd \in RegIndex /\ last_mem_off \in Nat /\ last_was_sw \in BOOLEAN

\* A generated program with its HALT fits instruction memory, whatever length is asked
\* for: load_program drops what does not fit, and with it the HALT.
FitsImem == Len(prog) <= IMEM_WORDS

\* A generated program only runs forward and never jumps past its HALT: no draw of
\* operands makes a redirect land before itself or behind the end, where the reference
\* model stops for good while the pipeline wraps around.
RunsForward == [][ref.steps' > ref.steps => /\ ref.pc' > ref.pc
                                            /\ ref.pc' <= 4 * (Len(prog) - 1)]_vars

\* So it reaches HALT, after no more instructions than it has, and the budget of eight
\* cycles a word cannot be what ends it.
ReachesHalt == <>(phase = "done" /\ ref.steps < Len(prog))

\* GenConfig::p_stl_pattern: "probability SW is followed by LW at same address".  After
\* a store, the operands a load may be given include that store's offset from x0.
StoreToLoadPossible ==
    ConstrainedOpen /\ last_was_sw => <<0, last_mem_off>> \in LoadOperands
=============================================================================
