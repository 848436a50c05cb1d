--------------------------- MODULE DecoderCoverage ---------------------------
(***************************************************************************)
(* cpp_tb/decoder/decoder_coverage.h.  A bin is a tuple: the name of the    *)
(* counter array and the indices into it.  What sample(tx) increments is a *)
(* set of bins, and the counters are a function from Bins.                 *)
(***************************************************************************)
EXTENDS DecoderGolden, Sequences

(* Instruction classes: <<opcode, operation>>, << >> for the unknown ones.  *)

NUM_CLASSES == << >>

RClasses == {R_TYPE} \X AluOp
IClasses == {I_TYPE} \X (AluOp \ {"SUB"})
LW  == <<LOAD, "LW">>
SW  == <<STORE, "SW">>
BEQ == <<BRANCH, "BEQ">>
BNE == <<BRANCH, "BNE">>
J   == <<JAL, "JAL">>
ImmClasses   == IClasses \cup {LW, SW, BEQ, BNE, J}
InstrClasses == RClasses \cup ImmClasses

Class(i) ==
    CASE i.opcode = R_TYPE -> <<R_TYPE, golden_r_op(i)>>
      [] i.opcode = I_TYPE -> <<I_TYPE, golden_i_op(i)>>
      [] i.opcode = LOAD   -> LW
      [] i.opcode = STORE  -> SW
      [] i.opcode = BRANCH -> IF i.funct3 % 2 = 1 THEN BNE ELSE BEQ
      [] i.opcode = JAL    -> J
      [] OTHER             -> NUM_CLASSES

-----------------------------------------------------------------------------
(* Bins of funct7, of immediates and of illegal encodings.                  *)

Funct7Class == {"ZERO", "ALT_20", "OTHER"}

classify_funct7(f7) == CASE f7 = 0 -> "ZERO" [] f7 = 32 -> "ALT_20" [] OTHER -> "OTHER"

ImmBoundary == {"NEG_MIN", "NEG_GENERAL", "NEG_ONE", "ZERO", "POS_ONE", "POS_GENERAL", "POS_MAX"}

\* The lowest and the highest offset of JAL.
J_MIN == -1048576
J_MAX == 1048574

imm_range(cls) ==
    CASE cls \in {BEQ, BNE}                                 -> <<-4096, 4094>>
      [] cls = J                                            -> <<J_MIN, J_MAX>>
      [] cls \in {<<I_TYPE, "SLL">>, <<I_TYPE, "SRL">>}     -> <<0, 31>>
      [] cls = <<I_TYPE, "SRA">>                            -> <<1024, 1055>>
      [] OTHER                                              -> <<-2048, 2047>>

\* The minimum is tested first: a shift by 0 is NEG_MIN.
classify_imm_boundary(v, range) ==
    CASE v = range[1] -> "NEG_MIN"
      [] v # range[1] /\ v = -1 -> "NEG_ONE"
      [] v # range[1] /\ v < -1 -> "NEG_GENERAL"
      [] v # range[1] /\ v = 0  -> "ZERO"
      [] v # range[1] /\ v = 1  -> "POS_ONE"
      [] v > 1 /\ v = range[2]  -> "POS_MAX"
      [] OTHER                  -> "POS_GENERAL"

IllegalKind == {"UNKNOWN_OPCODE", "RTYPE_BAD_F7", "RTYPE_RESERVED_F3F7", "ISHIFT_BAD_F7",
                "LOAD_BAD_F3", "BRANCH_BAD_F3"}

\* funct7 & 0x7D: every bit but bit 1.
illegal_kinds(i) ==
    {k \in IllegalKind :
       CASE k = "UNKNOWN_OPCODE"      -> i.opcode \notin Opcodes
         [] k = "RTYPE_BAD_F7"        -> i.opcode = R_TYPE /\ classify_funct7(i.funct7) = "OTHER"
         [] k = "RTYPE_RESERVED_F3F7" -> i.opcode = R_TYPE /\ i.funct7 = 32 /\ i.funct3 \notin {0, 5}
         [] k = "ISHIFT_BAD_F7"       -> i.opcode = I_TYPE /\ i.funct3 \in {1, 5} /\ i.funct7 \notin {0, 2}
         [] k = "LOAD_BAD_F3"         -> i.opcode = LOAD /\ i.funct3 # 2
         [] k = "BRANCH_BAD_F3"       -> i.opcode = BRANCH /\ i.funct3 > 1}

kValidCtrlPatterns ==
    { {"reg_write"}, {"reg_write", "alu_src"}, {"reg_write", "alu_src", "mem_read", "mem_to_reg"},
      {"alu_src", "mem_write"}, {"branch"}, {"reg_write", "alu_src", "jump"} }
-----------------------------------------------------------------------------
(* The bins of groups A to G, and those one transaction increments.         *)

Funct3Bins == {"rtype_f3", "itype_f3", "load_f3", "store_f3", "branch_f3"} \X (0 .. 7)
JalBin     == <<"jal_hit">>
RtypeBins  == {"rtype_f3_f7"} \X (0 .. 7) \X Funct7Class
ShiftBins  == {"itype_shift_f7"} \X {1, 5} \X Funct7Class
ImmBins    == {"imm_boundary"} \X ImmClasses \X ImmBoundary
ZeroBins   == {"rs1", "rs2", "rd"} \X InstrClasses
IllegalBins == {"illegal_hits"} \X IllegalKind
CtrlBins   == {"ctrl_combos"} \X (kValidCtrlPatterns \cup {{}})

Bins == Funct3Bins \cup {JalBin} \cup RtypeBins \cup ShiftBins \cup ImmBins \cup ZeroBins
          \cup IllegalBins \cup CtrlBins

Funct3Bin(i) ==
    CASE i.opcode = R_TYPE -> {<<"rtype_f3", i.funct3>>}
      [] i.opcode = I_TYPE -> {<<"itype_f3", i.funct3>>}
      [] i.opcode = LOAD   -> {<<"load_f3", i.funct3>>}
      [] i.opcode = STORE  -> {<<"store_f3", i.funct3>>}
      [] i.opcode = BRANCH -> {<<"branch_f3", i.funct3>>}
      [] i.opcode = JAL    -> {JalBin}
      [] OTHER             -> {}

ImmBin(i) ==
    {<<"imm_boundary", cls, classify_imm_boundary(Signed(golden_decode(i).imm), imm_range(cls))>> :
        cls \in {Class(i)} \cap ImmClasses}

sample_bins(i) ==
    Funct3Bin(i)
    \cup { <<"rtype_f3_f7", i.funct3, classify_funct7(i.funct7)>> : r \in {R_TYPE} \cap {i.opcode} }
    \cup { <<"itype_shift_f7", i.funct3, classify_funct7(i.funct7)>> :
             f3 \in {f \in {1, 5} : i.opcode = I_TYPE /\ i.funct3 = f} }
    \cup { <<"illegal_hits", k>> : k \in illegal_kinds(i) }
    \cup ImmBin(i)
    \cup { <<f, Class(i)>> : f \in {g \in {"rs1", "rs2", "rd"} : i.opcode \in Opcodes /\ i[g] = 0} }
    \cup { <<"ctrl_combos", Raised(golden_decode(i))>> }
-----------------------------------------------------------------------------
(* Which bins close the coverage model, and how many hits each needs.       *)

is_rtype_legal(f3, f7c) == f7c = "ZERO" \/ (f7c = "ALT_20" /\ f3 \in {0, 5})

is_imm_boundary_reachable(cls, ib) ==
    /\ cls \in {<<I_TYPE, "SLL">>, <<I_TYPE, "SRL">>} => ib \notin {"ZERO", "NEG_GENERAL", "NEG_ONE"}
    /\ cls \in {BEQ, BNE, J} => ib \notin {"NEG_ONE", "POS_ONE"}

LegalFunct3Bins ==
    {"rtype_f3", "itype_f3"} \X (0 .. 7)
      \cup {<<"load_f3", 2>>, <<"store_f3", 2>>, <<"branch_f3", 0>>, <<"branch_f3", 1>>, JalBin}
LegalRtypeBins == {b \in RtypeBins : is_rtype_legal(b[2], b[3])}
LegalShiftBins == {<<"itype_shift_f7", 5, "ZERO">>, <<"itype_shift_f7", 5, "ALT_20">>}

\* SRAI's immediate is not under the user's control, and nothing is asked of it.
LegalImmBins == {b \in ImmBins : b[2] # <<I_TYPE, "SRA">> /\ is_imm_boundary_reachable(b[2], b[3])}

\* The general bins are counted and targeted, but closure does not ask for them.
MandatoryImmBins == {b \in LegalImmBins : b[3] \notin {"NEG_GENERAL", "POS_GENERAL"}}

MandatoryZeroBins ==
    ({"rs1"} \X InstrClasses) \cup ({"rs2"} \X (RClasses \cup {SW, BEQ, BNE}))
      \cup ({"rd"} \X (InstrClasses \ {SW, BEQ, BNE}))

PatternBins == {"ctrl_combos"} \X kValidCtrlPatterns

Mandatory == LegalFunct3Bins \cup LegalRtypeBins \cup LegalShiftBins \cup MandatoryImmBins
               \cup MandatoryZeroBins \cup IllegalBins \cup PatternBins

\* One hit is enough for the extreme immediates and for groups E, F and G.
Need(b, threshold) ==
    IF b \in ZeroBins \cup IllegalBins \cup PatternBins
         \/ (b \in ImmBins /\ b[3] \in {"NEG_MIN", "POS_MAX"})
    THEN 1 ELSE threshold

Short(S, hits, threshold) == {b \in S : hits[b] < Need(b, threshold)}

validate_coverage(hits, threshold) == Short(Mandatory, hits, threshold) = {}

\* The bins the feedback loop may target.
Targetable == LegalFunct3Bins \cup LegalRtypeBins \cup LegalShiftBins \cup LegalImmBins

\* Faulty: bins of other groups given to a loop that cannot aim at them.
get_weak_bins_Mandatory(hits, threshold) == Short(Mandatory, hits, threshold)

get_weak_bins(hits, threshold) == Short(Targetable, hits, threshold)
=============================================================================
