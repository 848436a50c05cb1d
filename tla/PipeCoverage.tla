---------------------------- MODULE PipeCoverage ----------------------------
(***************************************************************************)
(* cpp_tb/pipeline/pipe_coverage.h: the functional coverage model, as      *)
(* operators.  A coverage object is the bag of the bins it has counted and *)
(* the class of the instruction it sampled last.                           *)
(***************************************************************************)
EXTENDS ReferenceModel, Bags

\* pipe_transaction.h.  NOP is ADDI x0, x0, 0 and nothing else.
\* Faulty: the low bit of funct3 masked off.
classify_instr_NoBne(i) ==
    CASE i = [ZeroInstr EXCEPT !.opcode = I_TYPE] -> "NOP"
      [] i.opcode = R_TYPE -> "R_TYPE" [] i.opcode = LOAD -> "LW" [] i.opcode = STORE -> "SW"
      [] i.opcode = I_TYPE /\ i # [ZeroInstr EXCEPT !.opcode = I_TYPE] -> "I_ALU"
      [] i.opcode = BRANCH -> "BEQ" [] i.opcode = JAL -> "JAL" [] OTHER -> "UNKNOWN"

classify_instr(i) ==
    LET IsNop == i = [ZeroInstr EXCEPT !.opcode = I_TYPE]
    IN  CASE IsNop -> "NOP"
          [] i.opcode = R_TYPE -> "R_TYPE"
          [] i.opcode = I_TYPE /\ ~IsNop -> "I_ALU"
          [] i.opcode = LOAD -> "LW"
          [] i.opcode = STORE -> "SW"
          [] i.opcode = BRANCH -> IF i.funct3 = 0 THEN "BEQ" ELSE "BNE"
          [] i.opcode = JAL -> "JAL"
          [] OTHER -> "UNKNOWN"

Classes   == {"R_TYPE", "I_ALU", "LW", "SW", "BEQ", "BNE", "JAL"}
InstrKind == Classes \cup {"NOP", "UNKNOWN"}
Hazards   == {"none", "raw", "load_use"}
Outcomes  == {"taken", "not_taken"}

\* What the coverage model reads of the step the reference model is about to take.
ExecStep(ref, back1, back2) ==
    LET i == ref.imem[ref.pc \div 4]
    IN  [instr   |-> i,
         kind    |-> classify_instr(i),
         hazard  |-> Annotation(i, back1, back2),
         outcome |-> IF BranchDecision(i, ref.regs[i.rs1], ref.regs[i.rs2])
                     THEN "taken" ELSE "not_taken",
         rs1_val |-> ref.regs[i.rs1],
         imm_val |-> CASE i.opcode \in {I_TYPE, LOAD} -> IssSext12(i)
                       [] i.opcode = STORE  -> IssImmS(i)
                       [] i.opcode = BRANCH -> IssImmB(i)
                       [] i.opcode = JAL    -> IssImmJ(i)
                       [] OTHER -> 0]
-----------------------------------------------------------------------------
\* Faulty: a load-use hazard is counted in the RAW column.
hslot_NoLoadUse(s) == IF s.hazard = "load_use" THEN "raw" ELSE s.hazard
hslot(s) == s.hazard

\* The operand and immediate values that are counted, as words.
Rs1Values == [zero |-> 0, neg1 |-> Trunc(-1)]
ImmValues == [zero |-> 0, neg1 |-> Trunc(-1), maxpos |-> 2047, maxneg |-> Trunc(-2048)]

sample_value_classes(s) ==
    { <<"rs1", v>> : v \in {v \in DOMAIN Rs1Values : Rs1Values[v] = s.rs1_val} }
    \cup { <<"imm", v>> : v \in {v \in DOMAIN ImmValues :
                /\ s.kind \in Classes \ {"R_TYPE"}
                /\ ImmValues[v] = s.imm_val} }

\* The bins one step counts in; prev_kind is the class sampled before it.
SampledBins(s, prev_kind) ==
    LET isBranch  == s.kind \in {"BEQ", "BNE"}
        isControl == isBranch \/ s.kind = "JAL"
        When(p, bin) == IF p THEN {bin} ELSE {}
    IN  { <<"instr", s.kind>>, <<"cross", s.kind, hslot(s)>> }
        \cup When(isBranch, <<"branch", s.outcome>>)
        \cup When(isBranch, <<"outcome", s.outcome, hslot(s)>>)
        \cup When(s.hazard # "none", <<"hazard", s.hazard>>)
        \cup When(isControl, <<"hazard", "control">>)
        \cup sample_value_classes(s)
        \cup When(s.instr.rd = 0 /\ s.kind # "NOP", <<"x0", "rd">>)
        \cup When(s.instr.rs1 = 0, <<"x0", "rs1">>)
        \cup When(s.instr.rs2 = 0, <<"x0", "rs2">>)
        \cup When(s.kind = prev_kind /\ s.kind \in Classes, <<"b2b", "same">>)

\* reset, and a new object.
FreshCoverage == [bins |-> EmptyBag, prev_kind |-> "UNKNOWN"]

sample_step(cov, s) ==
    [bins |-> cov.bins (+) SetToBag(SampledBins(s, cov.prev_kind)), prev_kind |-> s.kind]

\* The 24 bins of groups A, B, C, G, H and I.
RequiredBins ==
    { <<"instr", k>> : k \in Classes }
    \cup { <<"branch", o>> : o \in Outcomes }
    \cup { <<"hazard", h>> : h \in {"raw", "load_use", "control"} }
    \cup { <<"cross", k, "raw">> : k \in {"R_TYPE", "BEQ", "BNE"} }
    \cup { <<"cross", "R_TYPE", "load_use">> }
    \cup { <<"outcome", o, "raw">> : o \in Outcomes }
    \cup { <<"rs1", v>> : v \in DOMAIN Rs1Values }
    \cup { <<"imm", v>> : v \in DOMAIN ImmValues }

BinsHit(cov) == { b \in RequiredBins : CopiesIn(b, cov.bins) >= 1 }

\* is_coverage_closed: validate_coverage with threshold 1.
CoverageClosed(cov) == BinsHit(cov) = RequiredBins

\* The number summary() prints, which the stress test reads back.
Summary(cov) == Cardinality(BinsHit(cov))
=============================================================================
