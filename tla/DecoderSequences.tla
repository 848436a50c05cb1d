-------------------------- MODULE DecoderSequences --------------------------
(***************************************************************************)
(* cpp_tb/decoder/decoder_sequence.h.  generate() returns a list of        *)
(* transactions drawn from a random number generator; here a transaction   *)
(* is the set of instructions it may turn out to be, and a sequence is a    *)
(* list of such sets.  A sequence built by a loop over `repeats` is given   *)
(* by the list of one round.                                               *)
(***************************************************************************)
EXTENDS DecoderCoverage, SequencesExt

CONSTANTS
    R5,              \* what r5(rng) may draw, of 1 .. 31
    RANDOM_REGS,     \* what random_reg may draw, of 0 .. 31
    IMM12S,          \* what random_imm12 may draw, of -2048 .. 2047
    B_OFFSETS,       \* what random_b_offset may draw
    J_OFFSETS,       \* what random_j_offset may draw
    SHAMTS,          \* what a random shift amount may be, of 0 .. 31
    RANDOM_CLASSES   \* the classes make_random picks from

ASSUME DrawAssumption ==
    /\ R5 \subseteq 1 .. 31 /\ RANDOM_REGS \subseteq RegIndex /\ SHAMTS \subseteq 0 .. 31
    /\ IMM12S \cup B_OFFSETS \cup J_OFFSETS \subseteq Int
    /\ \A imm \in IMM12S : -2048 <= imm /\ imm <= 2047
    /\ \A off \in B_OFFSETS : -4096 <= off /\ off <= 4094
    /\ \A off \in J_OFFSETS : J_MIN <= off /\ off <= J_MAX
    /\ RANDOM_CLASSES \subseteq InstrClasses

\* The lists F yields for the elements of s, one after the other.
ForEach(s, F(_)) == FlattenSeq([k \in DOMAIN s |-> F(s[k])])

\* Transactions without a random part.
Exactly(s) == [k \in DOMAIN s |-> {s[k]}]

-----------------------------------------------------------------------------
(* detail::make_*: one random transaction of a class.                       *)

Funct3Of(op) ==
    CASE op \in {"ADD", "SUB"} -> 0 [] op = "SLL" -> 1 [] op = "SLT" -> 2 [] op = "SLTU" -> 3
      [] op = "XOR" -> 4 [] op \in {"SRL", "SRA"} -> 5 [] op = "OR" -> 6 [] op = "AND" -> 7

Funct7Of(op) == IF op \in {"SUB", "SRA"} THEN 32 ELSE 0

make_r(op) ==
    { encode_r(Funct7Of(op), rs2, rs1, Funct3Of(op), rd) :
        rs1 \in RANDOM_REGS, rs2 \in RANDOM_REGS, rd \in RANDOM_REGS }

make_i(op) ==
    IF op \in {"SLL", "SRL", "SRA"}
    THEN { encode_i_shift(Funct7Of(op), Funct3Of(op), rd, rs1, sh) :
             rd \in RANDOM_REGS, rs1 \in RANDOM_REGS, sh \in SHAMTS }
    ELSE { encode_i(I_TYPE, Funct3Of(op), rd, rs1, imm) :
             rd \in RANDOM_REGS, rs1 \in RANDOM_REGS, imm \in IMM12S }

make_load  == { encode_i(LOAD, 2, rd, rs1, imm) : rd \in RANDOM_REGS, rs1 \in RANDOM_REGS, imm \in IMM12S }
make_store == { encode_s(rs1, rs2, imm) : rs1 \in RANDOM_REGS, rs2 \in RANDOM_REGS, imm \in IMM12S }
make_branch(f3) ==
    { encode_b(rs1, rs2, f3, off) : rs1 \in RANDOM_REGS, rs2 \in RANDOM_REGS, off \in B_OFFSETS }
make_jal   == { encode_j(rd, off) : rd \in RANDOM_REGS, off \in J_OFFSETS }

make_class(cls) ==
    CASE cls \in RClasses -> make_r(cls[2])
      [] cls \in IClasses -> make_i(cls[2])
      [] cls = LW         -> make_load
      [] cls = SW         -> make_store
      [] cls = BEQ        -> make_branch(0)
      [] cls = BNE        -> make_branch(1)
      [] cls = J          -> make_jal

make_random == UNION { make_class(cls) : cls \in RANDOM_CLASSES }

-----------------------------------------------------------------------------
(* The scripted sequences.                                                  *)

\* <<funct7, funct3>> of the ten R-type operations, in the order of the code.
R_ENCODINGS == << <<0, 0>>, <<32, 0>>, <<0, 7>>, <<0, 6>>, <<0, 4>>, <<0, 2>>, <<0, 3>>, <<0, 1>>,
                  <<0, 5>>, <<32, 5>> >>

\* funct3 of ADDI, SLTI, SLTIU, XORI, ORI and ANDI.
I_FUNCT3 == <<0, 2, 3, 4, 6, 7>>

\* The immediates and the branch offsets of the directed sequence.
DIRECTED_IMMS    == <<0, 1, -1, 2047, -2048>>
DIRECTED_OFFSETS == <<0, 2, -2, 4094, -4096>>

Directed == Exactly(
    ForEach(R_ENCODINGS, LAMBDA e : << encode_r(e[1], 0, 0, e[2], 0) >>)
    \o << encode_r(0, 11, 10, 0, 10), encode_r(32, 11, 10, 0, 5),
          encode_r(0, 11, 10, 5, 5), encode_r(32, 11, 10, 5, 5) >>
    \o ForEach(I_FUNCT3, LAMBDA f3 :
         [k \in 1 .. 5 |-> encode_i(I_TYPE, f3, 10, 11, DIRECTED_IMMS[k])]
         \o << encode_i(I_TYPE, f3, 0, 0, 0) >>)
    \o ForEach(<< <<0, 1>>, <<0, 5>>, <<32, 5>> >>, LAMBDA e :
         [k \in 1 .. 3 |-> encode_i_shift(e[1], e[2], 10, 11, <<0, 1, 31>>[k])])
    \o [k \in 1 .. 5 |-> encode_i(LOAD, 2, 10, 11, DIRECTED_IMMS[k])]
    \o << encode_i(LOAD, 2, 0, 0, 0) >>
    \o [k \in 1 .. 5 |-> encode_s(11, 10, DIRECTED_IMMS[k])]
    \o << encode_s(0, 0, 0) >>
    \o [k \in 1 .. 5 |-> encode_b(10, 11, 0, DIRECTED_OFFSETS[k])]
    \o << encode_b(10, 11, 1, 2), encode_b(10, 11, 1, -2), encode_b(0, 0, 0, 2),
          encode_j(1, 2), encode_j(1, -2), encode_j(0, 2), encode_j(1, J_MAX), encode_j(1, J_MIN) >>)

\* Three registers, each drawn by r5.
Draw3(F(_, _, _)) == { F(a, b, c) : a \in R5, b \in R5, c \in R5 }
Draw2(F(_, _))    == { F(a, b) : a \in R5, b \in R5 }

\* Faulty: bit 30 among the undefined funct7 of a shift.
BAD_SHIFT_F7_Bit30 == <<2, 4, 8, 16, 96>>
BAD_SHIFT_F7 == <<2, 4, 8, 16, 64>>

\* Faulty: no unknown opcode.
UNKNOWN_OPCODES_Known == <<3, 35, 99>>
UNKNOWN_OPCODES == <<0, 5, 16, 23, 31, 55, 63, 127>>

IllegalEncoding ==
    ForEach(UNKNOWN_OPCODES, LAMBDA op : << Draw3(LAMBDA a, b, c : Encoded(0, c, b, 0, a, op)) >>)
    \o ForEach(<<1, 2, 4, 8, 64, 127>>, LAMBDA f7 :
         [k \in 1 .. 8 |-> Draw3(LAMBDA a, b, c : encode_r(f7, a, b, k - 1, c))])
    \o ForEach(<<1, 2, 3, 4, 6, 7>>, LAMBDA f3 : << Draw3(LAMBDA a, b, c : encode_r(32, a, b, f3, c)) >>)
    \o ForEach(BAD_SHIFT_F7, LAMBDA f7 :
         << Draw3(LAMBDA a, b, c : encode_i_shift(f7, 1, a, b, c)),
            Draw3(LAMBDA a, b, c : encode_i_shift(f7, 5, a, b, c)) >>)
    \o ForEach(<<0, 1, 3, 4, 5, 6, 7>>, LAMBDA f3 : << Draw2(LAMBDA a, b : encode_i(LOAD, f3, a, b, 0)) >>)
    \o ForEach(<<2, 3, 4, 5, 6, 7>>, LAMBDA f3 : << Draw2(LAMBDA a, b : encode_b(a, b, f3, 8)) >>)

\* The immediates of the boundary sequence: the extremes and what is next to zero.
I_BOUNDARY == <<-2048, -1, 0, 1, 2047>>
B_BOUNDARY == <<-4096, -2, 0, 2, 4094>>
J_BOUNDARY == <<J_MIN, -2, 0, 2, J_MAX>>

BoundaryImm ==
    ForEach(I_FUNCT3, LAMBDA f3 :
        ForEach(I_BOUNDARY, LAMBDA imm : << Draw2(LAMBDA a, b : encode_i(I_TYPE, f3, a, b, imm)) >>))
    \o ForEach(<<0, 1, 31>>, LAMBDA sh :
         ForEach(<< <<0, 1>>, <<0, 5>>, <<32, 5>> >>, LAMBDA e :
           << Draw2(LAMBDA a, b : encode_i_shift(e[1], e[2], a, b, sh)) >>))
    \o ForEach(I_BOUNDARY, LAMBDA imm : << Draw2(LAMBDA a, b : encode_i(LOAD, 2, a, b, imm)) >>)
    \o ForEach(I_BOUNDARY, LAMBDA imm : << Draw2(LAMBDA a, b : encode_s(a, b, imm)) >>)
    \o ForEach(B_BOUNDARY, LAMBDA off :
         << Draw2(LAMBDA a, b : encode_b(a, b, 0, off)), Draw2(LAMBDA a, b : encode_b(a, b, 1, off)) >>)
    \o ForEach(J_BOUNDARY, LAMBDA off : << { encode_j(a, off) : a \in R5 } >>)

\* Faulty: the mask applied to a copy that is not sent.
Cleared_Copy(S, field) == S

\* Random, then with one register after the other overwritten with x0.
Cleared(S, field) == { [i EXCEPT ![field] = 0] : i \in S }

RegisterZero ==
    ForEach(<<"ADD", "SUB", "AND", "OR", "XOR", "SLT", "SLTU", "SLL", "SRL", "SRA">>, LAMBDA op :
        << make_r(op), Cleared(make_r(op), "rd"), Cleared(make_r(op), "rs1"), Cleared(make_r(op), "rs2") >>)
    \o ForEach(<<"ADD", "SLT", "SLTU", "XOR", "OR", "AND", "SLL", "SRL", "SRA">>, LAMBDA op :
        << make_i(op), Cleared(make_i(op), "rd"), Cleared(make_i(op), "rs1") >>)
    \o << { encode_i(LOAD, 2, 0, a, 0) : a \in R5 }, { encode_i(LOAD, 2, a, 0, 0) : a \in R5 },
          { encode_s(0, a, 0) : a \in R5 }, { encode_s(a, 0, 0) : a \in R5 },
          { encode_b(0, a, 0, 8) : a \in R5 }, { encode_b(a, 0, 0, 8) : a \in R5 },
          { encode_b(0, a, 1, 8) : a \in R5 }, { encode_j(0, 8) } >>

RTypeFunct7 ==
    ForEach(<<0, 1, 2, 3, 4, 5, 6, 7>>, LAMBDA f3 :
        << Draw3(LAMBDA a, b, c : encode_r(0, a, b, f3, c)),
           Draw3(LAMBDA a, b, c : encode_r(32, a, b, f3, c)) >>)

\* The random sequences.  FullSweep only takes kNumInstrClasses random ones.
BiasedRandom == << make_r("ADD") \cup make_i("ADD") \cup make_load \cup make_random >>
RandomStress == << make_random >>
FullSweep    == [k \in 1 .. 24 |-> make_random]

Round(name) ==
    CASE name = "directed"    -> Directed
      [] name = "illegal"     -> IllegalEncoding
      [] name = "boundary"    -> BoundaryImm
      [] name = "regzero"     -> RegisterZero
      [] name = "rtype_f7"    -> RTypeFunct7
      [] name = "biased"      -> BiasedRandom
      [] name = "stress"      -> RandomStress
      [] name = "full_sweep"  -> FullSweep

SequenceNames == {"directed", "illegal", "boundary", "regzero", "rtype_f7", "biased", "stress", "full_sweep"}
-----------------------------------------------------------------------------
(* CoverageDrivenSequence: the transaction meant to land in a weak bin.     *)

\* I_ADDI + f3 as an instruction class: the table has no gaps where funct3 has,
\* and what lies past ANDI is encoded like ADDI.
FromAddi(f3) == IF f3 < Len(I_FUNCT3) THEN I_FUNCT3[f3 + 1] ELSE 0

\* The immediates drawn for a bin.  A general bin draws from the whole range
\* between the extremes; its two ends stand for the rest.
BoundaryImms(ib, range) ==
    CASE ib = "NEG_MIN"     -> {range[1]}
      [] ib = "NEG_ONE"     -> {-1}
      [] ib = "NEG_GENERAL" -> {range[1] + 1, -2}
      [] ib = "ZERO"        -> {0}
      [] ib = "POS_ONE"     -> {1}
      [] ib = "POS_GENERAL" -> {2, range[2] - 1}
      [] ib = "POS_MAX"     -> {range[2]}

synthesize_with_imm(cls, imm) ==
    CASE cls \in {I_TYPE} \X {"ADD", "SLT", "SLTU", "XOR", "OR", "AND"} ->
              Draw2(LAMBDA a, b : encode_i(I_TYPE, Funct3Of(cls[2]), a, b, imm))
      [] cls = LW  -> Draw2(LAMBDA a, b : encode_i(LOAD, 2, a, b, imm))
      [] cls = SW  -> Draw2(LAMBDA a, b : encode_s(a, b, imm))
      [] cls = BEQ -> Draw2(LAMBDA a, b : encode_b(a, b, 0, imm))
      [] cls = BNE -> Draw2(LAMBDA a, b : encode_b(a, b, 1, imm))
      [] cls = J   -> { encode_j(a, imm) : a \in R5 }
      [] OTHER     -> make_random

\* Faulty: the funct7 of the bin forgotten.
AltFunct7_Never(f7c) == 0
AltFunct7(f7c) == IF f7c = "ALT_20" THEN 32 ELSE 0

synthesize(b) ==
    CASE b[1] = "rtype_f3"       -> Draw3(LAMBDA x, y, z : encode_r(0, x, y, b[2], z))
      [] b[1] = "rtype_f3_f7"    -> Draw3(LAMBDA x, y, z : encode_r(AltFunct7(b[3]), x, y, b[2], z))
      [] b[1] = "itype_f3"       -> IF b[2] \in {1, 5}
                                    THEN Draw3(LAMBDA x, y, z : encode_i_shift(0, b[2], x, y, z))
                                    ELSE Draw2(LAMBDA x, y : encode_i(I_TYPE, FromAddi(b[2]), x, y, 0))
      [] b[1] = "itype_shift_f7" -> Draw3(LAMBDA x, y, z : encode_i_shift(AltFunct7(b[3]), 5, x, y, z))
      [] b[1] = "load_f3"        -> make_load
      [] b[1] = "store_f3"       -> make_store
      [] b[1] = "branch_f3"      -> make_branch(b[2])
      [] b[1] = "jal_hit"        -> make_jal
      [] b[1] = "imm_boundary"   -> UNION { synthesize_with_imm(b[2], imm) :
                                              imm \in BoundaryImms(b[3], imm_range(b[2])) }
=============================================================================
