------------------------ MODULE RandomProgramsProofs ------------------------
(***************************************************************************)
(* Theorems about the two random program generators, for every length      *)
(* asked for, every budget, every set of draws and every memory size.      *)
(***************************************************************************)
EXTENDS RandomPrograms, CommonLemmas

-----------------------------------------------------------------------------
(* The encoders make instruction words of anything that is in range.        *)

\* Six fields in range make an instruction.
LEMMA EncodedType ==
    ASSUME NEW f7 \in 0 .. 127, NEW rs2 \in RegIndex, NEW rs1 \in RegIndex, NEW f3 \in 0 .. 7,
           NEW rd \in RegIndex, NEW op \in 0 .. 127
    PROVE  Encoded(f7, rs2, rs1, f3, rd, op) \in Instr
  BY DEF Encoded, Instr

\* A masked field, cut again where the formats cut it, fills the parts it is put in.
LEMMA CutFields ==
    /\ \A n \in Int : n % 4096 \in Nat /\ n % 4096 < 4096
    /\ \A n \in Nat : n < 4096 => n \div 32 \in 0 .. 127 /\ n % 32 \in 0 .. 31
    /\ \A n \in Int : n % 8192 \in Nat /\ n % 8192 < 8192
    /\ \A n \in Nat : n < 8192 => /\ n \div 4096 \in 0 .. 1 /\ (n \div 32) % 64 \in 0 .. 63
                                  /\ (n \div 2) % 16 \in 0 .. 15 /\ (n \div 2048) % 2 \in 0 .. 1
    /\ \A n \in Int : n % 2097152 \in Nat /\ n % 2097152 < 2097152
    /\ \A n \in Nat : n < 2097152 =>
          /\ n \div 1048576 \in 0 .. 1 /\ (n \div 4096) % 256 \in 0 .. 255
          /\ (n \div 2) % 1024 \in 0 .. 1023 /\ (n \div 2048) % 2 \in 0 .. 1
    /\ \A n \in 0 .. 255 : n \div 8 \in 0 .. 31 /\ n % 8 \in 0 .. 7
    /\ \A n \in 0 .. 1023 : n \div 16 \in 0 .. 63 /\ n % 16 \in 0 .. 15
  <1>1. \A n \in Int : n % 4096 \in Nat /\ n % 4096 < 4096
    OBVIOUS
  <1>2. \A n \in Nat : n < 4096 => n \div 32 \in 0 .. 127 /\ n % 32 \in 0 .. 31
    OBVIOUS
  <1>3. \A n \in Int : n % 8192 \in Nat /\ n % 8192 < 8192
    OBVIOUS
  <1>4. \A n \in Nat : n < 8192 => /\ n \div 4096 \in 0 .. 1 /\ (n \div 32) % 64 \in 0 .. 63
                                   /\ (n \div 2) % 16 \in 0 .. 15 /\ (n \div 2048) % 2 \in 0 .. 1
    OBVIOUS
  <1>5. \A n \in Int : n % 2097152 \in Nat /\ n % 2097152 < 2097152
    OBVIOUS
  <1>6. \A n \in Nat : n < 2097152 =>
          /\ n \div 1048576 \in 0 .. 1 /\ (n \div 4096) % 256 \in 0 .. 255
          /\ (n \div 2) % 1024 \in 0 .. 1023 /\ (n \div 2048) % 2 \in 0 .. 1
    OBVIOUS
  <1>7. \A n \in 0 .. 255 : n \div 8 \in 0 .. 31 /\ n % 8 \in 0 .. 7
    OBVIOUS
  <1>8. \A n \in 0 .. 1023 : n \div 16 \in 0 .. 63 /\ n % 16 \in 0 .. 15
    OBVIOUS
  <1>9. QED
    BY <1>1, <1>2, <1>3, <1>4, <1>5, <1>6, <1>7, <1>8

\* Two bit fields side by side are one in range.
LEMMA JoinFields ==
    /\ \A a \in 0 .. 1, b \in 0 .. 63 : a * 64 + b \in 0 .. 127
    /\ \A a \in 0 .. 15, b \in 0 .. 1 : a * 2 + b \in 0 .. 31
  OBVIOUS

\* The encoders with an immediate cut any integer into fields in range.
LEMMA EncoderTypes ==
    ASSUME NEW n \in Int, NEW rs2 \in RegIndex, NEW rs1 \in RegIndex, NEW f3 \in 0 .. 7,
           NEW rd \in RegIndex, NEW op \in 0 .. 127
    PROVE  /\ enc_I(n, rs1, f3, rd, op) \in Instr
           /\ enc_S(n, rs2, rs1, f3, op) \in Instr
           /\ enc_B(n, rs2, rs1, f3) \in Instr
           /\ enc_J(n, rd) \in Instr
  <1>1. ASSUME NEW m \in Nat, m < 4096
        PROVE  /\ Encoded(m \div 32, m % 32, rs1, f3, rd, op) \in Instr
               /\ Encoded(m \div 32, rs2, rs1, f3, m % 32, op) \in Instr
    <2>1. m \div 32 \in 0 .. 127 /\ m % 32 \in RegIndex
      BY <1>1, CutFields, SMT DEF RegIndex
    <2>2. QED
      BY <2>1, EncodedType, Zenon
  <1>2. n % 4096 \in Nat /\ n % 4096 < 4096
    BY CutFields, SMT
  <1>3. BRANCH \in 0 .. 127 /\ JAL \in 0 .. 127
    BY DEF BRANCH, JAL
  <1>4. ASSUME NEW m \in Nat, m < 8192
        PROVE  Encoded((m \div 4096) * 64 + ((m \div 32) % 64), rs2, rs1, f3,
                       ((m \div 2) % 16) * 2 + ((m \div 2048) % 2), BRANCH) \in Instr
    <2> DEFINE f7 == (m \div 4096) * 64 + ((m \div 32) % 64)
               r  == ((m \div 2) % 16) * 2 + ((m \div 2048) % 2)
    <2>1. f7 \in 0 .. 127 /\ r \in RegIndex
      BY <1>4, CutFields, JoinFields, SMT DEF RegIndex
    <2> HIDE DEF f7, r
    <2>2. Encoded(f7, rs2, rs1, f3, r, BRANCH) \in Instr
      BY <1>3, <2>1, EncodedType, Zenon
    <2>3. QED
      BY <2>2, SMT DEF f7, r
  <1>5. n % 8192 \in Nat /\ n % 8192 < 8192
    BY CutFields, SMT
  <1>6. ASSUME NEW m \in Nat, m < 2097152
        PROVE  Encoded((m \div 1048576) * 64 + (((m \div 2) % 1024) \div 16),
                       (((m \div 2) % 1024) % 16) * 2 + ((m \div 2048) % 2),
                       ((m \div 4096) % 256) \div 8, ((m \div 4096) % 256) % 8, rd, JAL) \in Instr
    <2> DEFINE b19_12 == (m \div 4096) % 256
               b10_1  == (m \div 2) % 1024
               b20 == m \div 1048576
               b11 == (m \div 2048) % 2
               f7 == b20 * 64 + (b10_1 \div 16)
               r2 == (b10_1 % 16) * 2 + b11
    <2>1. b20 \in 0 .. 1 /\ b19_12 \in 0 .. 255 /\ b10_1 \in 0 .. 1023 /\ b11 \in 0 .. 1
      BY <1>6, CutFields, SMT
    <2> HIDE DEF b19_12, b10_1, b20, b11
    <2>2. /\ b10_1 \div 16 \in 0 .. 63 /\ b10_1 % 16 \in 0 .. 15
          /\ b19_12 \div 8 \in RegIndex /\ b19_12 % 8 \in 0 .. 7
      BY <2>1, CutFields, SMT DEF RegIndex
    <2>3. f7 \in 0 .. 127 /\ r2 \in RegIndex
      BY <2>1, <2>2, JoinFields, ZenonT(60) DEF RegIndex
    <2> HIDE DEF f7, r2
    <2>4. Encoded(f7, r2, b19_12 \div 8, b19_12 % 8, rd, JAL) \in Instr
      BY <1>3, <2>2, <2>3, EncodedType, Zenon
    <2>5. QED
      BY <2>4, SMT DEF f7, r2, b20, b19_12, b11, b10_1
  <1>7. n % 2097152 \in Nat /\ n % 2097152 < 2097152
    BY CutFields, SMT
  <1>8. enc_I(n, rs1, f3, rd, op) \in Instr /\ enc_S(n, rs2, rs1, f3, op) \in Instr
    BY <1>1, <1>2, SMT DEF enc_I, enc_S
  <1>9. enc_B(n, rs2, rs1, f3) \in Instr
    BY <1>4, <1>5, SMT DEF enc_B
  <1>10. enc_J(n, rd) \in Instr
    BY <1>6, <1>7, SMT DEF enc_J
  <1>11. QED
    BY <1>8, <1>9, <1>10

-----------------------------------------------------------------------------
(* Where an instruction of a generated program leads.                       *)

\* To the next one.
Straight == {i \in Instr : i.opcode \in {R_TYPE, I_TYPE, LOAD, STORE}}

\* To the next one or past it.
Skipping == {i \in Instr : \/ i.opcode = BRANCH /\ IssImmB(i) = 8
                           \/ i.opcode = JAL /\ IssImmJ(i) = 8}

\* What the encoders put in for a skip, the reference model reads as 8 bytes.
LEMMA SkipImmediates ==
    ASSUME NEW f3, NEW rs1, NEW rs2, NEW rd
    PROVE  /\ enc_B(SKIP, rs2, rs1, f3).opcode = BRANCH /\ IssImmB(enc_B(SKIP, rs2, rs1, f3)) = 8
           /\ enc_J(SKIP, rd).opcode = JAL /\ IssImmJ(enc_J(SKIP, rd)) = 8
  <1>1. Trunc(8) = 8
    BY WordFacts DEF Trunc
  <1>2. /\ 8 % 8192 = 8 /\ 8 % 2097152 = 8
        /\ (8 \div 4096) * 64 + ((8 \div 32) % 64) = 0 /\ ((8 \div 2) % 16) * 2 + ((8 \div 2048) % 2) = 8
        /\ (8 \div 1048576) * 64 + (((8 \div 2) % 1024) \div 16) = 0
        /\ (((8 \div 2) % 1024) % 16) * 2 + ((8 \div 2048) % 2) = 8
        /\ ((8 \div 4096) % 256) \div 8 = 0 /\ ((8 \div 4096) % 256) % 8 = 0
    BY SMT
  <1>3. enc_B(SKIP, rs2, rs1, f3) = Encoded(0, rs2, rs1, f3, 8, BRANCH)
    BY <1>2, SMT DEF enc_B, SKIP
  <1>4. enc_J(SKIP, rd) = Encoded(0, 8, 0, 0, rd, JAL)
    BY <1>2, SMT DEF enc_J, SKIP
  <1>5. /\ 0 \div 64 = 0 /\ (8 % 2) * 2048 + (0 % 64) * 32 + (8 \div 2) * 2 - 0 * 4096 = 8
        /\ (0 * 8 + 0) * 4096 + (8 % 2) * 2048 + (0 % 64) * 32 + (8 \div 2) * 2 - 0 * 1048576 = 8
    BY SMT
  <1>6. IssImmB(Encoded(0, rs2, rs1, f3, 8, BRANCH)) = 8
    BY <1>1, <1>5, SMT DEF IssImmB, SignBit, Encoded
  <1>7. IssImmJ(Encoded(0, 8, 0, 0, rd, JAL)) = 8
    BY <1>1, <1>5, SMT DEF IssImmJ, SignBit, Encoded
  <1>8. /\ Encoded(0, rs2, rs1, f3, 8, BRANCH).opcode = BRANCH
        /\ Encoded(0, 8, 0, 0, rd, JAL).opcode = JAL
    BY DEF Encoded
  <1>9. QED
    BY <1>3, <1>4, <1>6, <1>7, <1>8

\* What the builders the generators call make.
LEMMA BuilderTypes ==
    ASSUME NEW rd \in RegIndex, NEW rs1 \in RegIndex, NEW rs2 \in RegIndex, NEW n \in Int,
           NEW f7 \in 0 .. 127, NEW f3 \in 0 .. 7
    PROVE  /\ enc_R(f7, rs2, rs1, f3, rd, R_TYPE) \in Straight
           /\ Addi(rd, rs1, n) \in Straight /\ Lw(rd, rs1, n) \in Straight
           /\ Sw(rs2, rs1, n) \in Straight
           /\ Beq(rs1, rs2, SKIP) \in Skipping /\ Bne(rs1, rs2, SKIP) \in Skipping
           /\ Jal(rd, SKIP) \in Skipping
  <1>1. /\ R_TYPE \in 0 .. 127 /\ I_TYPE \in 0 .. 127 /\ LOAD \in 0 .. 127 /\ STORE \in 0 .. 127
        /\ 0 \in 0 .. 7 /\ 1 \in 0 .. 7 /\ 2 \in 0 .. 7
    BY DEF R_TYPE, I_TYPE, LOAD, STORE
  <1>2. enc_R(f7, rs2, rs1, f3, rd, R_TYPE) \in Instr
    BY <1>1, EncodedType, Zenon DEF enc_R
  <1>3. Addi(rd, rs1, n) \in Instr /\ Lw(rd, rs1, n) \in Instr /\ Sw(rs2, rs1, n) \in Instr
    BY <1>1, EncoderTypes, ZenonT(60) DEF Addi, Lw, Sw
  <1>4. SKIP \in Int
    BY DEF SKIP
  <1>5. Beq(rs1, rs2, SKIP) \in Instr /\ Bne(rs1, rs2, SKIP) \in Instr /\ Jal(rd, SKIP) \in Instr
    BY <1>1, <1>4, EncoderTypes, ZenonT(60) DEF Beq, Bne, Jal
  <1>6. /\ enc_R(f7, rs2, rs1, f3, rd, R_TYPE).opcode = R_TYPE
        /\ Addi(rd, rs1, n).opcode = I_TYPE /\ Lw(rd, rs1, n).opcode = LOAD
        /\ Sw(rs2, rs1, n).opcode = STORE
    BY DEF enc_R, enc_I, enc_S, Addi, Lw, Sw, Encoded
  <1>7. /\ Beq(rs1, rs2, SKIP) \in Skipping /\ Bne(rs1, rs2, SKIP) \in Skipping
        /\ Jal(rd, SKIP) \in Skipping
    BY <1>5, SkipImmediates, Zenon DEF Skipping, Beq, Bne, Jal
  <1>8. QED
    BY <1>2, <1>3, <1>6, <1>7 DEF Straight

\* The literals of the generators.
LEMMA FixedInstrTypes == NOP \in Straight /\ Halt \in Instr /\ Halt = HALT
  <1>1. 0 \in RegIndex /\ 0 \in Int /\ 0 \in 0 .. 7 /\ I_TYPE \in 0 .. 127
    BY DEF RegIndex, I_TYPE
  <1>2. NOP \in Instr /\ Halt \in Instr
    BY <1>1, EncoderTypes, ZenonT(60) DEF NOP, Halt
  <1>3. NOP.opcode = I_TYPE
    BY DEF NOP, enc_I, Encoded
  <1>4. /\ 0 % 2097152 = 0 /\ (0 \div 1048576) * 64 + (((0 \div 2) % 1024) \div 16) = 0
        /\ (((0 \div 2) % 1024) % 16) * 2 + ((0 \div 2048) % 2) = 0
        /\ ((0 \div 4096) % 256) \div 8 = 0 /\ ((0 \div 4096) % 256) % 8 = 0
    BY SMT
  <1>5. Halt = Encoded(0, 0, 0, 0, 0, JAL)
    BY <1>4, SMT DEF Halt, enc_J
  <1>6. QED
    BY <1>2, <1>3, <1>5 DEF Straight, Encoded, HALT

\* What the random engine may return.
LEMMA DrawTypes ==
    /\ REGS \subseteq RegIndex /\ 0 \in RegIndex
    /\ IMMS \subseteq Int /\ OFFSETS \subseteq Nat /\ OFFSETS \subseteq Int /\ SKIP \in Int
  <1>1. \A k \in 0 .. 15 : 4 * k \in Nat /\ 4 * k \in Int
    OBVIOUS
  <1>2. OFFSETS \subseteq Nat /\ OFFSETS \subseteq Int
    BY <1>1, GeneratorAssumption, SMT
  <1>3. \A n : n \in -2048 .. 2047 => n \in Int
    OBVIOUS
  <1>4. IMMS \subseteq Int
    BY <1>3, GeneratorAssumption, SMT
  <1>5. 0 \in RegIndex /\ SKIP \in Int
    BY DEF RegIndex, SKIP
  <1>6. QED
    BY <1>2, <1>4, <1>5, GeneratorAssumption

\* The fixed beginnings: eight straight instructions each.
LEMMA SeedTypes ==
    /\ RandomSeeds \in Seq(Straight) /\ Len(RandomSeeds) = 8
    /\ ConstrainedSeeds \in Seq(Straight) /\ Len(ConstrainedSeeds) = 8
  <1>1. ASSUME NEW r \in 0 .. 31, NEW n \in Int PROVE Addi(r, 0, n) \in Straight
    <2>1. r \in RegIndex /\ 0 \in RegIndex /\ 0 \in 0 .. 127 /\ 0 \in 0 .. 7
      BY DEF RegIndex
    <2>2. QED
      BY <2>1, BuilderTypes, Zenon
  <1>2. RandomSeeds \in Seq(Straight) /\ Len(RandomSeeds) = 8
    <2>1. \A r \in 1 .. 8 : r \in 0 .. 31 /\ 3 * r \in Int
      OBVIOUS
    <2>2. RandomSeeds \in [1 .. 8 -> Straight]
      BY <1>1, <2>1, Zenon DEF RandomSeeds
    <2>3. RandomSeeds \in Seq(Straight)
      BY <2>2, SeqDef
    <2>4. DOMAIN RandomSeeds = 1 .. 8 /\ DOMAIN RandomSeeds = 1 .. Len(RandomSeeds)
      BY <2>2, <2>3, LenProperties
    <2>5. \A n \in Nat : 1 .. n = 1 .. 8 => n = 8
      <3>1. \A n \in Nat : n < 8 => 8 \notin 1 .. n
        OBVIOUS
      <3>2. \A n \in Nat : n > 8 => n \in 1 .. n /\ n \notin 1 .. 8
        OBVIOUS
      <3>3. 8 \in 1 .. 8
        OBVIOUS
      <3>4. QED
        BY <3>1, <3>2, <3>3
    <2>6. QED
      BY <2>3, <2>4, <2>5, LenProperties
  <1>3. ConstrainedSeeds \in Seq(Straight) /\ Len(ConstrainedSeeds) = 8
    <2>1. /\ Addi(1, 0, 0) \in Straight /\ Addi(2, 0, -1) \in Straight /\ Addi(3, 0, 1) \in Straight
          /\ Addi(4, 0, 2047) \in Straight /\ Addi(5, 0, -2048) \in Straight /\ Addi(6, 0, 3) \in Straight
          /\ Addi(7, 0, 5) \in Straight /\ Addi(8, 0, 7) \in Straight
      BY <1>1, SMT
    <2>2. QED
      BY <2>1 DEF ConstrainedSeeds
  <1>4. QED
    BY <1>2, <1>3

-----------------------------------------------------------------------------
(* The slots a turn may append.                                             *)

\* The field values written as literals.
LEMMA Zeros == 0 \in 0 .. 127 /\ 32 \in 0 .. 127 /\ \A n \in 0 .. 7 : n \in 0 .. 7 /\ n \in Int
  OBVIOUS

\* The slots of prog_random: straight, or a skip of one.
LEMMA RandomSlotTypes ==
    PlainSlots \subseteq Straight /\ ImmediateSlots \subseteq Straight /\ ControlSlots \subseteq Skipping
  <1>1. PlainSlots \subseteq Straight
    <2> DEFINE ops == { <<0, 0>>, <<32, 0>>, <<0, 7>>, <<0, 6>>, <<0, 4>> }
    <2>1. ASSUME NEW op \in ops, NEW rd \in REGS, NEW rs1 \in REGS, NEW rs2 \in REGS
          PROVE  enc_R(op[1], rs2, rs1, op[2], rd, R_TYPE) \in Straight
      <3>1. op[1] \in 0 .. 127 /\ op[2] \in 0 .. 7
        OBVIOUS
      <3>2. rd \in RegIndex /\ rs1 \in RegIndex /\ rs2 \in RegIndex
        BY DrawTypes
      <3>3. 0 \in Int
        OBVIOUS
      <3>4. QED
        BY <3>1, <3>2, <3>3, BuilderTypes, Zenon
    <2>2. ASSUME NEW r \in REGS, NEW off \in OFFSETS PROVE Lw(r, 0, off) \in Straight /\ Sw(r, 0, off) \in Straight
      BY Zeros, DrawTypes, BuilderTypes, SMTT(60)
    <2>3. QED
      BY <2>1, <2>2 DEF PlainSlots
  <1>2. ImmediateSlots \subseteq Straight
    <2>1. ASSUME NEW rd \in REGS, NEW rs1 \in REGS, NEW imm \in IMMS PROVE Addi(rd, rs1, imm) \in Straight
      BY Zeros, DrawTypes, BuilderTypes, SMTT(60)
    <2>2. QED
      BY <2>1 DEF ImmediateSlots
  <1>3. ControlSlots \subseteq Skipping
    <2>1. ASSUME NEW a \in REGS, NEW b \in REGS
          PROVE  Beq(a, b, SKIP) \in Skipping /\ Bne(a, b, SKIP) \in Skipping /\ Jal(a, SKIP) \in Skipping
      BY Zeros, DrawTypes, BuilderTypes, SMTT(60)
    <2>2. QED
      BY <2>1 DEF ControlSlots
  <1>4. QED
    BY <1>1, <1>2, <1>3

\* A program that still grows: a redirect has the instruction it skips behind it.
OpenProg(p) ==
    \A k \in 1 .. Len(p) : p[k] \in Straight \/ (p[k] \in Skipping /\ k < Len(p))

\* A program with its HALT: every other instruction leads forward, to HALT at most.
ClosedProg(p) ==
    /\ Len(p) >= 1 /\ p[Len(p)] = HALT
    /\ \A k \in 1 .. Len(p) : k < Len(p) =>
          p[k] \in Straight \/ (p[k] \in Skipping /\ k + 2 <= Len(p))

\* One or two more instructions make a program a program that long.
LEMMA Grow ==
    ASSUME NEW p \in Seq(Instr)
    PROVE  /\ Len(p) \in Nat
           /\ \A i \in Instr : Append(p, i) \in Seq(Instr) /\ Len(Append(p, i)) = Len(p) + 1
           /\ \A i \in Instr : p \o <<i>> \in Seq(Instr) /\ Len(p \o <<i>>) = Len(p) + 1
           /\ \A i, j \in Instr : p \o <<i, j>> \in Seq(Instr) /\ Len(p \o <<i, j>>) = Len(p) + 2
  OBVIOUS

\* What a turn appends keeps an open program open, and HALT closes it.
LEMMA GrowOpen ==
    ASSUME NEW p \in Seq(Instr), OpenProg(p)
    PROVE  /\ \A i \in Straight : OpenProg(Append(p, i)) /\ OpenProg(p \o <<i>>)
           /\ \A i \in Straight \cup Skipping, j \in Straight : OpenProg(p \o <<i, j>>)
           /\ ClosedProg(Append(p, HALT))
  <1>1. ASSUME NEW i \in Straight PROVE OpenProg(Append(p, i)) /\ OpenProg(p \o <<i>>)
    <2>1. OpenProg(Append(p, i))
      <3>1. /\ Len(Append(p, i)) = Len(p) + 1 /\ Len(p) \in Nat
            /\ Append(p, i)[Len(p) + 1] = i
            /\ \A k \in 1 .. Len(p) : Append(p, i)[k] = p[k]
        BY DEF Straight
      <3>2. QED
        BY <3>1, SMT DEF OpenProg
    <2>2. p \o <<i>> = Append(p, i)
      BY DEF Straight
    <2>3. QED
      BY <2>1, <2>2
  <1>2. ASSUME NEW i \in Straight \cup Skipping, NEW j \in Straight PROVE OpenProg(p \o <<i, j>>)
    <2>1. /\ Len(p \o <<i, j>>) = Len(p) + 2 /\ Len(p) \in Nat
          /\ (p \o <<i, j>>)[Len(p) + 1] = i /\ (p \o <<i, j>>)[Len(p) + 2] = j
          /\ \A k \in 1 .. Len(p) : (p \o <<i, j>>)[k] = p[k]
      BY DEF Straight, Skipping
    <2>2. QED
      BY <2>1, SMT DEF OpenProg
  <1>3. ClosedProg(Append(p, HALT))
    <2>1. HALT \in Instr
      BY FixedInstrTypes
    <2>2. /\ Len(Append(p, HALT)) = Len(p) + 1 /\ Len(p) \in Nat
          /\ Append(p, HALT)[Len(p) + 1] = HALT
          /\ \A k \in 1 .. Len(p) : Append(p, HALT)[k] = p[k]
      BY <2>1
    <2>3. QED
      BY <2>2, SMT DEF OpenProg, ClosedProg
  <1>4. QED
    BY <1>1, <1>2, <1>3

-----------------------------------------------------------------------------
(* The reference model running a closed program.                            *)

\* The reference model is a record whatever its state holds.
IsModel(r) ==
    r = [imem |-> r.imem, dmem |-> r.dmem, pc |-> r.pc, regs |-> r.regs,
         steps |-> r.steps, commits |-> r.commits]

\* Before the k-th instruction, having executed at most those before it.
Reached(p, r, k) == r.pc = 4 * (k - 1) /\ r.steps <= k - 1

Running(p, r) ==
    /\ IsModel(r) /\ r.steps \in Nat /\ r.imem = LoadedImem(p)
    /\ \E k \in 1 .. Len(p) : Reached(p, r, k)

\* Where an instruction leads, whatever the registers and the memory hold.
LEMMA LeadsTo ==
    ASSUME NEW i, NEW at, NEW regs_, NEW dmem_
    PROVE  /\ i \in Straight => ExecuteOne(at, regs_, dmem_, i).pc = Plus(at, 4)
           /\ i \in Skipping => ExecuteOne(at, regs_, dmem_, i).pc \in {Plus(at, 4), Plus(at, 8)}
  <1> DEFINE e == ExecuteOne(at, regs_, dmem_, i)
  <1>1. ASSUME i \in Straight PROVE e.pc = Plus(at, 4)
    <2>1. i.opcode \in {R_TYPE, I_TYPE, LOAD, STORE}
      BY <1>1 DEF Straight
    <2>2. CASE i.opcode = R_TYPE
      BY <2>2 DEF ExecuteOne, RegWrite, R_TYPE, I_TYPE, LOAD, STORE, BRANCH, JAL
    <2>3. CASE i.opcode = I_TYPE
      BY <2>3 DEF ExecuteOne, RegWrite, R_TYPE, I_TYPE, LOAD, STORE, BRANCH, JAL
    <2>4. CASE i.opcode = LOAD
      BY <2>4 DEF ExecuteOne, RegWrite, R_TYPE, I_TYPE, LOAD, STORE, BRANCH, JAL
    <2>5. CASE i.opcode = STORE
      BY <2>5 DEF ExecuteOne, RegWrite, R_TYPE, I_TYPE, LOAD, STORE, BRANCH, JAL
    <2>6. QED
      BY <2>1, <2>2, <2>3, <2>4, <2>5
  <1>2. ASSUME i \in Skipping PROVE e.pc \in {Plus(at, 4), Plus(at, 8)}
    <2>1. CASE i.opcode = BRANCH /\ IssImmB(i) = 8
      BY <2>1 DEF ExecuteOne, R_TYPE, I_TYPE, LOAD, STORE, BRANCH, JAL
    <2>2. CASE i.opcode = JAL /\ IssImmJ(i) = 8
      BY <2>2 DEF ExecuteOne, RegWrite, R_TYPE, I_TYPE, LOAD, STORE, BRANCH, JAL
    <2>3. QED
      BY <1>2, <2>1, <2>2 DEF Skipping
  <1>3. QED
    BY <1>1, <1>2

\* A step of the reference model in a closed program that fits moves it forward,
\* to HALT at most; it stays inside, and has always taken fewer steps than words.
LEMMA StepForward ==
    ASSUME NEW p \in Seq(Instr), ClosedProg(p), Len(p) <= IMEM_WORDS, NEW r, Running(p, r),
           ~Halted(r)
    PROVE  /\ Running(p, Stepped(r))
           /\ Stepped(r).pc > r.pc /\ Stepped(r).pc <= 4 * (Len(p) - 1)
  <1> DEFINE e == ExecuteOne(r.pc, r.regs, r.dmem, r.imem[r.pc \div 4])
             s == Stepped(r)
  <1>1. PICK k \in 1 .. Len(p) : Reached(p, r, k)
    BY DEF Running
  <1>2. Len(p) \in Nat /\ IMEM_WORDS \in Nat /\ WordMod \in Nat /\ 4 * IMEM_WORDS <= WordMod
    BY LenProperties, MemoryAssumption, WordFacts, AddressAssumption
  <1>3. k - 1 \in 0 .. IMEM_WORDS - 1 /\ k - 1 < Len(p) /\ (k - 1) + 1 = k
    BY <1>2
  <1>4. r.pc = 4 * (k - 1) /\ r.pc \div 4 = k - 1
    BY <1>1, <1>2, SMT DEF Reached
  <1>5. r.imem[k - 1] = p[k]
    BY <1>3 DEF Running, LoadedImem
  <1>6. ~OutOfMemory(r.pc)
    BY <1>2, <1>3, <1>4 DEF OutOfMemory
  <1>7. p[k] # HALT
    BY <1>4, <1>5, <1>6, Zenon DEF Halted
  <1>8. k < Len(p)
    BY <1>2, <1>7 DEF ClosedProg
  <1>9. p[k] \in Straight \/ (p[k] \in Skipping /\ k + 2 <= Len(p))
    BY <1>8 DEF ClosedProg
  <1>10. /\ Plus(r.pc, 4) = 4 * k
         /\ k + 2 <= Len(p) => Plus(r.pc, 8) = 4 * (k + 1)
    <2>1. ASSUME NEW n \in Nat, n < WordMod PROVE Trunc(n) = n
      BY <2>1, <1>2 DEF Trunc
    <2>2. 4 * k \in Nat /\ 4 * k < WordMod /\ r.pc + 4 = 4 * k
      BY <1>2, <1>4, <1>8
    <2>3. k + 2 <= Len(p) => 4 * (k + 1) < WordMod /\ r.pc + 8 = 4 * (k + 1) /\ 4 * (k + 1) \in Nat
      BY <1>2, <1>4
    <2>4. QED
      BY <2>1, <2>2, <2>3, Zenon DEF Plus
  <1>11. e.pc = 4 * k \/ (e.pc = 4 * (k + 1) /\ k + 2 <= Len(p))
    <2>1. e = ExecuteOne(r.pc, r.regs, r.dmem, p[k])
      BY <1>4, <1>5
    <2> DEFINE e2 == ExecuteOne(r.pc, r.regs, r.dmem, p[k])
    <2>2. /\ p[k] \in Straight => e2.pc = Plus(r.pc, 4)
          /\ p[k] \in Skipping => e2.pc \in {Plus(r.pc, 4), Plus(r.pc, 8)}
      BY LeadsTo, Zenon
    <2> HIDE DEF e, e2
    <2>3. e = e2
      BY <2>1 DEF e, e2
    <2>4. QED
      BY <1>9, <1>10, <2>2, <2>3
  <1>12. /\ IsModel(s) /\ s.pc = e.pc /\ s.imem = r.imem /\ s.steps = r.steps + 1
    <2>1. IsModel(r)
      BY DEF Running
    <2>2. s = [r EXCEPT !.pc = e.pc, !.regs = e.regs, !.dmem = e.dmem,
                        !.steps = @ + 1, !.commits = @ \o e.commits]
      BY Zenon DEF Stepped
    <2> DEFINE n == r.steps + 1
               c == r.commits \o e.commits
    <2>3. s = [r EXCEPT !.pc = e.pc, !.regs = e.regs, !.dmem = e.dmem,
                        !.steps = n, !.commits = c]
      BY <2>2
    <2> HIDE DEF e, s, n, c
    <2>4. s = [imem |-> r.imem, dmem |-> e.dmem, pc |-> e.pc, regs |-> e.regs,
               steps |-> n, commits |-> c]
      BY <2>1, <2>3 DEF IsModel
    <2>5. IsModel(s) /\ s.pc = e.pc /\ s.imem = r.imem /\ s.steps = n
      BY <2>4 DEF IsModel
    <2>6. QED
      BY <2>5 DEF n
  <1> HIDE DEF e, s
  <1>13. \E j \in 1 .. Len(p) : j > k /\ s.pc = 4 * (j - 1)
    BY <1>2, <1>8, <1>11, <1>12
  <1>14. PICK j \in 1 .. Len(p) : j > k /\ s.pc = 4 * (j - 1)
    BY <1>13
  <1>15. s.steps \in Nat /\ s.steps <= j - 1
    BY <1>1, <1>2, <1>12, <1>14 DEF Running, Reached
  <1>16. Running(p, s)
    BY <1>12, <1>14, <1>15 DEF Running, Reached
  <1>17. s.pc > r.pc /\ s.pc <= 4 * (Len(p) - 1)
    BY <1>2, <1>4, <1>14
  <1>18. QED
    BY <1>16, <1>17 DEF s

-----------------------------------------------------------------------------
(* The invariant: what is open is short enough for one more turn, and what  *)
(* is closed fits; what is closed only leads forward, and the reference     *)
(* model running it has reached one of its instructions.                    *)

Room ==
    /\ phase = "idle" => Len(prog) <= IMEM_WORDS
    /\ phase = "random" => Len(prog) <= RandomTarget + 9
    /\ phase = "constrained" => Len(prog) <= MAX_SLOTS
    /\ phase \in {"run", "done"} => Len(prog) <= IMEM_WORDS

Shape ==
    /\ ref.steps \in Nat
    /\ phase \in {"idle", "random", "constrained"} => OpenProg(prog)
    /\ phase \in {"run", "done"} => ClosedProg(prog) /\ Running(prog, ref)

Inv == TypeOK /\ Room /\ Shape

\* The caps leave a random program room for its seeds, two slots past the target and HALT.
LEMMA CapsHold ==
    /\ RandomTarget \in Nat /\ RandomTarget + 10 <= IMEM_WORDS
    /\ MAX_SLOTS \in Nat /\ MAX_SLOTS >= 12 /\ MAX_SLOTS + 1 <= IMEM_WORDS /\ IMEM_WORDS \in Nat
  BY GeneratorAssumption, CapAssumption, MemoryAssumption DEF RandomTarget

\* A turn of prog_constrained keeps the invariant if what it appends is one instruction
\* word, or two where there is room for them.
LEMMA TurnKeepsInv ==
    ASSUME Inv, NEW slots, NEW rd \in RegIndex, ConstrainedTurn(slots, rd),
           \/ \E i \in Straight : slots = <<i>>
           \/ /\ \E i \in Straight \cup Skipping, j \in Straight : slots = <<i, j>>
              /\ Len(prog) + 2 <= MAX_SLOTS,
           last_was_sw' \in BOOLEAN, last_mem_off' \in Nat
    PROVE  Inv'
  <1>1. /\ phase = "constrained" /\ phase' = phase /\ Len(prog) < MAX_SLOTS /\ ref' = ref
        /\ prog' = prog \o slots /\ last_rd' = rd /\ branch_budget' = branch_budget
    BY DEF ConstrainedTurn, ConstrainedOpen
  <1>2. prog \in Seq(Instr) /\ OpenProg(prog) /\ ref.steps \in Nat
    BY <1>1 DEF Inv, TypeOK, Shape
  <1>3. prog' \in Seq(Instr) /\ Len(prog') <= MAX_SLOTS /\ OpenProg(prog')
    <2>1. CASE \E i \in Straight : slots = <<i>>
      <3>1. PICK i \in Straight : slots = <<i>>
        BY <2>1
      <3>2. i \in Instr
        BY DEF Straight
      <3>3. QED
        BY <1>1, <1>2, <3>1, <3>2, Grow, GrowOpen, CapsHold
    <2>2. CASE /\ \E i \in Straight \cup Skipping, j \in Straight : slots = <<i, j>>
               /\ Len(prog) + 2 <= MAX_SLOTS
      <3>1. PICK i \in Straight \cup Skipping, j \in Straight : slots = <<i, j>>
        BY <2>2
      <3>2. i \in Instr /\ j \in Instr
        BY DEF Straight, Skipping
      <3>3. QED
        BY <1>1, <1>2, <2>2, <3>1, <3>2, Grow, GrowOpen, CapsHold
    <2>3. QED
      BY <2>1, <2>2
  <1>4. TypeOK'
    BY <1>1, <1>3 DEF Inv, TypeOK
  <1>5. Room' /\ Shape'
    BY <1>1, <1>2, <1>3 DEF Room, Shape
  <1>6. QED
    BY <1>4, <1>5 DEF Inv

\* The inductive invariant: at the start,
LEMMA InvInit == Init => Inv
  <1> SUFFICES ASSUME Init PROVE Inv
    OBVIOUS
  <1>1. prog \in Seq(Instr) /\ Len(prog) = 0
    BY EmptySeq DEF Init
  <1>2. 0 \in 0 .. BRANCH_BUDGET /\ 0 \in RegIndex /\ 0 \in Nat
    BY GeneratorAssumption DEF RegIndex
  <1>3. TypeOK
    BY <1>1, <1>2, Zenon DEF Init, TypeOK
  <1>4. Len(prog) <= IMEM_WORDS /\ phase = "idle"
    BY <1>1, CapsHold DEF Init
  <1>5. Room
    BY <1>4 DEF Room
  <1>6. Shape
    <2>1. OpenProg(prog)
      BY <1>1 DEF OpenProg
    <2>2. ref.steps = 0
      BY DEF Init, LoadedModel
    <2>3. QED
      BY <1>4, <2>1, <2>2 DEF Shape
  <1>7. QED
    BY <1>3, <1>5, <1>6 DEF Inv

\* kept by every turn of a generator and every instruction of the model,
LEMMA InvNext == Inv /\ [Next]_vars => Inv'
  <1> SUFFICES ASSUME Inv, [Next]_vars PROVE Inv'
    OBVIOUS
  <1> USE DEF Inv
  <1>1. /\ prog \in Seq(Instr) /\ Len(prog) \in Nat /\ ref.steps \in Nat
        /\ NOP \in Straight /\ NOP \in Instr /\ Halt \in Instr /\ Halt = HALT
    BY FixedInstrTypes, LenProperties DEF TypeOK, Shape, Straight
  <1>2. Straight \subseteq Instr /\ Skipping \subseteq Instr
    BY DEF Straight, Skipping
  <1>3. CASE Begin
    <2>1. BRANCH_BUDGET \in 0 .. BRANCH_BUDGET
      BY GeneratorAssumption
    <2>2. /\ phase' \in {"random", "constrained"} /\ prog' \in Seq(Straight) /\ Len(prog') = 8
          /\ branch_budget' \in 0 .. BRANCH_BUDGET
      BY <1>3, <2>1, SeedTypes DEF Begin, TypeOK
    <2>3. prog' \in Seq(Instr) /\ \A k \in 1 .. Len(prog') : prog'[k] \in Straight
      BY <1>2, <2>2, SeqMonotonic, ElementOfSeq, Zenon
    <2>4. OpenProg(prog')
      BY <2>3 DEF OpenProg
    <2>5. UNCHANGED bias_vars /\ ref' = ref
      BY <1>3 DEF Begin
    <2>6. TypeOK'
      BY <2>2, <2>3, <2>5 DEF TypeOK, bias_vars
    <2>7. 8 <= RandomTarget + 9 /\ 8 <= MAX_SLOTS
      BY CapsHold
    <2>8. Room'
      BY <2>2, <2>7 DEF Room
    <2>9. Shape'
      BY <1>1, <2>2, <2>4, <2>5 DEF Shape
    <2>10. QED
      BY <2>6, <2>8, <2>9
  <1>4. CASE RandomPlain
    <2>1. PICK i \in Straight : prog' = Append(prog, i)
      BY <1>4, RandomSlotTypes DEF RandomPlain
    <2>2. phase = "random" /\ phase' = phase /\ ref' = ref /\ OpenProg(prog)
      BY <1>4 DEF RandomPlain, RandomOpen, Shape
    <2>3. prog' \in Seq(Instr) /\ Len(prog') = Len(prog) + 1 /\ OpenProg(prog')
      BY <1>2, <1>1, <2>1, <2>2, Grow, GrowOpen
    <2>4. TypeOK' /\ Room'
      BY <1>1, <1>4, <2>3, CapsHold DEF RandomPlain, RandomOpen, TypeOK, Room, bias_vars
    <2>5. QED
      BY <1>1, <2>2, <2>3, <2>4 DEF Shape
  <1>5. CASE RandomControl
    <2>1. PICK i \in Skipping : prog' = prog \o <<i, NOP>>
      BY <1>5, RandomSlotTypes DEF RandomControl
    <2>5. phase = "random" /\ phase' = phase /\ ref' = ref /\ OpenProg(prog)
      BY <1>5 DEF RandomControl, RandomOpen, Shape
    <2>2. prog' \in Seq(Instr) /\ Len(prog') = Len(prog) + 2 /\ OpenProg(prog')
      BY <1>2, <1>1, <2>1, <2>5, Grow, GrowOpen
    <2>3. branch_budget - 1 \in 0 .. BRANCH_BUDGET
      BY <1>5, GeneratorAssumption DEF RandomControl, TypeOK
    <2>4. TypeOK' /\ Room'
      BY <1>1, <1>5, <2>2, <2>3, CapsHold DEF RandomControl, RandomOpen, TypeOK, Room, bias_vars
    <2>6. QED
      BY <1>1, <2>2, <2>4, <2>5 DEF Shape
  <1>6. /\ biased_rs \subseteq RegIndex /\ LoadOperands \subseteq RegIndex \X Nat
        /\ last_mem_off \in Nat
    BY DrawTypes DEF biased_rs, LoadOperands, StoredBefore, TypeOK
  <1>7. Plainly => last_was_sw' \in BOOLEAN /\ last_mem_off' \in Nat
    BY <1>6 DEF Plainly
  <1>8. CASE ConstrainedR
    <2>1. PICK op \in kROps, rd \in REGS, rs1 \in biased_rs, rs2 \in biased_rs :
             ConstrainedTurn(<<enc_R(32 * op[2], rs2, rs1, op[1], rd, R_TYPE)>>, rd) /\ Plainly
      BY <1>8 DEF ConstrainedR
    <2>2. 32 * op[2] \in 0 .. 127 /\ op[1] \in 0 .. 7
      <3>1. op[2] \in {0, 1} /\ op[1] \in 0 .. 7
        BY DEF kROps
      <3>2. \A b \in {0, 1} : 32 * b \in 0 .. 127
        OBVIOUS
      <3>3. QED
        BY <3>1, <3>2, Zenon
    <2>3. rd \in RegIndex /\ enc_R(32 * op[2], rs2, rs1, op[1], rd, R_TYPE) \in Straight
      <3>1. rd \in RegIndex /\ rs1 \in RegIndex /\ rs2 \in RegIndex /\ 0 \in Int
        BY <1>6, DrawTypes
      <3>2. QED
        BY <2>2, <3>1, BuilderTypes, Zenon
    <2>4. QED
      BY <1>7, <2>1, <2>3, TurnKeepsInv
  <1>9. CASE ConstrainedAddi
    <2>1. PICK rd \in REGS, rs1 \in biased_rs, imm \in IMMS :
             ConstrainedTurn(<<Addi(rd, rs1, imm)>>, rd) /\ Plainly
      BY <1>9 DEF ConstrainedAddi
    <2>2. rd \in RegIndex /\ Addi(rd, rs1, imm) \in Straight
      BY <1>6, Zeros, DrawTypes, BuilderTypes, SMTT(60)
    <2>3. QED
      BY <1>7, <2>1, <2>2, TurnKeepsInv
  <1>10. CASE ConstrainedLw
    <2>1. PICK rd \in REGS, at \in LoadOperands :
             /\ Plainly /\ Roomy
             /\ \/ ConstrainedTurn(<<Lw(rd, at[1], at[2])>>, rd)
                \/ \E rd2 \in REGS, imm \in IMMS :
                      ConstrainedTurn(<<Lw(rd, at[1], at[2]), Addi(rd2, rd, imm)>>, rd2)
      BY <1>10 DEF ConstrainedLw
    <2>2. Len(prog) + 2 <= MAX_SLOTS
      BY <1>1, <2>1, CapsHold DEF Roomy
    <2>3. at[1] \in RegIndex /\ at[2] \in Int
      BY <1>6
    <2>4. rd \in RegIndex /\ Lw(rd, at[1], at[2]) \in Straight
      BY <2>3, Zeros, DrawTypes, BuilderTypes, SMTT(60)
    <2>5. \A rd2 \in REGS, imm \in IMMS : rd2 \in RegIndex /\ Addi(rd2, rd, imm) \in Straight
      BY Zeros, DrawTypes, BuilderTypes, SMTT(60)
    <2>6. QED
      BY <1>7, <2>1, <2>2, <2>4, <2>5, TurnKeepsInv
  <1>11. CASE ConstrainedSw
    <2>1. PICK rs2 \in biased_rs, rs1 \in REGS, off \in OFFSETS :
             /\ ConstrainedTurn(<<Sw(rs2, rs1, off)>>, 0)
             /\ last_was_sw' = TRUE /\ last_mem_off' = off
      BY <1>11 DEF ConstrainedSw
    <2>2. Sw(rs2, rs1, off) \in Straight /\ off \in Nat /\ 0 \in RegIndex
      BY <1>6, Zeros, DrawTypes, BuilderTypes, SMTT(60)
    <2>3. QED
      BY <2>1, <2>2, TurnKeepsInv
  <1>12. CASE ConstrainedBranch
    <2>1. PICK rs1 \in biased_rs, rs2 \in biased_rs :
             /\ Roomy /\ Plainly
             /\ \/ ConstrainedTurn(<<Beq(rs1, rs2, SKIP), NOP>>, 0)
                \/ ConstrainedTurn(<<Bne(rs1, rs2, SKIP), NOP>>, 0)
      BY <1>12 DEF ConstrainedBranch
    <2>2. Len(prog) + 2 <= MAX_SLOTS
      BY <1>1, <2>1, CapsHold DEF Roomy
    <2>3. Beq(rs1, rs2, SKIP) \in Skipping /\ Bne(rs1, rs2, SKIP) \in Skipping /\ 0 \in RegIndex
      BY <1>6, Zeros, DrawTypes, BuilderTypes, SMTT(60)
    <2>4. QED
      BY <1>1, <1>7, <2>1, <2>2, <2>3, TurnKeepsInv
  <1>13. CASE ConstrainedJal
    <2>1. PICK rd \in REGS : Roomy /\ ConstrainedTurn(<<Jal(rd, SKIP), NOP>>, rd) /\ Plainly
      BY <1>13 DEF ConstrainedJal
    <2>2. Len(prog) + 2 <= MAX_SLOTS
      BY <1>1, <2>1, CapsHold DEF Roomy
    <2>3. Jal(rd, SKIP) \in Skipping /\ rd \in RegIndex
      BY Zeros, DrawTypes, BuilderTypes, SMTT(60)
    <2>4. QED
      BY <1>1, <1>7, <2>1, <2>2, <2>3, TurnKeepsInv
  <1>14. CASE Close
    <2>1. prog' = Append(prog, Halt) /\ phase' = "run" /\ phase \in {"random", "constrained"}
      BY <1>14 DEF Close
    <2>2. prog' \in Seq(Instr) /\ Len(prog') = Len(prog) + 1
      BY <1>1, <2>1, Grow
    <2>3. Len(prog') <= IMEM_WORDS
      BY <1>1, <2>1, <2>2, CapsHold DEF Room
    <2>4. TypeOK' /\ Room'
      BY <1>14, <2>1, <2>2, <2>3 DEF Close, TypeOK, Room, bias_vars
    <2>5. ClosedProg(prog')
      BY <1>1, <2>1, GrowOpen DEF Shape
    <2>6. ref' = LoadedModel(prog', <<>>)
      BY <1>14 DEF Close
    <2>7. /\ IsModel(ref') /\ ref'.steps = 0 /\ ref'.pc = 0 /\ ref'.imem = LoadedImem(prog')
      BY <2>6 DEF LoadedModel, IsModel
    <2>8. 1 \in 1 .. Len(prog') /\ 0 = 4 * (1 - 1) /\ 0 <= 1 - 1 /\ 0 \in Nat
      BY <1>1, <2>2
    <2>9. Running(prog', ref')
      BY <2>7, <2>8, Zenon DEF Running, Reached
    <2>10. QED
      BY <2>1, <2>4, <2>5, <2>7, <2>9 DEF Shape
  <1>15. CASE RunReference
    <2>1. /\ phase = "run" /\ phase' = phase /\ prog' = prog /\ ref' = Stepped(ref) /\ ~Halted(ref)
          /\ UNCHANGED <<branch_budget, bias_vars>>
      BY <1>15 DEF RunReference
    <2>2. ClosedProg(prog) /\ Running(prog, ref) /\ Len(prog) <= IMEM_WORDS
      BY <2>1 DEF Shape, Room
    <2>3. Running(prog, ref')
      BY <1>1, <2>1, <2>2, StepForward
    <2>4. ref'.steps \in Nat
      BY <2>3 DEF Running
    <2>5. TypeOK' /\ Room'
      BY <2>1 DEF TypeOK, Room, bias_vars
    <2>6. QED
      BY <2>1, <2>2, <2>3, <2>4, <2>5 DEF Shape
  <1>16. CASE AtHalt
    BY <1>16 DEF AtHalt, TypeOK, Room, Shape, bias_vars
  <1>17. CASE UNCHANGED vars
    BY <1>17 DEF vars, bias_vars, TypeOK, Room, Shape
  <1>18. QED
    BY <1>3, <1>4, <1>5, <1>8, <1>9, <1>10, <1>11, <1>12, <1>13, <1>14, <1>15, <1>16, <1>17 DEF Next

\* and so always.
LEMMA Invariant == Spec => []Inv
  BY InvInit, InvNext, PTL DEF Spec

\* Whatever the generators draw, a program is a list of instruction words at every
\* moment: no operand, offset or immediate overflows the field it is encoded in.
THEOREM ProgramsAreTyped == Spec => []TypeOK
  <1>1. Inv => TypeOK
    BY DEF Inv
  <1>2. QED
    BY <1>1, Invariant, PTL

\* Whatever length is asked for, a program fits instruction memory with its HALT.
THEOREM ProgramsFit == Spec => []FitsImem
  <1>1. Inv => FitsImem
    <2> SUFFICES ASSUME Inv PROVE Len(prog) <= IMEM_WORDS
      BY DEF FitsImem
    <2>1. Len(prog) \in Nat
      BY LenProperties DEF Inv, TypeOK
    <2>2. QED
      BY <2>1, CapsHold DEF Inv, TypeOK, Room
  <1>2. QED
    BY <1>1, Invariant, PTL

\* Only the reference model takes steps, and the one it takes leads forward.
LEMMA NextForward ==
    Inv /\ [Next]_vars =>
      (ref.steps' > ref.steps => ref.pc' > ref.pc /\ ref.pc' <= 4 * (Len(prog) - 1))
  <1> SUFFICES ASSUME Inv, [Next]_vars, ref.steps' > ref.steps
               PROVE  ref.pc' > ref.pc /\ ref.pc' <= 4 * (Len(prog) - 1)
    OBVIOUS
  <1>1. ref.steps \in Nat
    BY DEF Inv, Shape
  <1>2. ref' # ref
    BY <1>1
  <1>3. ~Close
    <2> SUFFICES ASSUME Close PROVE FALSE
      OBVIOUS
    <2>1. ref'.steps = 0
      BY DEF Close, LoadedModel
    <2>2. QED
      BY <1>1, <2>1
  <1>4. RunReference
    BY <1>2, <1>3 DEF Next, Begin, RandomPlain, RandomControl, ConstrainedR, ConstrainedAddi,
       ConstrainedLw, ConstrainedSw, ConstrainedBranch, ConstrainedJal, ConstrainedTurn,
       AtHalt, vars
  <1>5. phase = "run" /\ ref' = Stepped(ref) /\ ~Halted(ref)
    BY <1>4 DEF RunReference
  <1>6. /\ prog \in Seq(Instr) /\ ClosedProg(prog) /\ Running(prog, ref) /\ Len(prog) <= IMEM_WORDS
    BY <1>5 DEF Inv, TypeOK, Shape, Room
  <1>7. QED
    BY <1>5, <1>6, StepForward

\* Whatever the generators draw and whatever the instructions compute, every step of
\* the reference model in a generated program leads forward, and to its HALT at most.
THEOREM ProgramsRunForward == Spec => RunsForward
  <1>1. Spec => [][ref.steps' > ref.steps => ref.pc' > ref.pc /\ ref.pc' <= 4 * (Len(prog) - 1)]_vars
    BY NextForward, Invariant, PTL DEF Spec
  <1>2. QED
    BY <1>1, PTL DEF RunsForward

\* While it runs, the reference model stays inside instruction memory, which is what
\* lets HALT rather than the end of the memory stop it, and has taken fewer steps
\* than the program has words, so that the driver's budget of eight cycles a word
\* exceeds eight cycles an instruction executed.
StaysInside ==
    phase \in {"run", "done"} => ~OutOfMemory(ref.pc) /\ ref.steps < Len(prog)

\* It does, for every program either generator makes.
THEOREM ProgramsStayInside == Spec => []StaysInside
  <1>1. Inv => StaysInside
    <2> SUFFICES ASSUME Inv, phase \in {"run", "done"}
                 PROVE  ~OutOfMemory(ref.pc) /\ ref.steps < Len(prog)
      BY DEF StaysInside
    <2>1. Running(prog, ref) /\ Len(prog) \in Nat /\ Len(prog) <= IMEM_WORDS
      BY LenProperties DEF Inv, Shape, Room, TypeOK
    <2>2. PICK k \in 1 .. Len(prog) : Reached(prog, ref, k)
      BY <2>1 DEF Running
    <2>3. ref.steps \in Nat
      BY <2>1 DEF Running
    <2>4. QED
      BY <2>1, <2>2, <2>3, MemoryAssumption DEF Reached, OutOfMemory
  <1>2. QED
    BY <1>1, Invariant, PTL
=============================================================================
