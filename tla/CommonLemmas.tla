---------------------------- MODULE CommonLemmas ----------------------------
(***************************************************************************)
(* What the proofs of several components need to know: induction, words,   *)
(* the ALU and the decoder, and what the scoreboard's compare does.        *)
(***************************************************************************)
EXTENDS Decoder, Scoreboard, SequenceTheorems, WellFoundedInduction, TLAPS

\* Induction, for a set of numbers.
LEMMA SetInduction ==
    ASSUME NEW M, 0 \in M, \A m \in Nat : m \in M => m + 1 \in M
    PROVE  Nat \subseteq M
  <1> DEFINE R == {ss \in Nat \X Nat : ss[1] < ss[2]}
             E == {n \in Nat : n \notin M}
  <1>1. R = OpToRel(<, Nat)
    BY DEF OpToRel
  <1>2. IsWellFoundedOn(R, Nat)
    BY <1>1, NatLessThanWellFounded
  <1>3. \A m \in Nat, n \in Nat : m < n => <<m, n>> \in R
    OBVIOUS
  <1> HIDE DEF R
  <1>4. CASE E # {}
    <2>1. E \subseteq Nat
      OBVIOUS
    <2>2. PICK k \in E : \A m \in E : ~(<<m, k>> \in R)
      BY <1>2, <1>4, <2>1, WFMin
    <2>3. k \in Nat /\ k # 0
      BY <2>2
    <2>4. k - 1 \in Nat /\ k - 1 < k /\ (k - 1) + 1 = k
      BY <2>3
    <2>5. k - 1 \notin E
      BY <1>3, <2>2, <2>3, <2>4, Zenon
    <2>6. k - 1 \in M
      BY <2>4, <2>5
    <2>7. (k - 1) + 1 \in M
      BY <2>4, <2>6, Zenon
    <2>8. QED
      BY <2>2, <2>4, <2>7
  <1>5. QED
    BY <1>4

-----------------------------------------------------------------------------
(* Quotients and powers                                                     *)

\* A product with a positive factor is no smaller than the other one.
LEMMA ProductGrows ==
    ASSUME NEW c \in Int, NEW d \in Int, c >= 0, d >= 1 PROVE c * d >= c /\ c * d \in Int
  OBVIOUS

\* A quotient and a remainder are unique.
LEMMA DivUnique ==
    ASSUME NEW a \in Int, NEW b \in Int, b > 0,
           NEW q \in Int, NEW r \in Int, 0 <= r, r < b, a = b * q + r
    PROVE  a \div b = q /\ a % b = r
  <1> DEFINE p == a \div b
             s == a % b
  <1>1. a = b * p + s
    BY Z3
  <1>2. p \in Int /\ s \in Int /\ 0 <= s /\ s < b
    OBVIOUS
  <1> HIDE DEF p, s
  <1>3. b * (p - q) = r - s /\ b * (q - p) = s - r
    <2>1. b * (p - q) = b * p - b * q /\ b * (q - p) = b * q - b * p /\ b * p \in Int /\ b * q \in Int
      BY <1>2
    <2>2. QED
      BY <1>1, <1>2, <2>1
  <1>4. ~(p - q >= 1)
    BY <1>2, <1>3, ProductGrows
  <1>5. ~(q - p >= 1)
    BY <1>2, <1>3, ProductGrows
  <1>6. p = q
    BY <1>2, <1>4, <1>5
  <1>7. s = r
    BY <1>1, <1>2, <1>6
  <1>8. QED
    BY <1>6, <1>7 DEF p, s

\* Powers of two up to the width are positive,
LEMMA PowerType == \A n \in 0 .. XLEN : 2^n \in Int /\ 2^n > 0
  <1> DEFINE M == {n \in Nat : n <= XLEN => 2^n \in Int /\ 2^n > 0}
  <1>1. 0 \in M
    BY PowerAssumption
  <1>2. ASSUME NEW n \in Nat, n \in M PROVE n + 1 \in M
    <2> SUFFICES ASSUME n + 1 <= XLEN PROVE 2^(n + 1) \in Int /\ 2^(n + 1) > 0
      OBVIOUS
    <2>1. n \in 0 .. XLEN - 1 /\ n <= XLEN
      BY WordAssumption
    <2>2. 2^(n + 1) = 2 * 2^n
      BY <2>1, PowerAssumption
    <2>3. 2^n \in Int /\ 2^n > 0
      BY <1>2, <2>1
    <2>4. QED
      BY <2>2, <2>3
  <1>3. Nat \subseteq M
    <2> HIDE DEF M
    <2>1. QED
      BY <1>1, <1>2, SetInduction
  <1>4. QED
    BY <1>3, WordAssumption

\* and add up their exponents.
LEMMA PowerSum == \A m, n \in Nat : m + n <= XLEN => 2^(m + n) = 2^m * 2^n
  <1> SUFFICES ASSUME NEW m \in Nat PROVE \A n \in Nat : m + n <= XLEN => 2^(m + n) = 2^m * 2^n
    OBVIOUS
  <1> DEFINE M == {n \in Nat : m + n <= XLEN => 2^(m + n) = 2^m * 2^n}
  <1>1. 0 \in M
    <2>1. m + 0 = m /\ 2^0 = 1
      BY PowerAssumption
    <2>2. m <= XLEN => 2^m \in Int
      BY PowerType, WordAssumption
    <2>3. m <= XLEN => 2^m = 2^m * 1
      BY <2>2
    <2>4. QED
      BY <2>1, <2>3
  <1>2. ASSUME NEW n \in Nat, n \in M PROVE n + 1 \in M
    <2> SUFFICES ASSUME m + (n + 1) <= XLEN PROVE 2^(m + (n + 1)) = 2^m * 2^(n + 1)
      OBVIOUS
    <2>1. /\ n \in 0 .. XLEN - 1 /\ n \in 0 .. XLEN /\ m \in 0 .. XLEN /\ m + n \in 0 .. XLEN - 1
          /\ m + n <= XLEN /\ m + (n + 1) = (m + n) + 1
      BY WordAssumption
    <2>2. 2^(n + 1) = 2 * 2^n /\ 2^((m + n) + 1) = 2 * 2^(m + n)
      BY <2>1, PowerAssumption
    <2>3. 2^(m + n) = 2^m * 2^n
      BY <1>2, <2>1
    <2>4. 2^m \in Int /\ 2^n \in Int
      BY <2>1, PowerType
    <2>5. \A x, y \in Int : 2 * (x * y) = x * (2 * y)
      OBVIOUS
    <2>6. QED
      BY <2>1, <2>2, <2>3, <2>4, <2>5
  <1>3. Nat \subseteq M
    <2> HIDE DEF M
    <2>1. QED
      BY <1>1, <1>2, SetInduction
  <1>4. QED
    BY <1>3

\* What a width of five bits or more makes of the words: their number is a multiple
\* of 32.
LEMMA WordFacts ==
    /\ XLEN \in Nat /\ XLEN >= 5
    /\ WordMod \in Nat /\ WordMod >= 32 /\ WordMod = 32 * (WordMod \div 32)
  <1> DEFINE v == 2^(XLEN - 5)
  <1>1. 2^5 = 32
    <2>1. 2^(0 + 1) = 2 * 2^0 /\ 2^(1 + 1) = 2 * 2^1 /\ 2^(2 + 1) = 2 * 2^2 /\ 2^(3 + 1) = 2 * 2^3 /\ 2^(4 + 1) = 2 * 2^4
      <3>1. 0 \in 0 .. XLEN - 1 /\ 1 \in 0 .. XLEN - 1 /\ 2 \in 0 .. XLEN - 1 /\ 3 \in 0 .. XLEN - 1 /\ 4 \in 0 .. XLEN - 1
        BY WordAssumption
      <3>2. QED
        BY <3>1, PowerAssumption
    <2>2. 0 + 1 = 1 /\ 1 + 1 = 2 /\ 2 + 1 = 3 /\ 3 + 1 = 4 /\ 4 + 1 = 5
      OBVIOUS
    <2>3. QED
      BY <2>1, <2>2, PowerAssumption
  <1>2. v \in Int /\ v >= 1
    <2>1. XLEN - 5 \in 0 .. XLEN
      BY WordAssumption
    <2>2. QED
      BY <2>1, PowerType
  <1>3. WordMod = 32 * v
    <2>1. 5 \in Nat /\ XLEN - 5 \in Nat /\ 5 + (XLEN - 5) = XLEN /\ 5 + (XLEN - 5) <= XLEN
      BY WordAssumption
    <2>2. QED
      BY <1>1, <2>1, PowerSum DEF WordMod
  <1> HIDE DEF v
  <1>4. WordMod \div 32 = v
    BY <1>2, <1>3
  <1>5. QED
    BY <1>2, <1>3, <1>4, WordAssumption

-----------------------------------------------------------------------------
(* Words, the ALU and the decoder                                           *)

\* Truncation, and so addition and subtraction, yields a word.
LEMMA TruncType == ASSUME NEW n \in Int PROVE Trunc(n) \in Word
  BY WordFacts DEF Trunc, Word

\* A word as an integer in its range.
LEMMA WordIsInt == ASSUME NEW w \in Word PROVE w \in Int /\ 0 <= w /\ w < WordMod
  BY WordFacts DEF Word

\* The sign bit of a word weighs half the number of words.
LEMMA HalfWord ==
    /\ XLEN - 1 \in 0 .. XLEN /\ XLEN - 1 \in BitPos /\ XLEN - 1 \in Nat /\ XLEN - 1 <= XLEN
    /\ 2^(XLEN - 1) \in Int /\ 2^(XLEN - 1) > 0 /\ WordMod = 2 * 2^(XLEN - 1)
  <1>1. /\ XLEN - 1 \in 0 .. XLEN - 1 /\ (XLEN - 1) + 1 = XLEN
        /\ XLEN - 1 \in 0 .. XLEN /\ XLEN - 1 \in BitPos /\ XLEN - 1 \in Nat /\ XLEN - 1 <= XLEN
    BY WordFacts DEF BitPos
  <1>2. 2^((XLEN - 1) + 1) = 2 * 2^(XLEN - 1)
    BY <1>1, PowerAssumption
  <1>3. QED
    BY <1>1, <1>2, PowerType DEF WordMod

\* A number that fits a word is the integer its word stands for.
LEMMA SignedTrunc ==
    ASSUME NEW v \in Int, -WordMod <= 2 * v, 2 * v < WordMod
    PROVE  Signed(Trunc(v)) = v
  <1> DEFINE h == 2^(XLEN - 1)
             w == Trunc(v)
  <1>1. h \in Int /\ h > 0 /\ WordMod = 2 * h
    BY HalfWord
  <1>2. w = v % (2 * h) /\ Signed(w) = IF w < h THEN w ELSE w - 2 * h
    BY <1>1 DEF Trunc, Signed
  <1> HIDE DEF h, w
  <1>3. CASE v >= 0
    <2>1. v = (2 * h) * 0 + v /\ v < h
      BY <1>1, <1>3
    <2>2. w = v
      BY <1>1, <1>2, <1>3, <2>1, DivUnique
    <2>3. QED
      BY <1>2, <2>1, <2>2 DEF w
  <1>4. CASE v < 0
    <2>1. v = (2 * h) * (-1) + (v + 2 * h) /\ 0 <= v + 2 * h /\ v + 2 * h < 2 * h /\ v + 2 * h >= h
      BY <1>1, <1>4
    <2>2. -1 \in Int /\ v + 2 * h \in Int /\ 2 * h \in Int /\ 2 * h > 0
      BY <1>1
    <2>3. w = v + 2 * h
      BY <1>2, <2>1, <2>2, DivUnique
    <2>4. QED
      BY <1>1, <1>2, <2>1, <2>3 DEF w
  <1>5. QED
    BY <1>3, <1>4

\* Addition wraps around into the word,
LEMMA PlusType == ASSUME NEW a \in Word, NEW b \in Int PROVE Plus(a, b) \in Word
  BY TruncType, WordIsInt DEF Plus

\* and so does subtraction.
LEMMA MinusType == ASSUME NEW a \in Word, NEW b \in Word PROVE Minus(a, b) \in Word
  BY TruncType, WordIsInt DEF Minus

\* The literals the RTL adds and compares with.
LEMMA SmallWords == 0 \in Word /\ 1 \in Word /\ 4 \in Word
  BY WordFacts DEF Word

\* The steps that put a word together from its bits,
HighBits(high, S) ==
    high = [k \in 0 .. XLEN |-> IF k = 0 THEN 0 ELSE 2 * high[k - 1] + (IF XLEN - k \in S THEN 1 ELSE 0)]

\* of which there is a list for every set of positions.
LEMMA HighBitsExist == ASSUME NEW S PROVE \E high : HighBits(high, S)
  <1> DEFINE bit(k) == IF XLEN - k \in S THEN 1 ELSE 0
             Is(g, m) == g = [k \in 0 .. m |-> IF k = 0 THEN 0 ELSE 2 * g[k - 1] + bit(k)]
             M == {m \in Nat : \E g : Is(g, m)}
  <1>1. 0 \in M
    <2> DEFINE g == [k \in 0 .. 0 |-> 0]
    <2>1. \A k \in 0 .. 0 : k = 0
      OBVIOUS
    <2>2. g = [k \in 0 .. 0 |-> IF k = 0 THEN 0 ELSE 2 * g[k - 1] + bit(k)]
      BY <2>1
    <2>3. Is(g, 0)
      BY <2>2, Zenon
    <2> HIDE DEF g, Is
    <2>4. QED
      BY <2>3
  <1>2. ASSUME NEW m \in Nat, m \in M PROVE m + 1 \in M
    <2>1. PICK f : Is(f, m)
      BY <1>2, Zenon
    <2> DEFINE g == [k \in 0 .. m + 1 |-> IF k <= m THEN f[k] ELSE 2 * f[m] + bit(m + 1)]
               B(k) == IF k = 0 THEN 0 ELSE 2 * g[k - 1] + bit(k)
    <2>2. ASSUME NEW k \in 0 .. m + 1 PROVE g[k] = B(k)
      <3>1. g[k] = IF k <= m THEN f[k] ELSE 2 * f[m] + bit(m + 1)
        BY Zenon
      <3>2. CASE k = 0
        <4>1. k \in 0 .. m /\ k <= m
          BY <3>2
        <4>2. f[k] = 0
          BY <2>1, <3>2, <4>1
        <4>3. QED
          BY <3>1, <3>2, <4>1, <4>2
      <3>3. CASE k # 0
        <4>1. k - 1 \in 0 .. m + 1 /\ k - 1 <= m
          BY <3>3
        <4>2. g[k - 1] = f[k - 1]
          BY <4>1
        <4>3. CASE k <= m
          <5>1. k \in 0 .. m
            BY <4>3
          <5>2. f[k] = 2 * f[k - 1] + bit(k)
            BY <2>1, <3>3, <5>1
          <5> HIDE DEF g, bit
          <5>3. QED
            BY <3>1, <3>3, <4>2, <4>3, <5>2
        <4>4. CASE ~(k <= m)
          <5>1. k = m + 1 /\ k - 1 = m
            BY <4>4
          <5> HIDE DEF g, bit
          <5>2. QED
            BY <3>1, <3>3, <4>2, <4>4, <5>1
        <4>5. QED
          BY <4>3, <4>4
      <3>4. QED
        BY <3>2, <3>3
    <2>3. g = [k \in 0 .. m + 1 |-> g[k]]
      BY Zenon
    <2>4. [k \in 0 .. m + 1 |-> g[k]] = [k \in 0 .. m + 1 |-> B(k)]
      <3> HIDE DEF B, g
      <3>1. QED
        BY <2>2
    <2>5. Is(g, m + 1)
      BY <2>3, <2>4, Zenon
    <2> HIDE DEF g, Is
    <2>6. QED
      BY <2>5
  <1>3. XLEN \in M
    <2> HIDE DEF M
    <2>1. QED
      BY <1>1, <1>2, SetInduction, WordAssumption
  <1>4. QED
    BY <1>3, Zenon DEF HighBits

\* The word is what the last step leaves, and each step doubles the one before.
LEMMA WordOfSteps ==
    ASSUME NEW S
    PROVE  \E high : /\ WordOf(S) = high[XLEN] /\ high[0] = 0
                     /\ \A k \in 1 .. XLEN :
                           high[k] = 2 * high[k - 1] + (IF XLEN - k \in S THEN 1 ELSE 0)
  <1> DEFINE high == CHOOSE g : HighBits(g, S)
  <1>1. HighBits(high, S)
    BY HighBitsExist, Zenon
  <1>2. WordOf(S) = high[XLEN]
    BY Zenon DEF WordOf, HighBits
  <1> HIDE DEF high
  <1>3. high[0] = 0 /\ \A k \in 1 .. XLEN :
                          high[k] = 2 * high[k - 1] + (IF XLEN - k \in S THEN 1 ELSE 0)
    <2>1. 0 \in 0 .. XLEN /\ \A k \in 1 .. XLEN : k \in 0 .. XLEN /\ k # 0
      BY WordAssumption
    <2>2. QED
      BY <1>1, <2>1 DEF HighBits
  <1>4. QED
    BY <1>2, <1>3

\* A set of bit positions is a word.
LEMMA WordOfType == ASSUME NEW S PROVE WordOf(S) \in Word
  <1>1. PICK high : /\ WordOf(S) = high[XLEN] /\ high[0] = 0
                    /\ \A k \in 1 .. XLEN :
                          high[k] = 2 * high[k - 1] + (IF XLEN - k \in S THEN 1 ELSE 0)
    BY WordOfSteps
  <1> DEFINE M == {k \in Nat : k <= XLEN => high[k] \in Int /\ 0 <= high[k] /\ high[k] < 2^k}
  <1>2. 0 \in M
    BY <1>1, PowerAssumption
  <1>3. ASSUME NEW k \in Nat, k \in M PROVE k + 1 \in M
    <2> SUFFICES ASSUME k + 1 <= XLEN
                 PROVE  high[k + 1] \in Int /\ 0 <= high[k + 1] /\ high[k + 1] < 2^(k + 1)
      OBVIOUS
    <2>1. k + 1 \in 1 .. XLEN /\ (k + 1) - 1 = k /\ k <= XLEN /\ k \in 0 .. XLEN - 1 /\ k \in 0 .. XLEN
      BY WordAssumption
    <2>2. high[k] \in Int /\ 0 <= high[k] /\ high[k] < 2^k
      BY <1>3, <2>1
    <2>3. 2^(k + 1) = 2 * 2^k /\ 2^k \in Int
      BY <2>1, PowerAssumption, PowerType
    <2>4. high[k + 1] = 2 * high[k] + (IF XLEN - (k + 1) \in S THEN 1 ELSE 0)
      BY <1>1, <2>1
    <2>5. QED
      BY <2>2, <2>3, <2>4
  <1>4. XLEN \in M
    <2> HIDE DEF M
    <2>1. QED
      BY <1>2, <1>3, SetInduction, WordAssumption
  <1>5. QED
    BY <1>1, <1>4, WordFacts DEF Word, WordMod

\* Every ALU operation yields a word.
LEMMA AluType ==
    ASSUME NEW op, NEW a \in Word, NEW b \in Word
    PROVE  AluResult(op, a, b) \in Word
  <1>1. Plus(a, b) \in Word /\ Minus(a, b) \in Word
    BY PlusType, MinusType, WordIsInt
  <1>2. \A p : Flag(p) \in Word
    BY SmallWords DEF Flag
  <1>3. /\ BitAnd(a, b) \in Word /\ BitOr(a, b) \in Word /\ BitXor(a, b) \in Word
        /\ ShiftLeft(a, ShAmt(b)) \in Word /\ ShiftRight(a, ShAmt(b)) \in Word
        /\ ShiftRightArith(a, ShAmt(b)) \in Word
    BY WordOfType DEF BitAnd, BitOr, BitXor, ShiftLeft, ShiftRight, ShiftRightArith
  <1>4. QED
    BY <1>1, <1>2, <1>3, SmallWords DEF AluResult

\* The zero flag of a subtraction tells whether the operands are equal: this is
\* what lets the RTL decide BEQ and BNE on alu_op SUB.
LEMMA SubtractionZero ==
    ASSUME NEW a \in Word, NEW b \in Word
    PROVE  AluZero(AluResult("SUB", a, b)) <=> a = b
  <1> DEFINE d == a - b
             m == WordMod
  <1>1. AluResult("SUB", a, b) = d % m
    BY DEF AluResult, Minus, Trunc
  <1>2. d \in Int /\ m \in Nat /\ m > 0 /\ d < m /\ d > -m
    BY WordIsInt, WordFacts
  <1>3. CASE d >= 0
    <2>1. d % m = d
      BY <1>2, <1>3
    <2>2. QED
      BY <1>1, <2>1, WordIsInt DEF AluZero
  <1>4. CASE d < 0
    <2>1. d % m = d + m
      BY <1>2, <1>4
    <2>2. QED
      BY <1>1, <1>2, <2>1, <1>4, WordIsInt DEF AluZero
  <1>5. QED
    BY <1>2, <1>3, <1>4

-----------------------------------------------------------------------------

\* A sign-extended immediate is a word.
LEMMA SignExtendType ==
    ASSUME NEW n \in Int, NEW sign \in Int PROVE SignExtend(n, sign) \in Word
  BY TruncType DEF SignExtend

\* The fields of an instruction, field by field.
LEMMA InstrFields ==
    ASSUME NEW i \in Instr
    PROVE  /\ i.opcode \in Int /\ i.rd \in RegIndex /\ i.rs1 \in RegIndex /\ i.rs2 \in RegIndex
           /\ i.funct3 \in 0 .. 7 /\ i.funct7 \in 0 .. 127
           /\ i.rd \in Int /\ i.rs1 \in Int /\ i.rs2 \in Int /\ i.funct3 \in Int /\ i.funct7 \in Int
  BY DEF Instr, RegIndex

\* The immediates of any word are words.
LEMMA ImmType ==
    ASSUME NEW i \in Instr
    PROVE  imm_i(i) \in Word /\ imm_s(i) \in Word /\ imm_b(i) \in Word /\ imm_j(i) \in Word
  <1> USE InstrFields, SignExtendType
  <1>1. imm_i(i) \in Word
    BY DEF imm_i
  <1>2. imm_s(i) \in Word
    BY DEF imm_s
  <1>3. imm_b(i) \in Word
    BY DEF imm_b
  <1>4. imm_j(i) \in Word
    BY DEF imm_j
  <1>5. QED
    BY <1>1, <1>2, <1>3, <1>4

\* A decoder's output is typed when its immediate and operation are.
LEMMA SignalsType ==
    ASSUME NEW i \in Instr, NEW imm \in Word, NEW op \in AluOp, NEW on
    PROVE  Signals(i, imm, op, on) \in DecodedSignals
  BY InstrFields DEF Signals, DecodedSignals

\* The decoder's outputs have their types whatever the instruction word.
LEMMA DecodeType == ASSUME NEW i \in Instr PROVE Decode(i) \in DecodedSignals
  <1>1. RTypeAluOp(i) \in AluOp
    <2>1. i.funct3 \in {0, 1, 2, 3, 4, 5, 6, 7}
      BY InstrFields
    <2>2. QED
      BY <2>1 DEF RTypeAluOp, AluOp
  <1>2. ITypeAluOp(i) \in AluOp
    <2>1. i.funct3 \in {0, 1, 2, 3, 4, 5, 6, 7}
      BY InstrFields
    <2>2. QED
      BY <2>1 DEF ITypeAluOp, AluOp
  <1>3. "ADD" \in AluOp /\ "SUB" \in AluOp
    BY DEF AluOp
  <1>4. QED
    BY <1>1, <1>2, <1>3, ImmType, SmallWords, SignalsType DEF Decode

\* A bubble decodes to an instruction that raises nothing.
LEMMA DecodeZero == Decode(ZeroInstr) = Signals(ZeroInstr, 0, "ADD", {})
  BY DEF Decode, ZeroInstr, R_TYPE, I_TYPE, LOAD, STORE, BRANCH, JAL

\* The zero word, which a flush puts in, is an instruction.
LEMMA ZeroInstrType == ZeroInstr \in Instr
  BY DEF ZeroInstr, Instr, RegIndex

-----------------------------------------------------------------------------
(* The scoreboard's compare, for every look-ahead and every set of commits  *)

\* The scan for a match, which goes up from the front, stops at the nearest one.
LEMMA NearestMatch ==
    ASSUME NEW M, M \subseteq Nat, M # {}
    PROVE  \E k \in M : \A m \in M : k <= m
  <1> DEFINE R == {ss \in Nat \X Nat : ss[1] < ss[2]}
  <1>1. R = OpToRel(<, Nat)
    BY DEF OpToRel
  <1>2. IsWellFoundedOn(R, Nat)
    BY <1>1, NatLessThanWellFounded
  <1> HIDE DEF R
  <1>3. PICK k \in M : \A m \in M : ~(<<m, k>> \in R)
    BY <1>2, WFMin
  <1>4. \A m \in M : k <= m
    <2>1. ASSUME NEW m \in Nat, NEW n \in Nat, m < n PROVE <<m, n>> \in R
      <3>1. <<m, n>> \in Nat \X Nat /\ <<m, n>>[1] < <<m, n>>[2]
        BY <2>1
      <3>2. QED
        BY <3>1, Zenon DEF R
    <2>2. ASSUME NEW m \in M PROVE k <= m
      <3>1. m \in Nat /\ k \in Nat
        OBVIOUS
      <3>2. ~(m < k)
        BY <1>3, <2>1, <3>1, Zenon
      <3>3. QED
        BY <3>1, <3>2
    <2>3. QED
      BY <2>2
  <1>5. QED
    BY <1>4

\* The three outcomes of compare: the queue was empty, the entry k behind the front
\* is the nearest one that equals the report, or the front entry is held wrong.
LEMMA CompareCases ==
    ASSUME NEW S, NEW b, NEW c, b.expected \in Seq(S)
    PROVE  \/ b.expected = <<>> /\ Compare(b, c) = ExtraCommit(b)
           \/ \E k \in 0 .. Len(b.expected) - 1 :
                 /\ b.expected[k + 1] = c /\ (k > 0 => b.expected[1] # c)
                 /\ Compare(b, c) = MatchAt(b, k)
           \/ b.expected # <<>> /\ b.expected[1] # c /\ Compare(b, c) = WrongValue(b)
  <1> DEFINE q == b.expected
             M == LookaheadMatches(q, c)
  <1>1. CASE q = <<>>
    BY <1>1 DEF Compare
  <1>2. ASSUME q # <<>> PROVE Len(q) \in Nat /\ Len(q) >= 1 /\ Head(q) = q[1]
    BY <1>2
  <1>3. CASE q # <<>> /\ c = Head(q)
    <2>1. Compare(b, c) = MatchAt(b, 0)
      BY <1>3, Zenon DEF Compare
    <2>2. 0 \in 0 .. Len(q) - 1 /\ q[0 + 1] = c /\ ~(0 > 0)
      BY <1>2, <1>3
    <2>3. QED
      BY <2>1, <2>2
  <1>4. CASE q # <<>> /\ c # Head(q) /\ M # {}
    <2> DEFINE k == CHOOSE k \in M : \A m \in M : k <= m
    <2>1. M \subseteq Nat /\ M \subseteq 1 .. Len(q) - 1
      BY <1>2, <1>4 DEF LookaheadMatches
    <2>2. k \in M
      <3>1. \E n \in M : \A m \in M : n <= m
        BY <1>4, <2>1, NearestMatch
      <3>2. QED
        BY <3>1, Zenon
    <2>3. Compare(b, c) = MatchAt(b, k)
      BY <1>4, Zenon DEF Compare
    <2> HIDE DEF k
    <2>4. q[k + 1] = c
      BY <2>2 DEF LookaheadMatches
    <2>5. k \in 0 .. Len(q) - 1 /\ q[1] # c
      BY <1>2, <1>4, <2>1, <2>2
    <2>6. QED
      BY <2>3, <2>4, <2>5
  <1>5. CASE q # <<>> /\ c # Head(q) /\ M = {}
    <2>1. Compare(b, c) = WrongValue(b)
      BY <1>5, Zenon DEF Compare
    <2>2. QED
      BY <1>2, <1>5, <2>1
  <1>6. QED
    BY <1>1, <1>3, <1>4, <1>5

-----------------------------------------------------------------------------
(* The counters                                                             *)

Counters(b, S) ==
    b \in [expected : Seq(S), total : Nat, errors : Nat,
           matched : Nat, dropped : Nat, extra : Nat]

\* b2 is the scoreboard b with the queue q and its counters advanced.
Advanced(S, b2, b, q, errors, matched, dropped, extra) ==
    /\ Counters(b2, S) /\ b2.expected = q /\ b2.total = b.total
    /\ b2.errors = b.errors + errors /\ b2.matched = b.matched + matched
    /\ b2.dropped = b.dropped + dropped /\ b2.extra = b.extra + extra

\* What each outcome of compare adds to the counters and takes off the queue.
LEMMA Outcomes ==
    ASSUME NEW S, NEW b, Counters(b, S), NEW b2, NEW q \in Seq(S)
    PROVE  /\ b2 = ExtraCommit(b) => Advanced(S, b2, b, b.expected, 1, 0, 0, 1)
           /\ b2 = WrongValue(b) /\ q = Tail(b.expected) => Advanced(S, b2, b, q, 1, 0, 0, 0)
           /\ \A k \in Nat : b2 = MatchAt(b, k) /\ q = SubSeq(b.expected, k + 2, Len(b.expected))
                                => Advanced(S, b2, b, q, k, 1, k, 0)
  <1> DEFINE Q == Seq(S)
             R == [expected : Q, total : Nat, errors : Nat, matched : Nat, dropped : Nat, extra : Nat]
  <1>1. b \in R /\ q \in Q /\ (b2 \in R => Counters(b2, S))
    BY DEF Counters
  <1> HIDE DEF Q
  <1>2. /\ b.errors \in Nat /\ b.matched \in Nat /\ b.dropped \in Nat /\ b.extra \in Nat
        /\ b.errors + 0 = b.errors /\ b.matched + 0 = b.matched
        /\ b.dropped + 0 = b.dropped /\ b.extra + 0 = b.extra
    <2>1. b.errors \in Nat /\ b.matched \in Nat /\ b.dropped \in Nat /\ b.extra \in Nat
      BY <1>1
    <2>2. \A n \in Nat : n + 0 = n
      OBVIOUS
    <2>3. QED
      BY <2>1, <2>2, Zenon
  <1>3. \A n, m \in Nat : n + m \in Nat
    OBVIOUS
  <1>4. ASSUME b2 = ExtraCommit(b) PROVE Advanced(S, b2, b, b.expected, 1, 0, 0, 1)
    <2>1. ASSUME NEW f \in Nat, NEW g \in Nat, b2 = [b EXCEPT !.errors = f, !.extra = g]
          PROVE  /\ b2 \in R /\ b2.expected = b.expected /\ b2.total = b.total /\ b2.errors = f
                 /\ b2.matched = b.matched /\ b2.dropped = b.dropped /\ b2.extra = g
      BY <1>1, <2>1
    <2>2. b.errors + 1 \in Nat /\ b.extra + 1 \in Nat
      BY <1>2, <1>3
    <2>3. b2 = [b EXCEPT !.errors = b.errors + 1, !.extra = b.extra + 1]
      BY <1>4, Zenon DEF ExtraCommit
    <2> HIDE DEF R
    <2>4. QED
      BY <1>1, <1>2, <2>1, <2>2, <2>3, Zenon DEF Advanced
  <1>5. ASSUME b2 = WrongValue(b), q = Tail(b.expected) PROVE Advanced(S, b2, b, q, 1, 0, 0, 0)
    <2>1. ASSUME NEW f \in Nat, b2 = [b EXCEPT !.expected = q, !.errors = f]
          PROVE  /\ b2 \in R /\ b2.expected = q /\ b2.total = b.total /\ b2.errors = f
                 /\ b2.matched = b.matched /\ b2.dropped = b.dropped /\ b2.extra = b.extra
      BY <1>1, <2>1
    <2>2. b.errors + 1 \in Nat
      BY <1>2, <1>3
    <2>3. b2 = [b EXCEPT !.expected = q, !.errors = b.errors + 1]
      BY <1>5, Zenon DEF WrongValue
    <2> HIDE DEF R
    <2>4. QED
      BY <1>1, <1>2, <2>1, <2>2, <2>3, Zenon DEF Advanced
  <1>6. ASSUME NEW k \in Nat, b2 = MatchAt(b, k), q = SubSeq(b.expected, k + 2, Len(b.expected))
        PROVE  Advanced(S, b2, b, q, k, 1, k, 0)
    <2>1. ASSUME NEW f \in Nat, NEW g \in Nat, NEW h \in Nat,
                 b2 = [b EXCEPT !.expected = q, !.errors = f, !.dropped = g, !.matched = h]
          PROVE  /\ b2 \in R /\ b2.expected = q /\ b2.total = b.total /\ b2.errors = f
                 /\ b2.matched = h /\ b2.dropped = g /\ b2.extra = b.extra
      BY <1>1, <2>1
    <2>2. b.errors + k \in Nat /\ b.dropped + k \in Nat /\ b.matched + 1 \in Nat
      BY <1>2, <1>3
    <2>3. b2 = [b EXCEPT !.expected = q, !.errors = b.errors + k,
                         !.dropped = b.dropped + k, !.matched = b.matched + 1]
      BY <1>6, Zenon DEF MatchAt
    <2> HIDE DEF R
    <2>4. QED
      BY <1>1, <1>2, <2>1, <2>2, <2>3, ZenonT(60) DEF Advanced
  <1>7. QED
    BY <1>4, <1>5, <1>6

-----------------------------------------------------------------------------
(* When no error is counted.                                                *)

\* No error has been counted after a compare exactly when none had been before and
\* the report was the front entry, and then that entry is gone.
LEMMA CompareClean ==
    ASSUME NEW S, NEW b, NEW c, Counters(b, S)
    PROVE  /\ Compare(b, c).errors = 0
                 <=> b.errors = 0 /\ b.expected # <<>> /\ c = Head(b.expected)
           /\ Compare(b, c).errors = 0 => Compare(b, c).expected = Tail(b.expected)
  <1> DEFINE b2 == Compare(b, c)
             q == b.expected
  <1>1. b.errors \in Nat /\ q \in Seq(S)
    BY DEF Counters
  <1>2. q # <<>> => Head(q) = q[1] /\ Len(q) \in Nat /\ Len(q) >= 1
    BY <1>1
  <1>3. \/ q = <<>> /\ b2 = ExtraCommit(b)
        \/ \E k \in 0 .. Len(q) - 1 :
              q[k + 1] = c /\ (k > 0 => q[1] # c) /\ b2 = MatchAt(b, k)
        \/ q # <<>> /\ q[1] # c /\ b2 = WrongValue(b)
    BY <1>1, CompareCases
  <1> HIDE DEF b2
  <1> DEFINE Goal == /\ b2.errors = 0 <=> b.errors = 0 /\ q # <<>> /\ c = Head(q)
                     /\ b2.errors = 0 => b2.expected = Tail(q)
  <1>4. ASSUME q = <<>>, b2 = ExtraCommit(b) PROVE Goal
    <2>1. Advanced(S, b2, b, b.expected, 1, 0, 0, 1)
      BY <1>1, <1>4, Outcomes
    <2>2. b2.errors = b.errors + 1
      BY <2>1 DEF Advanced
    <2>3. QED
      BY <1>1, <1>4, <2>2
  <1>5. ASSUME NEW k \in 0 .. Len(q) - 1, q[k + 1] = c, k > 0 => q[1] # c, b2 = MatchAt(b, k)
        PROVE  Goal
    <2>1. q # <<>>
      BY <1>1, <1>5
    <2>2. k \in Nat /\ SubSeq(q, k + 2, Len(q)) \in Seq(S)
      <3>1. k \in Nat /\ Len(q) \in Nat /\ k + 2 \in Int /\ \A n \in k + 2 .. Len(q) : q[n] \in S
        BY <1>1, <1>2, <2>1
      <3>2. QED
        BY <3>1, SubSeqProperties
    <2>3. b2.expected = SubSeq(q, k + 2, Len(q)) /\ b2.errors = b.errors + k
      <3> DEFINE t == SubSeq(q, k + 2, Len(q))
      <3>1. t \in Seq(S) /\ t = SubSeq(b.expected, k + 2, Len(b.expected))
        BY <2>2
      <3> HIDE DEF t
      <3>2. Advanced(S, b2, b, t, k, 1, k, 0)
        BY <1>5, <2>2, <3>1, Outcomes, Zenon
      <3>3. QED
        BY <3>1, <3>2, Zenon DEF Advanced
    <2>4. k = 0 => SubSeq(q, k + 2, Len(q)) = Tail(q)
      <3>1. Tail(q) = SubSeq(q, 2, Len(q))
        BY <1>1, <2>1, TailIsSubSeq
      <3>2. QED
        BY <3>1
    <2>5. b.errors + k = 0 <=> b.errors = 0 /\ k = 0
      BY <1>1, <2>2
    <2>6. c = Head(q) <=> k = 0
      <3>1. CASE k = 0
        BY <1>2, <1>5, <2>1, <3>1
      <3>2. CASE k > 0
        BY <1>2, <1>5, <2>1, <3>2
      <3>3. QED
        BY <2>2, <3>1, <3>2
    <2> HIDE DEF q
    <2>7. QED
      BY <2>1, <2>3, <2>4, <2>5, <2>6
  <1>6. ASSUME q # <<>>, q[1] # c, b2 = WrongValue(b) PROVE Goal
    <2>1. Tail(q) \in Seq(S)
      BY <1>1, <1>6, HeadTailProperties
    <2>2. Advanced(S, b2, b, Tail(q), 1, 0, 0, 0)
      BY <1>6, <2>1, Outcomes
    <2>3. b2.errors = b.errors + 1
      BY <2>2 DEF Advanced
    <2>4. QED
      BY <1>1, <1>2, <1>6, <2>3
  <1>7. QED
    BY <1>3, <1>4, <1>5, <1>6 DEF b2

\* A compare leaves a well-formed scoreboard, whatever commit it is given.
LEMMA CompareType ==
    ASSUME NEW S, NEW b, NEW c, Counters(b, S)
    PROVE  Counters(Compare(b, c), S)
  <1> DEFINE b2 == Compare(b, c)
             q == b.expected
  <1>1. q \in Seq(S)
    BY DEF Counters
  <1>2. \/ q = <<>> /\ b2 = ExtraCommit(b)
        \/ \E k \in 0 .. Len(q) - 1 : b2 = MatchAt(b, k)
        \/ q # <<>> /\ b2 = WrongValue(b)
    BY <1>1, CompareCases
  <1> HIDE DEF b2
  <1>3. ASSUME b2 = ExtraCommit(b) PROVE Counters(b2, S)
    <2>1. Advanced(S, b2, b, q, 1, 0, 0, 1)
      BY <1>1, <1>3, Outcomes
    <2>2. QED
      BY <2>1 DEF Advanced
  <1>4. ASSUME NEW k \in 0 .. Len(q) - 1, b2 = MatchAt(b, k) PROVE Counters(b2, S)
    <2> DEFINE t == SubSeq(q, k + 2, Len(q))
    <2>1. k \in Nat /\ t \in Seq(S)
      <3>1. k \in Nat /\ Len(q) \in Nat /\ k + 2 \in Int /\ \A n \in k + 2 .. Len(q) : q[n] \in S
        BY <1>1
      <3>2. QED
        BY <3>1, SubSeqProperties
    <2>2. t = SubSeq(b.expected, k + 2, Len(b.expected))
      OBVIOUS
    <2> HIDE DEF t
    <2>3. Advanced(S, b2, b, t, k, 1, k, 0)
      BY <1>4, <2>1, <2>2, Outcomes, Zenon
    <2>4. QED
      BY <2>3 DEF Advanced
  <1>5. ASSUME q # <<>>, b2 = WrongValue(b) PROVE Counters(b2, S)
    <2>1. Tail(q) \in Seq(S)
      BY <1>1, <1>5, HeadTailProperties
    <2>2. Advanced(S, b2, b, Tail(q), 1, 0, 0, 0)
      BY <1>5, <2>1, Outcomes
    <2>3. QED
      BY <2>2 DEF Advanced
  <1>6. QED
    BY <1>2, <1>3, <1>4, <1>5 DEF b2
=============================================================================
