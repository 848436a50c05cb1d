------------------------------ MODULE AluProofs ------------------------------
(***************************************************************************)
(* Theorems about the ALU and its testbench: the golden model's products   *)
(* and quotients are the RTL's shifts of bit vectors, at every width; so   *)
(* no transaction of any plan blames a sound device; and what the coverage *)
(* model rules out, and what it aims at, is what the operands can reach.   *)
(***************************************************************************)
EXTENDS AluBench, CommonLemmas

(* Bits of an integer                                                       *)

\* A quotient and a remainder are integers.
LEMMA DivType == ASSUME NEW a \in Int, NEW b \in Int, b > 0 PROVE a \div b \in Int /\ a % b \in Int
  OBVIOUS

\* Dividing by a product is dividing by its factors in turn.
LEMMA DivDiv ==
    ASSUME NEW a \in Int, NEW b \in Int, NEW c \in Int, b > 0, c > 0
    PROVE  a \div (b * c) = (a \div b) \div c
  <1> DEFINE q == a \div b
             r == a % b
             h == q \div c
             l == q % c
  <1>1. a = b * q + r
    BY Z3
  <1>2. q \in Int /\ r \in Int /\ 0 <= r /\ r < b
    OBVIOUS
  <1> HIDE DEF q, r
  <1>3. q = c * h + l
    BY <1>2, Z3
  <1>4. h \in Int /\ l \in Int /\ 0 <= l /\ l < c
    BY <1>2
  <1> HIDE DEF h, l
  <1>5. b * c >= b /\ b * c \in Int /\ b * c > 0
    BY ProductGrows
  <1>6. b * q = (b * c) * h + b * l
    <2>1. b * q = b * (c * h) + b * l
      BY <1>3, <1>4
    <2>2. b * (c * h) = (b * c) * h
      BY <1>4
    <2>3. QED
      BY <2>1, <2>2
  <1>7. b * l >= 0 /\ b * l + b <= b * c /\ b * l \in Int /\ (b * c) * h \in Int
    <2>1. b * l \in Int /\ b * l >= 0 /\ (b * c) * h \in Int
      BY <1>4, <1>5
    <2>2. b * (c - l) >= b
      BY <1>4, ProductGrows
    <2>3. b * (c - l) = b * c - b * l
      BY <1>4
    <2>4. QED
      BY <1>5, <2>1, <2>2, <2>3
  <1>8. b * l + r \in Int /\ 0 <= b * l + r /\ b * l + r < b * c /\ a = (b * c) * h + (b * l + r)
    <2>1. a = ((b * c) * h + b * l) + r
      BY <1>1, <1>6
    <2> DEFINE x == b * l
               y == (b * c) * h
               z == b * c
    <2>2. x \in Int /\ y \in Int /\ z \in Int /\ x >= 0 /\ x + b <= z /\ a = (y + x) + r
      BY <1>5, <1>7, <2>1
    <2> HIDE DEF x, y, z
    <2>3. x + r \in Int /\ 0 <= x + r /\ x + r < z /\ a = y + (x + r)
      BY <1>2, <2>2
    <2>4. QED
      BY <2>3 DEF x, y, z
  <1>9. a \div (b * c) = h
    BY <1>4, <1>5, <1>8, DivUnique
  <1>10. QED
    BY <1>9 DEF h, q

\* Bit i of an integer, which may be negative.
Bit(x, i) == (x \div 2^i) % 2

\* The positions of a word at which an integer has ones.
Ones(x) == {i \in BitPos : Bit(x, i) = 1}

\* They are the ones of a word.
LEMMA BitsAreOnes == ASSUME NEW a PROVE BitsOf(a) = Ones(a)
  BY DEF BitsOf, Ones, Bit

\* Truncation keeps the bits.
LEMMA BitOfTrunc ==
    ASSUME NEW x \in Int, NEW i \in BitPos PROVE Bit(Trunc(x), i) = Bit(x, i)
  <1> DEFINE b == 2^i
             v == 2^((XLEN - i) - 1)
             k == x \div WordMod
             t == x % WordMod
             q == t \div b
             r == t % b
  <1>1. /\ i \in Nat /\ (XLEN - i) - 1 \in Nat /\ i + ((XLEN - i) - 1) = XLEN - 1 /\ XLEN - 1 \in 0 .. XLEN - 1
        /\ i \in 0 .. XLEN /\ (XLEN - i) - 1 \in 0 .. XLEN /\ (XLEN - 1) + 1 = XLEN
        /\ i + ((XLEN - i) - 1) <= XLEN
    BY WordFacts DEF BitPos
  <1>2. b \in Int /\ b > 0 /\ v \in Int /\ v > 0
    BY <1>1, PowerType
  <1>3. WordMod = 2 * (b * v)
    <2>1. 2^(XLEN - 1) = b * v
      BY <1>1, PowerSum
    <2>2. 2^((XLEN - 1) + 1) = 2 * 2^(XLEN - 1)
      BY <1>1, PowerAssumption
    <2>3. QED
      BY <1>1, <2>1, <2>2 DEF WordMod
  <1>4. x = WordMod * k + t /\ k \in Int /\ t \in Int
    BY WordFacts, Z3
  <1> HIDE DEF k, t
  <1>5. t = b * q + r
    BY <1>2, <1>4, Z3
  <1>6. q \in Int /\ r \in Int /\ 0 <= r /\ r < b
    BY <1>2, <1>4
  <1> HIDE DEF q, r, b, v
  <1>7. x = b * (2 * (v * k) + q) + r
    <2>1. (2 * (b * v)) * k = b * (2 * (v * k))
      BY <1>2, <1>4
    <2>2. b * (2 * (v * k) + q) = b * (2 * (v * k)) + b * q
      BY <1>2, <1>4, <1>6
    <2>3. b * (2 * (v * k)) \in Int /\ b * q \in Int
      BY <1>2, <1>4, <1>6
    <2>4. QED
      BY <1>3, <1>4, <1>5, <1>6, <2>1, <2>2, <2>3
  <1>8. v * k \in Int
    BY <1>2, <1>4
  <1>9. x \div b = 2 * (v * k) + q
    <2>1. 2 * (v * k) + q \in Int
      BY <1>6, <1>8
    <2>2. QED
      BY <1>2, <1>6, <1>7, <2>1, DivUnique
  <1>10. (2 * (v * k) + q) % 2 = q % 2
    BY <1>6, <1>8
  <1>11. QED
    BY <1>9, <1>10 DEF Bit, Trunc, t, q, b

\* Put together from its bits, an integer is what a word keeps of it: each step of
\* WordOf recovers the quotient by the next lower power.
LEMMA OnesMakeWord == ASSUME NEW x \in Int PROVE WordOf(Ones(x)) = Trunc(x)
  <1> DEFINE S == Ones(x)
             w == Trunc(x)
  <1>1. w \in Int /\ 0 <= w /\ w < WordMod /\ XLEN \in Nat
    BY WordFacts, TruncType DEF Word
  <1> HIDE DEF w
  <1>2. w \div 2^XLEN = 0
    <2>1. w = WordMod * 0 + w /\ WordMod \in Int
      BY <1>1, WordFacts
    <2>2. QED
      BY <1>1, <2>1, DivUnique DEF WordMod
  <1>3. ASSUME NEW k \in 1 .. XLEN
        PROVE  w \div 2^(XLEN - k) = 2 * (w \div 2^(XLEN - (k - 1))) + (IF XLEN - k \in S THEN 1 ELSE 0)
    <2> DEFINE i == XLEN - k
               y == w \div 2^i
    <2>1. i \in BitPos /\ i \in 0 .. XLEN - 1 /\ i \in 0 .. XLEN /\ XLEN - (k - 1) = i + 1
      BY <1>1 DEF BitPos
    <2>2. 2^(XLEN - (k - 1)) = 2^i * 2
      <3>1. 2^(i + 1) = 2 * 2^i /\ 2^i \in Int
        BY <2>1, PowerAssumption, PowerType
      <3>2. QED
        BY <2>1, <3>1
    <2>3. y \in Int /\ w \div 2^(XLEN - (k - 1)) = y \div 2
      <3>1. 2^i \in Int /\ 2^i > 0
        BY <2>1, PowerType
      <3>2. y \in Int
        BY <1>1, <3>1, DivType
      <3>3. w \div (2^i * 2) = y \div 2
        BY <1>1, <3>1, DivDiv
      <3>4. QED
        BY <2>2, <3>2, <3>3
    <2>4. (IF i \in S THEN 1 ELSE 0) = y % 2
      <3>1. i \in S <=> Bit(x, i) = 1
        BY <2>1 DEF Ones
      <3>2. Bit(x, i) = Bit(w, i)
        BY <2>1, BitOfTrunc DEF w
      <3>3. Bit(w, i) = y % 2
        BY DEF Bit
      <3>4. y % 2 \in {0, 1}
        BY <2>3
      <3>5. QED
        BY <3>1, <3>2, <3>3, <3>4
    <2> HIDE DEF y
    <2>5. y = 2 * (y \div 2) + (y % 2)
      BY <2>3
    <2>6. QED
      BY <2>3, <2>4, <2>5 DEF y
  <1>4. PICK high : /\ WordOf(S) = high[XLEN] /\ high[0] = 0
                    /\ \A k \in 1 .. XLEN :
                          high[k] = 2 * high[k - 1] + (IF XLEN - k \in S THEN 1 ELSE 0)
    BY WordOfSteps
  <1> DEFINE M == {k \in Nat : k <= XLEN => high[k] = w \div 2^(XLEN - k)}
  <1>5. 0 \in M
    <2>1. XLEN - 0 = XLEN
      BY <1>1
    <2>2. QED
      BY <1>2, <1>4, <2>1
  <1>6. ASSUME NEW k \in Nat, k \in M PROVE k + 1 \in M
    <2> SUFFICES ASSUME k + 1 <= XLEN PROVE high[k + 1] = w \div 2^(XLEN - (k + 1))
      OBVIOUS
    <2>1. k + 1 \in 1 .. XLEN /\ (k + 1) - 1 = k /\ k <= XLEN
      BY <1>1
    <2>2. high[k] = w \div 2^(XLEN - k)
      BY <1>6, <2>1
    <2> HIDE DEF S, M
    <2>3. w \div 2^(XLEN - (k + 1)) = 2 * high[k] + (IF XLEN - (k + 1) \in S THEN 1 ELSE 0)
      BY <1>3, <2>1, <2>2
    <2>4. high[k + 1] = 2 * high[k] + (IF XLEN - (k + 1) \in S THEN 1 ELSE 0)
      BY <1>4, <2>1
    <2>5. QED
      BY <2>3, <2>4
  <1>7. XLEN \in M
    <2> HIDE DEF M
    <2>1. QED
      BY <1>1, <1>5, <1>6, SetInduction
  <1>8. high[XLEN] = w
    <2>1. XLEN - XLEN = 0 /\ w \div 1 = w
      BY <1>1
    <2>2. QED
      BY <1>1, <1>7, <2>1, PowerAssumption
  <1>9. QED
    BY <1>4, <1>8 DEF w

\* Shifting right by n and then reading at i is reading at n + i,
LEMMA BitOfQuotient ==
    ASSUME NEW x \in Int, NEW n \in Nat, NEW i \in Nat, n + i <= XLEN
    PROVE  (x \div 2^n) \div 2^i = x \div 2^(n + i)
  <1>1. 2^(n + i) = 2^n * 2^i
    BY PowerSum
  <1>2. n \in 0 .. XLEN /\ i \in 0 .. XLEN
    BY WordFacts
  <1>3. 2^n \in Int /\ 2^n > 0 /\ 2^i \in Int /\ 2^i > 0
    BY <1>2, PowerType
  <1>4. x \div (2^n * 2^i) = (x \div 2^n) \div 2^i
    <2> DEFINE p == 2^n
               b == 2^i
    <2>1. p \in Int /\ p > 0 /\ b \in Int /\ b > 0
      BY <1>3
    <2> HIDE DEF p, b
    <2>2. x \div (p * b) = (x \div p) \div b
      BY <2>1, DivDiv
    <2>3. QED
      BY <2>2 DEF p, b
  <1>5. QED
    BY <1>1, <1>4

\* a product with 2^n has nothing below n and the bits moved up above,
LEMMA BitOfProduct ==
    ASSUME NEW x \in Int, NEW n \in 0 .. XLEN, NEW i \in BitPos
    PROVE  Bit(x * 2^n, i) = IF i < n THEN 0 ELSE Bit(x, i - n)
  <1> DEFINE p == 2^n
             b == 2^i
  <1>1. n \in Nat /\ i \in Nat /\ i <= XLEN /\ i \in 0 .. XLEN /\ XLEN \in Nat /\ n <= XLEN
    BY WordFacts DEF BitPos
  <1>2. p \in Int /\ p > 0 /\ b \in Int /\ b > 0
    BY <1>1, PowerType
  <1>3. x * p \in Int
    BY <1>2
  <1>4. CASE i < n
    <2> DEFINE v == 2^((n - i) - 1)
    <2>1. /\ (n - i) - 1 \in Nat /\ (n - i) - 1 \in 0 .. XLEN /\ i + ((n - i) - 1) = n - 1
          /\ n - 1 <= XLEN /\ n - 1 \in 0 .. XLEN - 1 /\ (n - 1) + 1 = n
      BY <1>1, <1>4
    <2>2. v \in Int
      BY <2>1, PowerType
    <2>3. p = 2 * (b * v)
      <3>1. 2^(n - 1) = b * v
        BY <1>1, <2>1, PowerSum
      <3>2. 2^((n - 1) + 1) = 2 * 2^(n - 1)
        BY <2>1, PowerAssumption
      <3>3. QED
        BY <2>1, <3>1, <3>2
    <2> HIDE DEF p, b, v
    <2>4. x * (2 * (b * v)) = b * (2 * (x * v)) + 0
      BY <1>2, <2>2
    <2>5. x * v \in Int /\ 2 * (x * v) \in Int
      BY <2>2
    <2>6. (x * p) \div b = 2 * (x * v)
      BY <1>2, <1>3, <2>3, <2>4, <2>5, DivUnique
    <2>7. (2 * (x * v)) % 2 = 0
      BY <2>5
    <2>8. QED
      BY <1>4, <2>6, <2>7 DEF Bit, p, b
  <1>5. CASE ~(i < n)
    <2>1. i - n \in Nat /\ n + (i - n) = i /\ n + (i - n) <= XLEN
      BY <1>1, <1>5
    <2>2. (x * p) \div p = x
      <3>1. x * p = p * x + 0
        BY <1>2
      <3>2. QED
        BY <1>2, <1>3, <3>1, DivUnique
    <2>3. ((x * p) \div p) \div 2^(i - n) = (x * p) \div 2^(n + (i - n))
      BY <1>1, <1>3, <2>1, BitOfQuotient
    <2>4. QED
      BY <1>5, <2>1, <2>2, <2>3 DEF Bit
  <1>6. QED
    BY <1>4, <1>5

\* and what is left of 0 and of -1 when divided is 0 and -1,
LEMMA SignStays ==
    ASSUME NEW b \in Int, b > 0 PROVE 0 \div b = 0 /\ (-1) \div b = -1
  <1>1. 0 = b * 0 + 0 /\ -1 = b * (-1) + (b - 1)
    OBVIOUS
  <1>2. b - 1 \in Int /\ 0 <= b - 1 /\ b - 1 < b /\ -1 \in Int
    OBVIOUS
  <1>3. 0 \div b = 0
    BY <1>1, DivUnique
  <1>4. (-1) \div b = -1
    BY <1>1, <1>2, DivUnique
  <1>5. QED
    BY <1>3, <1>4

\* so that beyond the sign there are only copies of it.
LEMMA SignBits ==
    ASSUME NEW x \in Int, NEW n \in Nat, n <= XLEN, NEW v \in {0, -1}, x \div 2^n = v, NEW i \in Nat, n <= i, i <= XLEN
    PROVE  x \div 2^i = v
  <1>1. i - n \in Nat /\ n + (i - n) = i /\ n + (i - n) <= XLEN /\ i - n \in 0 .. XLEN
    BY WordFacts
  <1>2. 2^(i - n) \in Int /\ 2^(i - n) > 0
    BY <1>1, PowerType
  <1>3. x \div 2^i = v \div 2^(i - n)
    BY <1>1, BitOfQuotient
  <1>4. QED
    BY <1>2, <1>3, SignStays

-----------------------------------------------------------------------------
(* Shifts of bit vectors are products and quotients                         *)

\* A word loses nothing when truncated.
LEMMA TruncWord == ASSUME NEW w \in Word PROVE Trunc(w) = w
  BY WordFacts DEF Trunc, Word

\* A number below the divisor leaves no quotient.
LEMMA SmallQuotient == ASSUME NEW w \in Int, NEW b \in Int, 0 <= w, w < b PROVE w \div b = 0
  <1>1. w = b * 0 + w
    OBVIOUS
  <1>2. QED
    BY <1>1, DivUnique

\* Shifting left multiplies.
LEMMA LeftShift ==
    ASSUME NEW a \in Word, NEW n \in Nat
    PROVE  ShiftLeft(a, n) = Trunc(a * 2^(IF n < XLEN THEN n ELSE XLEN))
  <1> DEFINE m == IF n < XLEN THEN n ELSE XLEN
             x == a * 2^m
  <1>1. m \in 0 .. XLEN /\ m \in Nat /\ m <= n /\ XLEN \in Nat /\ (m = n \/ (m = XLEN /\ n >= XLEN))
    BY WordFacts
  <1>2. a \in Int
    BY WordFacts DEF Word
  <1>3. x \in Int
    BY <1>1, <1>2, PowerType
  <1> HIDE DEF m
  <1>4. ASSUME NEW i \in BitPos PROVE (\E j \in Ones(a) : i = j + n) <=> i \in Ones(x)
    <2>1. Bit(x, i) = IF i < m THEN 0 ELSE Bit(a, i - m)
      BY <1>1, <1>2, BitOfProduct
    <2>2. i \in Nat /\ i < XLEN
      BY <1>1 DEF BitPos
    <2>3. CASE i < m
      BY <1>1, <2>1, <2>2, <2>3 DEF Ones, BitPos
    <2>4. CASE ~(i < m)
      <3>1. m = n /\ i - n \in BitPos /\ i = (i - n) + n
        BY <1>1, <2>2, <2>4 DEF BitPos
      <3>2. Bit(x, i) = Bit(a, i - n)
        BY <2>1, <2>4, <3>1
      <3>3. \A j \in BitPos : i = j + n => j = i - n
        BY <1>1, <2>2 DEF BitPos
      <3>4. QED
        BY <3>1, <3>2, <3>3 DEF Ones
    <2>5. QED
      BY <2>3, <2>4
  <1>5. {j + n : j \in BitsOf(a)} \cap BitPos = Ones(x)
    BY <1>4, BitsAreOnes DEF Ones
  <1>6. QED
    BY <1>3, <1>5, OnesMakeWord DEF ShiftLeft, m

\* Shifting right divides.
LEMMA RightShift ==
    ASSUME NEW a \in Word, NEW n \in Nat
    PROVE  ShiftRight(a, n) = a \div 2^(IF n < XLEN THEN n ELSE XLEN)
  <1> DEFINE m == IF n < XLEN THEN n ELSE XLEN
             x == a \div 2^m
  <1>1. m \in 0 .. XLEN /\ m \in Nat /\ m <= n /\ m <= XLEN /\ XLEN \in Nat /\ (m = n \/ (m = XLEN /\ n >= XLEN))
    BY WordFacts
  <1>2. a \in Int /\ 0 <= a /\ a < WordMod /\ WordMod \in Int
    BY WordFacts DEF Word
  <1>3. x \in Int
    BY <1>1, <1>2, PowerType, DivType
  <1> HIDE DEF m
  <1>4. ASSUME NEW i \in BitPos PROVE (\E j \in Ones(a) : i = j - n) <=> i \in Ones(x)
    <2>1. i \in Nat /\ i < XLEN /\ i <= XLEN
      BY <1>1 DEF BitPos
    <2>2. CASE m + i < XLEN
      <3>1. m = n /\ i + n \in BitPos /\ i = (i + n) - n /\ m + i <= XLEN /\ m + i = i + n
        BY <1>1, <2>1, <2>2 DEF BitPos
      <3>2. x \div 2^i = a \div 2^(i + n)
        BY <1>1, <1>2, <2>1, <3>1, BitOfQuotient
      <3>3. Bit(x, i) = Bit(a, i + n)
        BY <3>2 DEF Bit
      <3>4. \A j \in BitPos : i = j - n => j = i + n
        BY <1>1, <2>1 DEF BitPos
      <3>5. QED
        BY <3>1, <3>3, <3>4 DEF Ones
    <2>3. CASE ~(m + i < XLEN)
      <3>1. \A j \in BitPos : i # j - n
        BY <1>1, <2>1, <2>3 DEF BitPos
      <3>2. /\ XLEN - m \in Nat /\ m + (XLEN - m) = XLEN /\ m + (XLEN - m) <= XLEN /\ XLEN - m <= XLEN
            /\ XLEN - m <= i
        BY <1>1, <2>1, <2>3
      <3>3. x \div 2^(XLEN - m) = 0
        <4>1. x \div 2^(XLEN - m) = a \div 2^(m + (XLEN - m))
          BY <1>1, <1>2, <3>2, BitOfQuotient
        <4>2. a \div WordMod = 0
          BY <1>2, SmallQuotient
        <4>3. QED
          BY <3>2, <4>1, <4>2 DEF WordMod
      <3>4. x \div 2^i = 0
        <4> HIDE DEF x
        <4>1. 0 \in {0, -1}
          OBVIOUS
        <4>2. QED
          BY <1>3, <2>1, <3>2, <3>3, <4>1, SignBits
      <3>5. Bit(x, i) = 0
        BY <3>4 DEF Bit
      <3>6. QED
        BY <3>1, <3>5 DEF Ones
    <2>4. QED
      BY <2>2, <2>3
  <1>5. {j - n : j \in BitsOf(a)} \cap BitPos = Ones(x)
    BY <1>4, BitsAreOnes DEF Ones
  <1>6. x \in Word
    <2> DEFINE p == 2^m
    <2>1. p \in Int /\ p > 0
      BY <1>1, PowerType
    <2> HIDE DEF p
    <2>2. 0 <= a \div p /\ a \div p <= a
      BY <1>2, <2>1
    <2>3. QED
      BY <1>2, <1>3, <2>2, WordFacts DEF Word, p
  <1>7. QED
    BY <1>3, <1>5, <1>6, OnesMakeWord, TruncWord DEF ShiftRight, m

\* A word and the integer it stands for have the same bits; the sign is what dividing by
\* the weight of the sign bit leaves.
LEMMA SignOf ==
    ASSUME NEW a \in Word
    PROVE  /\ Signed(a) \in Int /\ Trunc(Signed(a)) = a
           /\ Signed(a) \div 2^(XLEN - 1) \in {0, -1}
           /\ Bit(a, XLEN - 1) = (Signed(a) \div 2^(XLEN - 1)) % 2
  <1> DEFINE h == 2^(XLEN - 1)
             s == Signed(a)
  <1>1. h \in Int /\ h > 0 /\ WordMod = 2 * h /\ a \in Int /\ 0 <= a /\ a < 2 * h
    BY HalfWord DEF Word
  <1>2. s = IF a < h THEN a ELSE a - 2 * h
    BY <1>1 DEF Signed
  <1> HIDE DEF h, s
  <1>3. s \in Int
    BY <1>1, <1>2
  <1>4. s % (2 * h) = a
    <2>1. a = (2 * h) * 0 + a /\ a - 2 * h = (2 * h) * (-1) + a /\ 2 * h \in Int /\ 2 * h > 0
      BY <1>1
    <2>2. -1 \in Int
      OBVIOUS
    <2>3. CASE s = a
      BY <1>1, <2>1, <2>3, DivUnique
    <2>4. CASE s = a - 2 * h
      BY <1>1, <1>3, <2>1, <2>2, <2>4, DivUnique
    <2>5. QED
      BY <1>2, <2>3, <2>4
  <1>5. CASE a < h
    <2>1. a = h * 0 + a
      BY <1>1
    <2>2. a \div h = 0
      BY <1>1, <1>5, <2>1, DivUnique
    <2>3. s = a
      BY <1>2, <1>5
    <2>4. QED
      BY <1>1, <1>3, <1>4, <2>2, <2>3 DEF s, h, Bit, Trunc
  <1>6. CASE ~(a < h)
    <2>1. a = h * 1 + (a - h) /\ a - 2 * h = h * (-1) + (a - h) /\ a - h \in Int /\ 0 <= a - h /\ a - h < h
      BY <1>1, <1>6
    <2>2. -1 \in Int /\ s = a - 2 * h
      BY <1>2, <1>6
    <2>3. a \div h = 1
      BY <1>1, <2>1, DivUnique
    <2>4. s \div h = -1
      BY <1>1, <1>3, <2>1, <2>2, DivUnique
    <2>5. 1 % 2 = 1 /\ (-1) % 2 = 1
      <3>1. ASSUME NEW n \in Int, n = -1 PROVE n % 2 = 1
        <4>1. n = 2 * n + 1
          BY <3>1
        <4>2. QED
          BY <4>1, DivUnique
      <3>2. -1 \in Int /\ 1 % 2 = 1
        OBVIOUS
      <3>3. QED
        BY <3>1, <3>2, Zenon
    <2>6. QED
      BY <1>1, <1>3, <1>4, <2>3, <2>4, <2>5 DEF s, h, Bit, Trunc
  <1>7. QED
    BY <1>5, <1>6

\* The sign fills what an arithmetic shift vacates: it divides the signed number.
LEMMA ArithmeticShift ==
    ASSUME NEW a \in Word, NEW n \in Nat
    PROVE  ShiftRightArith(a, n) = Trunc(Signed(a) \div 2^(IF n < XLEN THEN n ELSE XLEN))
  <1> DEFINE m == IF n < XLEN THEN n ELSE XLEN
             s == Signed(a)
             top == XLEN - 1
             v == s \div 2^top
             x == s \div 2^m
  <1>1. m \in 0 .. XLEN /\ m \in Nat /\ m <= n /\ m <= XLEN /\ XLEN \in Nat /\ (m = n \/ (m = XLEN /\ n >= XLEN))
    BY WordFacts
  <1>2. s \in Int /\ v \in {0, -1} /\ Bit(a, top) = v % 2 /\ Trunc(s) = a
    BY SignOf
  <1>3. top \in BitPos /\ top \in Nat /\ top <= XLEN
    BY HalfWord
  <1> HIDE DEF m, s
  <1>4. x \in Int
    BY <1>1, <1>2, PowerType, DivType
  <1>5. \A i \in BitPos : Bit(a, i) = Bit(s, i)
    BY <1>2, BitOfTrunc
  <1>6. ASSUME NEW i \in BitPos
        PROVE  ((IF i + n < XLEN THEN i + n ELSE top) \in Ones(a)) <=> i \in Ones(x)
    <2>1. i \in Nat /\ i < XLEN /\ i <= XLEN
      BY <1>1 DEF BitPos
    <2>2. CASE i + n < XLEN
      <3>1. m = n /\ i + n \in BitPos /\ m + i <= XLEN /\ m + i = i + n
        BY <1>1, <2>1, <2>2 DEF BitPos
      <3>2. x \div 2^i = s \div 2^(i + n)
        BY <1>1, <1>2, <2>1, <3>1, BitOfQuotient
      <3>3. Bit(x, i) = Bit(a, i + n)
        BY <1>5, <3>1, <3>2 DEF Bit
      <3>4. QED
        BY <2>2, <3>1, <3>3 DEF Ones
    <2>3. CASE ~(i + n < XLEN)
      <3>1. x \div 2^i = v
        <4>1. CASE m = XLEN
          <5>1. x = v
            BY <1>1, <1>2, <1>3, <4>1, SignBits
          <5>2. 2^i \in Int /\ 2^i > 0
            BY <1>1, <2>1, PowerType
          <5>3. QED
            BY <1>2, <5>1, <5>2, SignStays
        <4>2. CASE m # XLEN
          <5>1. /\ m = n /\ top - m \in Nat /\ m + (top - m) = top /\ m + (top - m) <= XLEN /\ top - m <= XLEN
                /\ top - m <= i
            BY <1>1, <2>1, <2>3, <4>2
          <5>2. x \div 2^(top - m) = s \div 2^(m + (top - m))
            BY <1>1, <1>2, <5>1, BitOfQuotient
          <5>3. x \div 2^(top - m) = v
            BY <5>1, <5>2
          <5> HIDE DEF x, v, top
          <5>4. QED
            BY <1>2, <1>4, <2>1, <5>1, <5>3, SignBits
        <4>3. QED
          BY <4>1, <4>2
      <3>2. Bit(x, i) = Bit(a, top)
        BY <1>2, <3>1 DEF Bit
      <3>3. QED
        BY <1>3, <2>3, <3>2 DEF Ones
    <2>4. QED
      BY <2>2, <2>3
  <1>7. {i \in BitPos : (IF i + n < XLEN THEN i + n ELSE XLEN - 1) \in BitsOf(a)} = Ones(x)
    BY <1>6, BitsAreOnes DEF Ones
  <1>8. QED
    BY <1>4, <1>7, OnesMakeWord DEF ShiftRightArith, m, s

\* The golden model and alu.cpp, which shift by multiplying and dividing, are the RTL,
\* whatever the operation, the operands and the width of a word.
THEOREM GoldenAluIsRtl ==
    \A op \in AluOp, a, b \in Word : golden_alu(op, a, b) = AluResult(op, a, b)
  <1> SUFFICES ASSUME NEW op \in AluOp, NEW a \in Word, NEW b \in Word
               PROVE  golden_alu(op, a, b) = AluResult(op, a, b)
    OBVIOUS
  <1> DEFINE n == b % 32
             p == 2^(IF n < XLEN THEN n ELSE XLEN)
  <1>1. n \in Nat /\ ShAmt(b) = n /\ Pow(n) = p
    <2>1. n \in Nat
      BY WordIsInt
    <2>2. QED
      BY <2>1 DEF ShAmt, Pow
  <1> HIDE DEF n
  <1>2. ShiftLeft(a, n) = Trunc(a * p) /\ ShiftRight(a, n) = a \div p
          /\ ShiftRightArith(a, n) = Trunc(Signed(a) \div p)
    BY <1>1, LeftShift, RightShift, ArithmeticShift
  <1> HIDE DEF p
  <1>3. /\ op = "SLL" => golden_alu(op, a, b) = Trunc(a * Pow(b % 32)) /\ AluResult(op, a, b) = ShiftLeft(a, ShAmt(b))
        /\ op = "SRL" => golden_alu(op, a, b) = a \div Pow(b % 32) /\ AluResult(op, a, b) = ShiftRight(a, ShAmt(b))
        /\ op = "SRA" => /\ golden_alu(op, a, b) = Trunc(Signed(a) \div Pow(b % 32))
                         /\ AluResult(op, a, b) = ShiftRightArith(a, ShAmt(b))
    BY DEF golden_alu, AluResult
  <1>4. op \notin {"SLL", "SRL", "SRA"} => golden_alu(op, a, b) = AluResult(op, a, b)
    BY DEF golden_alu, AluResult, AluOp
  <1>5. QED
    BY <1>1, <1>2, <1>3, <1>4 DEF n

-----------------------------------------------------------------------------
(* Categories of operands                                                   *)

Tx == AluOp \X Word \X Word

\* Where the special operands lie.
LEMMA SpecialOperands ==
    /\ MIN_WORD \in Int /\ MIN_WORD >= 64 /\ WordMod = 2 * MIN_WORD /\ MAX_WORD = 2 * MIN_WORD - 1
    /\ PATTERN5 \in Int /\ 40 < PATTERN5 /\ PATTERN5 < MIN_WORD
    /\ PATTERNA \in Int /\ MIN_WORD < PATTERNA /\ PATTERNA < MAX_WORD
  <1>1. MIN_WORD \in Int /\ MIN_WORD >= 64 /\ WordMod = 2 * MIN_WORD
    BY WordFacts, DrawAssumption DEF MIN_WORD
  <1>2. MAX_WORD \in Int /\ MAX_WORD = 2 * MIN_WORD - 1
    BY <1>1 DEF MAX_WORD
  <1>3. PATTERN5 \in Int /\ 3 * PATTERN5 <= MAX_WORD /\ MAX_WORD < 3 * PATTERN5 + 3
    BY <1>2 DEF PATTERN5
  <1> HIDE DEF MIN_WORD, MAX_WORD, PATTERN5
  <1>4. QED
    BY <1>1, <1>2, <1>3 DEF PATTERNA

\* An operand's category says which of them it is,
LEMMA OperandCategories ==
    ASSUME NEW w \in Word
    PROVE  /\ get_operand_category(w) \in OperandCategory
           /\ get_operand_category(w) = "ZERO" <=> w = 0
           /\ get_operand_category(w) = "MAX" <=> w = MAX_WORD
           /\ get_operand_category(w) = "MIN" <=> w = MIN_WORD
           /\ get_operand_category(w) = "PATTERN" <=> w \in {PATTERN5, PATTERNA}
           /\ get_operand_category(w) = "RANDOM" <=> w \notin kSpecial
  <1>1. /\ 0 # MAX_WORD /\ 0 # MIN_WORD /\ 0 # PATTERN5 /\ 0 # PATTERNA /\ MAX_WORD # MIN_WORD
        /\ MAX_WORD # PATTERN5 /\ MAX_WORD # PATTERNA /\ MIN_WORD # PATTERN5 /\ MIN_WORD # PATTERNA
    BY SpecialOperands
  <1>2. CASE w \in kSpecial
    BY <1>1, <1>2, Zenon DEF get_operand_category, kSpecial, OperandCategory
  <1>3. CASE w \notin kSpecial
    BY <1>3, Zenon DEF get_operand_category, kSpecial, OperandCategory
  <1>4. QED
    BY <1>2, <1>3

\* a shift amount's how large it is.
LEMMA ShiftCategories ==
    ASSUME NEW w \in Word
    PROVE  /\ get_shift_category(w) \in ShiftCategory
           /\ get_shift_category(w) = "ZERO" <=> w = 0
           /\ get_shift_category(w) = "SMALL" <=> w \in 1 .. 3
           /\ get_shift_category(w) = "MID" <=> w \in 4 .. 30
           /\ get_shift_category(w) = "MAX" <=> w = 31
           /\ get_shift_category(w) = "OVERFLOW" <=> w >= 32
  <1>1. w \in Int /\ w >= 0
    BY WordIsInt
  <1>2. w = 0 \/ w \in 1 .. 3 \/ w \in 4 .. 30 \/ w = 31 \/ w >= 32
    BY <1>1
  <1>3. /\ w = 0 => w \notin 1 .. 3 /\ w \notin 4 .. 30 /\ w # 31 /\ ~(w >= 32)
        /\ w \in 1 .. 3 => w \notin 4 .. 30 /\ w # 31 /\ ~(w >= 32)
        /\ w \in 4 .. 30 => w # 31 /\ ~(w >= 32)
        /\ w = 31 => ~(w >= 32)
    BY <1>1
  <1>4. /\ w = 0 => get_shift_category(w) = "ZERO"
        /\ w \in 1 .. 3 => get_shift_category(w) = "SMALL"
        /\ w \in 4 .. 30 => get_shift_category(w) = "MID"
        /\ w = 31 => get_shift_category(w) = "MAX"
        /\ w >= 32 => get_shift_category(w) = "OVERFLOW"
    BY <1>3, Zenon DEF get_shift_category
  <1>5. QED
    BY <1>2, <1>3, <1>4, Zenon DEF ShiftCategory

\* The bin of any transaction is one of the counters, one is_bin_reachable lets pass,
\* and none of the hopeless ones.
LEMMA SampledBinIsReachable ==
    ASSUME NEW op \in AluOp, NEW a \in Word, NEW b \in Word
    PROVE  sample_bin(op, a, b) \in ReachableBins \ HopelessBins
  <1> DEFINE ca == get_operand_category(a)
             cb == get_operand_category(b)
             sh == get_shift_category(b)
             sg == get_sign_category(a, b)
  <1>1. /\ ca \in OperandCategory /\ (ca = "ZERO" <=> a = 0) /\ (ca = "MAX" <=> a = MAX_WORD)
        /\ (ca = "MIN" <=> a = MIN_WORD)
    BY OperandCategories
  <1>2. /\ cb \in OperandCategory /\ (cb = "ZERO" <=> b = 0) /\ (cb = "MAX" <=> b = MAX_WORD)
        /\ (cb = "MIN" <=> b = MIN_WORD) /\ (cb = "PATTERN" <=> b \in {PATTERN5, PATTERNA})
        /\ (cb = "RANDOM" <=> b \notin kSpecial)
    BY OperandCategories
  <1>3. /\ sh \in ShiftCategory /\ (sh = "ZERO" <=> b = 0) /\ (sh = "OVERFLOW" <=> b >= 32)
        /\ (sh = "SMALL" <=> b \in 1 .. 3) /\ (sh = "MID" <=> b \in 4 .. 30) /\ (sh = "MAX" <=> b = 31)
    BY ShiftCategories
  <1>4. sg \in SignCategory /\ (sg = "NEGATIVE" <=> a >= MIN_WORD \/ b >= MIN_WORD)
    BY DEF get_sign_category, SignCategory, Negative
  <1>5. a \in Int /\ a >= 0 /\ b \in Int /\ b >= 0
    BY WordIsInt
  <1> HIDE DEF ca, cb, sh, sg
  <1>6. is_bin_reachable(ca, cb, sh, sg)
    <2>1. cb = "ZERO" => sh = "ZERO"
      BY <1>2, <1>3
    <2>2. cb \in {"MAX", "MIN", "PATTERN"} => sh = "OVERFLOW"
      BY <1>2, <1>3, SpecialOperands
    <2>3. cb = "RANDOM" => sh # "ZERO"
      BY <1>2, <1>3 DEF kSpecial
    <2>4. {ca, cb} \cap {"MAX", "MIN"} # {} => sg = "NEGATIVE"
      BY <1>1, <1>2, <1>4, SpecialOperands
    <2>5. ca = "ZERO" /\ cb = "ZERO" => sg = "POSITIVE"
      BY <1>1, <1>2, <1>4, SpecialOperands DEF SignCategory
    <2>6. QED
      BY <2>1, <2>2, <2>3, <2>4, <2>5 DEF is_bin_reachable
  <1>7. ~(ca = "ZERO" /\ cb = "RANDOM" /\ sh \in {"SMALL", "MID", "MAX"} /\ sg = "NEGATIVE")
    BY <1>1, <1>3, <1>4, <1>5, SpecialOperands
  <1>8. sample_bin(op, a, b) = <<op, ca, cb, sh, sg>>
    BY DEF sample_bin, ca, cb, sh, sg
  <1>9. <<op, ca, cb, sh, sg>> \in ReachableBins
    BY <1>1, <1>2, <1>3, <1>4, <1>6 DEF ReachableBins, cross_coverage
  <1>10. <<op, ca, cb, sh, sg>> \notin HopelessBins
    BY <1>7 DEF HopelessBins
  <1>11. QED
    BY <1>8, <1>9, <1>10

\* No operands, but is_bin_reachable lets them pass.
LEMMA HopelessIsCounted == HopelessBins \subseteq ReachableBins
  <1> SUFFICES ASSUME NEW b \in HopelessBins PROVE b \in ReachableBins
    OBVIOUS
  <1>1. /\ b \in AluOp \X {"ZERO"} \X {"RANDOM"} \X {"SMALL", "MID", "MAX"} \X {"NEGATIVE"}
        /\ b[2] = "ZERO" /\ b[3] = "RANDOM" /\ b[4] \in {"SMALL", "MID", "MAX"} /\ b[5] = "NEGATIVE"
    BY DEF HopelessBins
  <1>2. b \in cross_coverage
    BY <1>1 DEF cross_coverage, OperandCategory, ShiftCategory, SignCategory
  <1>3. is_bin_reachable(b[2], b[3], b[4], b[5])
    BY <1>1, SMT DEF is_bin_reachable
  <1>4. QED
    BY <1>2, <1>3 DEF ReachableBins

-----------------------------------------------------------------------------
(* What a test can send                                                     *)

\* The literals of the scripts are operands.
LEMMA LiteralOperands ==
    /\ 0 .. 127 \subseteq Word
    /\ MIN_WORD \in Word /\ MAX_WORD \in Word /\ PATTERN5 \in Word /\ PATTERNA \in Word
    /\ MIN_WORD - 1 \in Word /\ WordMod - WordMod \div 16 \in Word
    /\ Trunc(305419896) \in Word /\ Trunc(-889275714) \in Word
  <1>1. WordMod \in Int /\ WordMod >= 128
    BY WordFacts, DrawAssumption
  <1>2. 0 .. 127 \subseteq Word
    BY <1>1 DEF Word
  <1>3. MIN_WORD \in Word /\ MAX_WORD \in Word /\ PATTERN5 \in Word /\ PATTERNA \in Word /\ MIN_WORD - 1 \in Word
    BY SpecialOperands DEF Word
  <1>4. WordMod - WordMod \div 16 \in Word
    BY <1>1 DEF Word
  <1>5. Trunc(305419896) \in Word /\ Trunc(-889275714) \in Word
    BY TruncType, SMT
  <1>6. QED
    BY <1>2, <1>3, <1>4, <1>5, SMT

\* A quotient stays below the factor by which the dividend stays below it.
LEMMA BoundedQuotient ==
    ASSUME NEW k \in Nat, NEW n \in Nat, NEW m \in Nat, n > 0, k < m * n
    PROVE  k \div n \in 0 .. m - 1
  <1> DEFINE q == k \div n
  <1>1. q \in Int /\ n * q <= k /\ k < n * q + n
    OBVIOUS
  <1> HIDE DEF q
  <1>2. q >= 0
    <2>1. SUFFICES ASSUME q + 1 <= 0 PROVE FALSE
      BY <1>1
    <2>2. n * (q + 1) <= 0
      BY <1>1, <2>1, SMT
    <2>3. n * (q + 1) = n * q + n
      BY <1>1
    <2>4. QED
      BY <1>1, <2>2, <2>3, SMT
  <1>3. q < m
    <2>1. SUFFICES ASSUME m <= q PROVE FALSE
      BY <1>1
    <2>2. m * n <= n * q
      BY <1>1, <2>1, SMT
    <2>3. QED
      BY <1>1, <2>2, SMT
  <1>4. QED
    BY <1>1, <1>2, <1>3 DEF q

\* A transaction is an operation and two words.
LEMMA MakeTx == \A op \in AluOp, a, b \in Word : <<op, a, b>> \in Tx
  BY DEF Tx

\* Draws of an operation and of words are transactions.
LEMMA DrawTx == ASSUME NEW O, O \subseteq AluOp, NEW A, A \subseteq Word, NEW B, B \subseteq Word
                PROVE  O \X A \X B \subseteq Tx
  BY DEF Tx

\* The two scripts written out as literals,
LEMMA LiteralScripts ==
    /\ \A k \in 1 .. Len(BasicSequence) : BasicSequence[k] \in Tx
    /\ \A k \in 1 .. Len(EdgeCaseSequence) : EdgeCaseSequence[k] \in Tx
  <1> DEFINE large == Trunc(305419896)
             cafe  == Trunc(-889275714)
             i_max == MIN_WORD - 1
             top   == WordMod - WordMod \div 16
             Operand == {0, 1, 4, 5, 10, 31, 32, 42, 63, MIN_WORD, MAX_WORD, PATTERNA, large, cafe, i_max, top}
             Known == AluOp \X Operand \X Operand
  <1>1. large \in Word /\ cafe \in Word /\ i_max \in Word /\ top \in Word
    BY LiteralOperands, SMT
  <1>2. BasicSequence \in Seq(Known)
    BY SMTT(60) DEF BasicSequence, AluOp
  <1>3. EdgeCaseSequence \in Seq(Known)
    BY SMTT(60) DEF EdgeCaseSequence, AluOp
  <1> HIDE DEF large, cafe, i_max, top
  <1>4. Operand \subseteq Word
    <2>1. {0, 1, 4, 5, 10, 31, 32, 42, 63} \subseteq 0 .. 127
      OBVIOUS
    <2>2. QED
      BY <1>1, <2>1, LiteralOperands
  <1> HIDE DEF Operand
  <1>5. Known \subseteq Tx
    BY <1>4 DEF Tx
  <1> HIDE DEF Known
  <1>6. QED
    BY <1>2, <1>3, <1>5

\* and so does every script: each transaction it may send is an operation and two words.
LEMMA ScriptsSendTransactions ==
    ASSUME NEW seq \in SequenceNames, NEW n \in Nat, NEW k \in Nat, k < Count(seq, n)
    PROVE  generate(seq, n, k) \subseteq Tx
  <1>1. BIASED \subseteq Word /\ RANDOM_OPS \subseteq AluOp /\ NegWords \subseteq Word /\ PosWords \subseteq Word
    BY SequenceAssumption DEF NegWords, PosWords
  <1>2. {31} \subseteq Word /\ 1 .. 3 \subseteq Word /\ MID_SHIFTS \subseteq Word /\ {MIN_WORD - 1} \subseteq Word
    <2>1. {31} \subseteq 0 .. 127 /\ 1 .. 3 \subseteq 0 .. 127 /\ MID_SHIFTS \subseteq 0 .. 127
      BY DrawAssumption
    <2>2. 0 .. 127 \subseteq Word /\ MIN_WORD - 1 \in Word
      BY LiteralOperands
    <2>3. QED
      BY <2>1, <2>2
  <1>3. \A i \in 1 .. 10 : OPS[i] \in AluOp
    BY DEF OPS, AluOp
  <1>4. \A i \in 1 .. 6 : kSpecialValues[i] \in Word
    <2>1. /\ kSpecialValues[1] = 0 /\ kSpecialValues[2] = MAX_WORD /\ kSpecialValues[3] = MIN_WORD
          /\ kSpecialValues[4] = MIN_WORD - 1 /\ kSpecialValues[5] = PATTERNA /\ kSpecialValues[6] = PATTERN5
      BY DEF kSpecialValues
    <2>2. 0 \in Word /\ MAX_WORD \in Word /\ MIN_WORD \in Word /\ MIN_WORD - 1 \in Word /\ PATTERNA \in Word
            /\ PATTERN5 \in Word
      <3>1. 0 \in 0 .. 127
        OBVIOUS
      <3>2. QED
        BY <3>1, LiteralOperands
    <2>3. QED
      BY <2>1, <2>2
  <1>5. CASE seq = "basic"
    <2>1. Count(seq, n) = Len(BasicSequence) /\ generate(seq, n, k) = {BasicSequence[k + 1]}
      BY <1>5, Zenon DEF Count, generate
    <2>2. Len(BasicSequence) \in Nat
      BY DEF BasicSequence
    <2>3. k + 1 \in 1 .. Len(BasicSequence)
      BY <2>1, <2>2
    <2>4. QED
      BY <2>1, <2>3, LiteralScripts
  <1>6. CASE seq = "edge"
    <2>1. Count(seq, n) = Len(EdgeCaseSequence) /\ generate(seq, n, k) = {EdgeCaseSequence[k + 1]}
      BY <1>6, Zenon DEF Count, generate
    <2>2. Len(EdgeCaseSequence) \in Nat
      BY SMT DEF EdgeCaseSequence
    <2>3. k + 1 \in 1 .. Len(EdgeCaseSequence)
      BY <2>1, <2>2
    <2>4. QED
      BY <2>1, <2>3, LiteralScripts
  <1>7. CASE seq = "sweep"
    <2> DEFINE c == k \div n
    <2>1. Count(seq, n) = 360 * n /\ generate(seq, n, k) = {SweepCombination(c)}
      BY <1>7, Zenon DEF Count, generate
    <2>2. n > 0
      BY <2>1
    <2>3. c \in 0 .. 359
      BY <2>1, <2>2, BoundedQuotient
    <2> HIDE DEF c
    <2>4. (c % 10) + 1 \in 1 .. 10 /\ (c \div 60) + 1 \in 1 .. 6 /\ ((c \div 10) % 6) + 1 \in 1 .. 6
      BY <2>3
    <2>5. SweepCombination(c) \in Tx
      BY <2>4, <1>3, <1>4, MakeTx DEF SweepCombination
    <2>6. QED
      BY <2>1, <2>5
  <1>8. CASE seq = "stress"
    <2>1. generate(seq, n, k) = StressTransactions(k % 20)
      BY <1>8, Zenon DEF generate
    <2>2. \A phase : \/ StressTransactions(phase) = RANDOM_OPS \X NegWords \X {31}
                     \/ StressTransactions(phase) = {"ADD"} \X {MIN_WORD - 1} \X PosWords
                     \/ StressTransactions(phase) = RANDOM_OPS \X BIASED \X MID_SHIFTS
                     \/ StressTransactions(phase) = RANDOM_OPS \X NegWords \X NegWords
                     \/ StressTransactions(phase) = RANDOM_OPS \X BIASED \X (1 .. 3)
                     \/ StressTransactions(phase) = RANDOM_OPS \X BIASED \X BIASED
      <3> TAKE phase
      <3>1. /\ phase = 1 => StressTransactions(phase) = RANDOM_OPS \X NegWords \X {31}
            /\ phase = 3 => StressTransactions(phase) = {"ADD"} \X {MIN_WORD - 1} \X PosWords
            /\ phase = 5 => StressTransactions(phase) = RANDOM_OPS \X BIASED \X MID_SHIFTS
            /\ phase = 7 => StressTransactions(phase) = RANDOM_OPS \X NegWords \X NegWords
            /\ phase = 9 => StressTransactions(phase) = RANDOM_OPS \X BIASED \X (1 .. 3)
        BY SMT DEF StressTransactions
      <3>2. phase \notin {1, 3, 5, 7, 9} => StressTransactions(phase) = RANDOM_OPS \X BIASED \X BIASED
        BY SMT DEF StressTransactions
      <3>3. QED
        BY <3>1, <3>2, Zenon
    <2>3. "ADD" \in AluOp
      BY DEF AluOp
    <2>4. {"ADD"} \subseteq AluOp
      BY <2>3
    <2>5. StressTransactions(k % 20) \subseteq Tx
      <3> DEFINE phase == k % 20
      <3>1. CASE StressTransactions(phase) = RANDOM_OPS \X NegWords \X {31}
        BY <3>1, <1>1, <1>2, DrawTx
      <3>2. CASE StressTransactions(phase) = {"ADD"} \X {MIN_WORD - 1} \X PosWords
        BY <3>2, <1>1, <1>2, <2>4, DrawTx
      <3>3. CASE StressTransactions(phase) = RANDOM_OPS \X BIASED \X MID_SHIFTS
        BY <3>3, <1>1, <1>2, DrawTx
      <3>4. CASE StressTransactions(phase) = RANDOM_OPS \X NegWords \X NegWords
        BY <3>4, <1>1, DrawTx
      <3>5. CASE StressTransactions(phase) = RANDOM_OPS \X BIASED \X (1 .. 3)
        BY <3>5, <1>1, <1>2, DrawTx
      <3>6. CASE StressTransactions(phase) = RANDOM_OPS \X BIASED \X BIASED
        BY <3>6, <1>1, DrawTx
      <3>7. QED
        BY <2>2, <3>1, <3>2, <3>3, <3>4, <3>5, <3>6, Zenon
    <2>6. QED
      BY <2>1, <2>5
  <1>9. CASE seq = "op_sweep"
    <2> DEFINE c == k \div n
    <2>1. Count(seq, n) = 10 * n /\ generate(seq, n, k) = {OPS[c + 1]} \X BIASED \X BIASED
      BY <1>9, Zenon DEF Count, generate
    <2>2. n > 0
      BY <2>1
    <2>3. c \in 0 .. 9
      BY <2>1, <2>2, BoundedQuotient
    <2> HIDE DEF c
    <2>4. OPS[c + 1] \in AluOp
      BY <2>3, <1>3
    <2>5. QED
      BY <2>1, <2>4, <1>1 DEF Tx
  <1>10. QED
    BY <1>5, <1>6, <1>7, <1>8, <1>9 DEF SequenceNames

-----------------------------------------------------------------------------
(* Operands made for a bin                                                  *)

\* The special operands are words.
LEMMA SpecialsAreWords == kSpecial \subseteq Word
  <1>1. 0 \in 0 .. 127
    OBVIOUS
  <1>2. QED
    BY <1>1, LiteralOperands DEF kSpecial

\* A remainder lies below its divisor, and a small dividend is its own.
LEMMA SmallRemainder ==
    ASSUME NEW w \in Int, 0 <= w, NEW b \in Int, b > 0
    PROVE  w % b \in Int /\ 0 <= w % b /\ w % b < b /\ (w < b => w % b = w)
  <1>1. w < b => w % b = w
    <2>1. SUFFICES ASSUME w < b PROVE w % b = w
      OBVIOUS
    <2>2. w = b * 0 + w
      OBVIOUS
    <2>3. QED
      BY <2>1, <2>2, DivUnique
  <1>2. QED
    BY <1>1

\* An operand drawn with its top bit forced is a word, none of the special ones, and its
\* top bit is what was asked for, the fallback after 200 special draws included.
LEMMA NonspecialDraws ==
    ASSUME NEW set \in BOOLEAN, NEW clear \in BOOLEAN, ~(set /\ clear), NEW v \in random_nonspecial(set, clear)
    PROVE  v \in Word /\ v \notin kSpecial /\ (set => Negative(v)) /\ (clear => ~Negative(v))
  <1>1. MIN_WORD \in Int /\ MIN_WORD >= 64 /\ WordMod = 2 * MIN_WORD
    BY SpecialOperands
  <1>2. \A w \in Word : w \in Int /\ 0 <= w /\ w < WordMod
    BY WordIsInt
  <1>3. FALLBACK \in Word
    BY TruncType, SMT DEF FALLBACK
  <1>4. FALLBACK < MIN_WORD /\ FALLBACK \notin kSpecial /\ MIN_WORD + FALLBACK \notin kSpecial
    BY FallbackAssumption
  <1>5. \A w \in Word : /\ w % MIN_WORD \in Int /\ 0 <= w % MIN_WORD /\ w % MIN_WORD < MIN_WORD
                        /\ w < MIN_WORD => w % MIN_WORD = w
    BY <1>1, <1>2, SmallRemainder
  <1>6. \A w \in Word : /\ SetMsb(w, set, clear) \in Word
                        /\ set => Negative(SetMsb(w, set, clear))
                        /\ clear => ~Negative(SetMsb(w, set, clear))
    <2>1. TAKE w \in Word
    <2> DEFINE r == w % MIN_WORD
    <2>2. /\ set => SetMsb(w, set, clear) = MIN_WORD + r
          /\ ~set /\ clear => SetMsb(w, set, clear) = r
          /\ ~set /\ ~clear => SetMsb(w, set, clear) = w
      BY Zenon DEF SetMsb
    <2>3. r \in Int /\ 0 <= r /\ r < MIN_WORD
      BY <1>5
    <2> HIDE DEF r
    <2>4. MIN_WORD + r \in Word /\ r \in Word
      BY <1>1, <2>3 DEF Word
    <2>5. CASE set
      <3>1. SetMsb(w, set, clear) = MIN_WORD + r
        BY <2>2, <2>5
      <3>2. Negative(MIN_WORD + r)
        BY <1>1, <2>3 DEF Negative
      <3>3. QED
        BY <2>4, <3>1, <3>2, <2>5, <1>2
    <2>6. CASE ~set /\ clear
      <3>1. SetMsb(w, set, clear) = r
        BY <2>2, <2>6
      <3>2. ~Negative(r)
        BY <1>1, <2>3 DEF Negative
      <3>3. QED
        BY <2>4, <2>6, <3>1, <3>2
    <2>7. CASE ~set /\ ~clear
      BY <2>2, <2>7
    <2>8. QED
      BY <2>5, <2>6, <2>7
  <1>7. SetMsb(FALLBACK, TRUE, FALSE) = MIN_WORD + FALLBACK /\ SetMsb(FALLBACK, FALSE, FALSE) = FALLBACK
    <2>1. FALLBACK % MIN_WORD = FALLBACK
      BY <1>3, <1>4, <1>5
    <2>2. QED
      BY <2>1, Zenon DEF SetMsb
  <1>8. CASE v = SetMsb(FALLBACK, set, FALSE)
    <2>1. MIN_WORD + FALLBACK \in Word
      BY <1>1, <1>2, <1>3, <1>4 DEF Word
    <2>2. Negative(MIN_WORD + FALLBACK) /\ ~Negative(FALLBACK)
      BY <1>1, <1>2, <1>3, <1>4 DEF Negative
    <2>3. CASE set
      BY <2>1, <2>2, <2>3, <1>4, <1>7, <1>8
    <2>4. CASE ~set
      BY <2>2, <2>4, <1>3, <1>4, <1>7, <1>8
    <2>5. QED
      BY <2>3, <2>4
  <1>9. CASE v \in { SetMsb(w, set, clear) : w \in RANDOM32 } \ kSpecial
    BY <1>6, <1>9, DrawAssumption
  <1>10. QED
    BY <1>8, <1>9 DEF random_nonspecial

\* A bin of the five categories that is_bin_reachable lets pass.
IsTarget(ca, cb, sh, sg) ==
    /\ ca \in OperandCategory /\ cb \in OperandCategory /\ sh \in ShiftCategory /\ sg \in SignCategory
    /\ is_bin_reachable(ca, cb, sh, sg)

\* b always lands in its two categories, but its sign is then given.
LEMMA SynthesizedB ==
    ASSUME NEW ca, NEW cb, NEW sh, NEW sg, IsTarget(ca, cb, sh, sg), NEW b \in synthesize_b(cb, sh, sg)
    PROVE  /\ b \in Word /\ get_operand_category(b) = cb /\ get_shift_category(b) = sh
           /\ Negative(b) <=> \/ cb \in {"MAX", "MIN"} \/ (cb = "PATTERN" /\ sg # "POSITIVE")
                              \/ (cb = "RANDOM" /\ sh = "OVERFLOW")
  <1>1. /\ cb = "ZERO" => sh = "ZERO"
        /\ cb \in {"MAX", "MIN", "PATTERN"} => sh = "OVERFLOW"
        /\ cb = "RANDOM" => sh # "ZERO"
    BY DEF IsTarget, is_bin_reachable
  <1>2. cb \in {"ZERO", "MAX", "MIN", "RANDOM", "PATTERN"} /\ sh \in {"ZERO", "SMALL", "MID", "MAX", "OVERFLOW"}
    BY DEF IsTarget, OperandCategory, ShiftCategory
  <1>3. /\ cb = "ZERO" => b = 0
        /\ cb = "MAX" => b = MAX_WORD
        /\ cb = "MIN" => b = MIN_WORD
        /\ cb = "PATTERN" => b = IF sg = "POSITIVE" THEN PATTERN5 ELSE PATTERNA
        /\ cb = "RANDOM" /\ sh = "SMALL" => b \in 1 .. 3
        /\ cb = "RANDOM" /\ sh = "MID" => b \in MID_SHIFTS
        /\ cb = "RANDOM" /\ sh = "MAX" => b = 31
        /\ cb = "RANDOM" /\ sh = "OVERFLOW" => b \in random_nonspecial(TRUE, FALSE)
    <2>1. /\ cb = "ZERO" => synthesize_b(cb, sh, sg) = {0}
          /\ cb = "MAX" => synthesize_b(cb, sh, sg) = {MAX_WORD}
          /\ cb = "MIN" => synthesize_b(cb, sh, sg) = {MIN_WORD}
          /\ cb = "PATTERN" => synthesize_b(cb, sh, sg) = {IF sg = "POSITIVE" THEN PATTERN5 ELSE PATTERNA}
      BY Zenon DEF synthesize_b
    <2>2. /\ cb = "RANDOM" /\ sh = "SMALL" => synthesize_b(cb, sh, sg) = 1 .. 3
          /\ cb = "RANDOM" /\ sh = "MID" => synthesize_b(cb, sh, sg) = MID_SHIFTS
          /\ cb = "RANDOM" /\ sh = "MAX" => synthesize_b(cb, sh, sg) = {31}
          /\ cb = "RANDOM" /\ sh = "OVERFLOW" => synthesize_b(cb, sh, sg) = random_nonspecial(TRUE, FALSE)
      BY Zenon DEF synthesize_b
    <2>3. /\ cb = "ZERO" => b = 0
          /\ cb = "MAX" => b = MAX_WORD
          /\ cb = "MIN" => b = MIN_WORD
      BY <2>1
    <2>4. cb = "PATTERN" => b = IF sg = "POSITIVE" THEN PATTERN5 ELSE PATTERNA
      BY <2>1
    <2>5. /\ cb = "RANDOM" /\ sh = "SMALL" => b \in 1 .. 3
          /\ cb = "RANDOM" /\ sh = "MAX" => b = 31
      BY <2>2
    <2>6. /\ cb = "RANDOM" /\ sh = "MID" => b \in MID_SHIFTS
          /\ cb = "RANDOM" /\ sh = "OVERFLOW" => b \in random_nonspecial(TRUE, FALSE)
      BY <2>2
    <2>7. QED
      BY <2>3, <2>4, <2>5, <2>6
  <1>4. 0 \in kSpecial /\ MAX_WORD \in kSpecial /\ MIN_WORD \in kSpecial /\ PATTERN5 \in kSpecial /\ PATTERNA \in kSpecial
    BY DEF kSpecial
  <1>5. CASE cb # "RANDOM"
    <2>1. b \in Word
      BY <1>2, <1>3, <1>4, <1>5, SpecialsAreWords
    <2>2. get_operand_category(b) = cb
      BY <1>2, <1>3, <1>5, <2>1, OperandCategories
    <2>3. b = 0 \/ b >= 32
      BY <1>2, <1>3, <1>5, SpecialOperands
    <2>4. get_shift_category(b) = sh
      BY <1>1, <1>2, <1>3, <1>5, <2>1, <2>3, ShiftCategories, SpecialOperands
    <2>5. Negative(b) <=> \/ cb \in {"MAX", "MIN"} \/ (cb = "PATTERN" /\ sg # "POSITIVE")
      <3>1. ~Negative(0) /\ Negative(MAX_WORD) /\ Negative(MIN_WORD) /\ ~Negative(PATTERN5) /\ Negative(PATTERNA)
        BY SpecialOperands DEF Negative
      <3>2. QED
        <4>1. /\ cb = "ZERO" => ~Negative(b)
              /\ cb \in {"MAX", "MIN"} => Negative(b)
          BY <1>3, <3>1
        <4>2. cb = "PATTERN" => (Negative(b) <=> sg # "POSITIVE")
          <5>1. cb = "PATTERN" /\ sg = "POSITIVE" => b = PATTERN5
            BY <1>3
          <5>2. cb = "PATTERN" /\ sg # "POSITIVE" => b = PATTERNA
            BY <1>3
          <5>3. QED
            BY <3>1, <5>1, <5>2
        <4>3. CASE cb = "ZERO"
          BY <4>1, <4>3
        <4>4. CASE cb \in {"MAX", "MIN"}
          <5>1. Negative(b)
            BY <4>1, <4>4
          <5>2. QED
            BY <5>1, <4>4, Zenon
        <4>5. CASE cb = "PATTERN"
          BY <4>2, <4>5, Zenon
        <4>6. QED
          BY <1>2, <1>5, <4>3, <4>4, <4>5
    <2>6. QED
      BY <1>5, <2>1, <2>2, <2>4, <2>5
  <1>6. CASE cb = "RANDOM" /\ sh # "OVERFLOW"
    <2>1. b \in 1 .. 3 \/ b \in 4 .. 30 \/ b = 31
      BY <1>1, <1>2, <1>3, <1>6, DrawAssumption
    <2>2. b \in 0 .. 127 /\ b # 0 /\ b < 32
      BY <2>1
    <2>3. b \in Word
      BY <2>2, LiteralOperands
    <2>4. b \notin kSpecial /\ ~Negative(b)
      BY <2>2, SpecialOperands DEF kSpecial, Negative
    <2>5. get_operand_category(b) = cb
      BY <1>6, <2>3, <2>4, OperandCategories
    <2>6. get_shift_category(b) = sh
      <3>1. /\ b \in 1 .. 3 => get_shift_category(b) = "SMALL"
            /\ b \in 4 .. 30 => get_shift_category(b) = "MID"
            /\ b = 31 => get_shift_category(b) = "MAX"
        BY <2>3, ShiftCategories
      <3>2. sh \in {"SMALL", "MID", "MAX"}
        BY <1>1, <1>2, <1>6
      <3>3. QED
        <4>1. CASE sh = "SMALL"
          BY <1>3, <1>6, <3>1, <4>1
        <4>2. CASE sh = "MID"
          BY <1>3, <1>6, <3>1, <4>2, DrawAssumption
        <4>3. CASE sh = "MAX"
          BY <1>3, <1>6, <3>1, <4>3
        <4>4. QED
          BY <3>2, <4>1, <4>2, <4>3
    <2>7. QED
      BY <1>6, <2>3, <2>4, <2>5, <2>6
  <1>7. CASE cb = "RANDOM" /\ sh = "OVERFLOW"
    <2>1. b \in Word /\ b \notin kSpecial /\ Negative(b)
      BY <1>3, <1>7, NonspecialDraws
    <2>2. b >= 32
      BY <2>1, WordIsInt, SpecialOperands DEF Negative
    <2>3. QED
      BY <1>7, <2>1, <2>2, OperandCategories, ShiftCategories
  <1>8. QED
    BY <1>5, <1>6, <1>7

\* a lands in its category, and has the sign that its category and b leave to it.
LEMMA SynthesizedA ==
    ASSUME NEW ca, NEW cb, NEW sh, NEW sg, IsTarget(ca, cb, sh, sg), NEW b, NEW a \in synthesize_a(ca, sg, b)
    PROVE  /\ a \in Word /\ get_operand_category(a) = ca
           /\ ca = "ZERO" => ~Negative(a)
           /\ ca \in {"MAX", "MIN"} => Negative(a)
           /\ ca = "PATTERN" => (Negative(a) <=> sg # "POSITIVE")
           /\ ca = "RANDOM" => (sg = "NEGATIVE" /\ ~Negative(b) => Negative(a)) /\ (sg = "POSITIVE" => ~Negative(a))
  <1> DEFINE neg == sg = "NEGATIVE" /\ ~Negative(b)
             pos == sg = "POSITIVE"
  <1>1. ca \in {"ZERO", "MAX", "MIN", "RANDOM", "PATTERN"}
    BY DEF IsTarget, OperandCategory
  <1>2. neg \in BOOLEAN /\ pos \in BOOLEAN /\ ~(neg /\ pos)
    OBVIOUS
  <1>3. /\ ca = "ZERO" => a = 0
        /\ ca = "MAX" => a = MAX_WORD
        /\ ca = "MIN" => a = MIN_WORD
        /\ ca = "PATTERN" => a = IF pos THEN PATTERN5 ELSE PATTERNA
        /\ ca = "RANDOM" => a \in random_nonspecial(neg, pos)
    BY SMT DEF synthesize_a
  <1>4. 0 \in kSpecial /\ MAX_WORD \in kSpecial /\ MIN_WORD \in kSpecial /\ PATTERN5 \in kSpecial /\ PATTERNA \in kSpecial
    BY DEF kSpecial
  <1>5. CASE ca # "RANDOM"
    <2>1. a \in Word
      BY <1>1, <1>3, <1>4, <1>5, SpecialsAreWords
    <2>2. get_operand_category(a) = ca
      BY <1>1, <1>3, <1>5, <2>1, OperandCategories
    <2>3. /\ ca = "ZERO" => ~Negative(a)
          /\ ca \in {"MAX", "MIN"} => Negative(a)
          /\ ca = "PATTERN" => (Negative(a) <=> sg # "POSITIVE")
      BY <1>3, SpecialOperands DEF Negative
    <2>4. QED
      BY <1>5, <2>1, <2>2, <2>3
  <1>6. CASE ca = "RANDOM"
    <2>1. a \in Word /\ a \notin kSpecial /\ (neg => Negative(a)) /\ (pos => ~Negative(a))
      BY <1>2, <1>3, <1>6, NonspecialDraws
    <2>2. QED
      BY <1>6, <2>1, OperandCategories
  <1>7. QED
    BY <1>5, <1>6

\* So a bin that operands can reach is hit, unless it wants a positive random b of 32 or more.
LEMMA AimedLands ==
    ASSUME NEW bin \in ReachableBins
    PROVE  /\ synthesize(bin) \subseteq Tx
           /\ bin \notin HopelessBins =>
                \A t \in synthesize(bin) :
                   sample_bin(t[1], t[2], t[3]) = bin <=> <<bin[3], bin[4], bin[5]>> # <<"RANDOM", "OVERFLOW", "POSITIVE">>
  <1> DEFINE op == bin[1]
             ca == bin[2]
             cb == bin[3]
             sh == bin[4]
             sg == bin[5]
  <1>1. bin = <<op, ca, cb, sh, sg>> /\ op \in AluOp /\ IsTarget(ca, cb, sh, sg)
    BY DEF ReachableBins, cross_coverage, IsTarget
  <1> SUFFICES ASSUME NEW t \in synthesize(bin)
               PROVE  /\ t \in Tx
                      /\ bin \notin HopelessBins =>
                           (sample_bin(t[1], t[2], t[3]) = bin <=> <<cb, sh, sg>> # <<"RANDOM", "OVERFLOW", "POSITIVE">>)
    OBVIOUS
  <1>0. PICK b \in synthesize_b(cb, sh, sg) : t \in {<<op, a, b>> : a \in synthesize_a(ca, sg, b)}
    BY DEF synthesize
  <1>2. PICK a \in synthesize_a(ca, sg, b) : t = <<op, a, b>>
    BY <1>0
  <1>3. bin \notin HopelessBins => ~(ca = "ZERO" /\ cb = "RANDOM" /\ sh \in {"SMALL", "MID", "MAX"} /\ sg = "NEGATIVE")
    BY <1>1 DEF HopelessBins
  <1> HIDE DEF op, ca, cb, sh, sg
  <1>4. /\ b \in Word /\ get_operand_category(b) = cb /\ get_shift_category(b) = sh
        /\ Negative(b) <=> \/ cb \in {"MAX", "MIN"} \/ (cb = "PATTERN" /\ sg # "POSITIVE")
                           \/ (cb = "RANDOM" /\ sh = "OVERFLOW")
    BY <1>1, <1>2, SynthesizedB
  <1>5. /\ a \in Word /\ get_operand_category(a) = ca
        /\ ca = "ZERO" => ~Negative(a)
        /\ ca \in {"MAX", "MIN"} => Negative(a)
        /\ ca = "PATTERN" => (Negative(a) <=> sg # "POSITIVE")
        /\ ca = "RANDOM" => (sg = "NEGATIVE" /\ ~Negative(b) => Negative(a)) /\ (sg = "POSITIVE" => ~Negative(a))
    BY <1>1, <1>2, SynthesizedA
  <1>6. t \in Tx
    BY <1>1, <1>2, <1>4, <1>5, MakeTx
  <1>7. sample_bin(t[1], t[2], t[3]) = <<op, ca, cb, sh, get_sign_category(a, b)>>
    BY <1>2, <1>4, <1>5 DEF sample_bin
  <1>8. sg \in {"POSITIVE", "NEGATIVE"} /\ ca \in {"ZERO", "MAX", "MIN", "RANDOM", "PATTERN"}
          /\ cb \in {"ZERO", "MAX", "MIN", "RANDOM", "PATTERN"} /\ sh \in {"ZERO", "SMALL", "MID", "MAX", "OVERFLOW"}
    BY <1>1 DEF IsTarget, SignCategory, OperandCategory, ShiftCategory
  <1>9. /\ cb = "RANDOM" => sh # "ZERO"
        /\ {ca, cb} \cap {"MAX", "MIN"} # {} => sg = "NEGATIVE"
        /\ ca = "ZERO" /\ cb = "ZERO" => sg = "POSITIVE"
    BY <1>1 DEF IsTarget, is_bin_reachable
  <1>10. get_sign_category(a, b) = IF Negative(a) \/ Negative(b) THEN "NEGATIVE" ELSE "POSITIVE"
    BY DEF get_sign_category
  <1>11. CASE sg = "POSITIVE"
    <2>1. ca \notin {"MAX", "MIN"} /\ cb \notin {"MAX", "MIN"}
      BY <1>9, <1>11
    <2>2. ~Negative(a) /\ (Negative(b) <=> cb = "RANDOM" /\ sh = "OVERFLOW")
      BY <1>4, <1>5, <1>8, <1>11, <2>1
    <2>3. QED
      BY <1>1, <1>6, <1>7, <1>10, <1>11, <2>2
  <1>12. CASE sg = "NEGATIVE"
    <2>1. bin \notin HopelessBins => Negative(a) \/ Negative(b)
      BY <1>3, <1>4, <1>5, <1>8, <1>9, <1>12
    <2>2. QED
      BY <1>1, <1>6, <1>7, <1>10, <1>12, <2>1
  <1>13. QED
    BY <1>8, <1>11, <1>12

-----------------------------------------------------------------------------
(* One transaction                                                          *)

\* The device that is alu.cpp and the one that is the RTL give the golden result.
LEMMA SoundDevice ==
    ASSUME NEW d, d[1] \in {"alu.cpp", "rtl"}, NEW op \in AluOp, NEW a \in Word, NEW b \in Word
    PROVE  compare(device(d, op, a, b), golden_alu(op, a, b)) = 0
  <1> DEFINE g == golden_alu(op, a, b)
             out == [result |-> g, zero |-> g = 0]
  <1>1. g = AluResult(op, a, b) /\ compute(op, a, b) = out
    BY GoldenAluIsRtl DEF compute
  <1> HIDE DEF g
  <1>2. device(d, op, a, b) = out
    <2>1. CASE d[1] = "alu.cpp"
      <3>1. device(d, op, a, b) = compute(op, a, b)
        BY <2>1, Zenon DEF device
      <3>2. QED
        BY <1>1, <3>1
    <2>2. CASE d[1] = "rtl"
      <3>1. device(d, op, a, b) = [result |-> AluResult(op, a, b), zero |-> AluZero(AluResult(op, a, b))]
        BY <2>2, Zenon DEF device
      <3>2. QED
        BY <1>1, <3>1, Zenon DEF AluZero
    <2>3. QED
      BY <2>1, <2>2
  <1>3. out.result = g /\ out.zero = (g = 0)
    OBVIOUS
  <1> HIDE DEF out
  <1>4. Flag(out.result # g) = 0 /\ Flag(out.zero # (g = 0)) = 0
    BY <1>3, Zenon DEF Flag
  <1>5. compare(out, g) = 0
    BY <1>4 DEF compare
  <1>6. QED
    BY <1>2, <1>5 DEF g

\* What one transaction does: it counts its own bin and nothing else, the errors only
\* grow, and not at all around a device that is right.
LEMMA DriveEffect ==
    ASSUME TypeOK, NEW t \in Tx, Drive(t)
    PROVE  /\ IsABag(hits') /\ BagToSet(hits') = BagToSet(hits) \cup {sample_bin(t[1], t[2], t[3])}
           /\ sample_bin(t[1], t[2], t[3]) \in ReachableBins \ HopelessBins
           /\ errors' \in Nat /\ test' = test
           /\ dut[1] \in {"alu.cpp", "rtl"} => errors' = errors
  <1>1. t[1] \in AluOp /\ t[2] \in Word /\ t[3] \in Word
    BY DEF Tx
  <1> DEFINE bin == sample_bin(t[1], t[2], t[3])
             out == device(dut, t[1], t[2], t[3])
             g == golden_alu(t[1], t[2], t[3])
  <1>2. bin \in ReachableBins \ HopelessBins
    BY <1>1, SampledBinIsReachable
  <1>3. errors' = errors + compare(out, g) /\ hits' = hits (+) SetToBag({bin}) /\ test' = test
    BY DEF Drive
  <1>4. dut[1] \in {"alu.cpp", "rtl"} => compare(out, g) = 0
    BY <1>1, SoundDevice
  <1> HIDE DEF bin, out, g
  <1>5. compare(out, g) \in Nat
    <2>1. \A p : Flag(p) \in {0, 1}
      BY DEF Flag
    <2>2. QED
      BY <2>1 DEF compare
  <1>6. errors \in Nat /\ IsABag(hits)
    BY DEF TypeOK
  <1>7. IsABag(hits') /\ BagToSet(hits') = BagToSet(hits) \cup {bin}
    BY <1>3, <1>6 DEF IsABag, BagToSet, SetToBag, (+)
  <1>8. QED
    BY <1>2, <1>3, <1>4, <1>5, <1>6, <1>7 DEF bin

\* What a script sends is an operation and two words,
LEMMA ScriptedTx ==
    ASSUME TypeOK, stage <= Len(plan), sent < StageCount
    PROVE  generate(plan[stage][1], plan[stage][2], sent) \subseteq Tx
  <1>1. plan \in Seq(SequenceNames \X Nat)
    BY BenchAssumption DEF TypeOK, plan
  <1>2. stage \in 1 .. Len(plan)
    BY <1>1 DEF TypeOK
  <1>3. plan[stage][1] \in SequenceNames /\ plan[stage][2] \in Nat
    BY <1>1, <1>2
  <1>4. QED
    BY <1>3, ScriptsSendTransactions DEF TypeOK, StageCount

\* a driven pass aims at bins that is_bin_reachable lets pass,
LEMMA PoolIsReachable == ASSUME TypeOK PROVE Pool \subseteq ReachableBins
  BY DEF TypeOK, Pool

\* and what it draws at random is of the same kind.
LEMMA DrivenTx == DRIVEN_OPS \X DRIVEN_WORDS \X DRIVEN_WORDS \subseteq Tx
  BY BenchAssumption, DrawTx

\* So a step that drives, whichever action it is, drives a transaction.
LEMMA StepDrives ==
    ASSUME TypeOK, DriveScripted \/ DriveRandom \/ (\E bin \in Pool : DriveTargeted(bin))
    PROVE  /\ \E t \in Tx : Drive(t)
           /\ sent' = sent + 1 /\ UNCHANGED <<stage, pass, weak, done>>
  <1>1. CASE DriveScripted
    BY <1>1, ScriptedTx DEF DriveScripted
  <1>2. CASE DriveRandom
    BY <1>2, DrivenTx DEF DriveRandom
  <1>3. ASSUME NEW bin \in Pool, DriveTargeted(bin) PROVE \E t \in Tx : Drive(t)
    BY <1>3, PoolIsReachable, AimedLands DEF DriveTargeted
  <1>4. QED
    BY <1>1, <1>2, <1>3 DEF DriveTargeted

-----------------------------------------------------------------------------
(* The bench                                                                *)

\* The steps that drive nothing: the flow moves on to a stage, to a pass or to its end.
MovesOn == NextStage \/ StartPass \/ Finish

\* A step drives a transaction, or it does not.
LEMMA StepsSplit ==
    ASSUME TypeOK, Next
    PROVE  \/ /\ \E t \in Tx : Drive(t)
              /\ sent' = sent + 1 /\ UNCHANGED <<stage, pass, weak, done>>
           \/ MovesOn
  BY StepDrives DEF Next, MovesOn

\* The counter of a bin is a number of hits.
LEMMA HitsAreCounts == ASSUME NEW B, IsABag(B), NEW b PROVE HitsOf(b, B) \in Nat
  BY DEF IsABag, BagIn, BagToSet, HitsOf

\* The weak bins a pass notes are reachable ones, each with its count.
LEMMA WeakBins ==
    ASSUME TypeOK
    PROVE  { <<b, HitsOf(b, hits)>> : b \in get_sorted_weak_bins(hits, THRESHOLD) } \subseteq ReachableBins \X Nat
  BY HitsAreCounts DEF TypeOK, get_sorted_weak_bins

\* The types hold at the start,
LEMMA InitTyped == Init => TypeOK
  <1> SUFFICES ASSUME Init PROVE TypeOK
    OBVIOUS
  <1>1. plan \in Seq(SequenceNames \X Nat) /\ max_driven_passes \in Nat
    BY BenchAssumption DEF Init, plan, max_driven_passes
  <1>2. Len(plan) \in Nat
    BY <1>1
  <1>3. IsABag(EmptyBag) /\ BagToSet(EmptyBag) = {}
    BY DEF IsABag, BagToSet, EmptyBag, SetToBag
  <1>4. stage \in 1 .. Len(plan) + 1 /\ sent \in Nat /\ pass \in 0 .. max_driven_passes /\ errors \in Nat
    BY <1>1, <1>2 DEF Init
  <1>5. weak \subseteq ReachableBins \X Nat /\ done \in BOOLEAN /\ test \in TESTS
    BY DEF Init
  <1>6. IsABag(hits) /\ BagToSet(hits) \subseteq cross_coverage
    BY <1>3, Zenon DEF Init
  <1>7. QED
    BY <1>4, <1>5, <1>6 DEF TypeOK

\* and every step keeps them.
LEMMA NextTyped == TypeOK /\ [Next]_bench_vars => TypeOK'
  <1> SUFFICES ASSUME TypeOK, [Next]_bench_vars PROVE TypeOK'
    OBVIOUS
  <1>1. Len(plan) \in Nat /\ max_driven_passes \in Nat
    BY BenchAssumption DEF TypeOK, plan, max_driven_passes
  <1>2. test' = test => plan' = plan /\ max_driven_passes' = max_driven_passes
    BY DEF plan, max_driven_passes
  <1>3. CASE /\ \E t \in Tx : Drive(t)
             /\ sent' = sent + 1 /\ UNCHANGED <<stage, pass, weak, done>>
    <2>1. PICK t \in Tx : Drive(t)
      BY <1>3
    <2>2. ReachableBins \subseteq cross_coverage
      BY DEF ReachableBins
    <2> DEFINE bin == sample_bin(t[1], t[2], t[3])
    <2>3. /\ IsABag(hits') /\ BagToSet(hits') = BagToSet(hits) \cup {bin}
          /\ bin \in ReachableBins /\ errors' \in Nat /\ test' = test
      BY <2>1, DriveEffect
    <2> HIDE DEF bin
    <2>4. QED
      BY <1>2, <1>3, <2>2, <2>3 DEF TypeOK
  <1>4. CASE NextStage
    BY <1>1, <1>2, <1>4 DEF NextStage, TypeOK
  <1>5. CASE StartPass
    BY <1>1, <1>2, <1>5, WeakBins DEF StartPass, Enough, TypeOK
  <1>6. CASE Finish
    BY <1>2, <1>6 DEF Finish, TypeOK
  <1>7. CASE UNCHANGED bench_vars
    BY <1>2, <1>7 DEF bench_vars, TypeOK
  <1>8. QED
    BY <1>3, <1>4, <1>5, <1>6, <1>7, StepsSplit DEF MovesOn

\* The state of the bench keeps its types: a pass number within the configured ones, weak
\* bins among the reachable ones, counters of the cross product only.
THEOREM AluBenchIsTyped == Spec => []TypeOK
  <1>1. Init => TypeOK
    BY InitTyped
  <1>2. TypeOK /\ [Next]_bench_vars => TypeOK'
    BY NextTyped
  <1>3. QED
    BY <1>1, <1>2, PTL DEF Spec

\* Whatever is configured to be driven, by any script and any driven pass, alu.cpp and the
\* RTL it stands for raise no scoreboard error.
THEOREM SoundAluPasses == Spec => []NoFalseAlarm
  <1>1. Init => NoFalseAlarm
    BY DEF Init, NoFalseAlarm
  <1>2. ASSUME TypeOK, NoFalseAlarm, [Next]_bench_vars PROVE NoFalseAlarm'
    <2>1. CASE /\ \E t \in Tx : Drive(t)
               /\ sent' = sent + 1 /\ UNCHANGED <<stage, pass, weak, done>>
      <3>1. test' = test /\ (dut[1] \in {"alu.cpp", "rtl"} => errors' = errors)
        BY <1>2, <2>1, DriveEffect
      <3>2. QED
        BY <1>2, <3>1 DEF NoFalseAlarm, dut
    <2>2. CASE MovesOn \/ UNCHANGED bench_vars
      <3>1. errors' = errors /\ test' = test
        BY <2>2 DEF MovesOn, NextStage, StartPass, Finish, bench_vars
      <3>2. QED
        BY <1>2, <3>1 DEF NoFalseAlarm, dut
    <2>3. QED
      BY <1>2, <2>1, <2>2, StepsSplit
  <1>3. QED
    BY <1>1, <1>2, AluBenchIsTyped, PTL DEF Spec

\* While no hopeless bin was hit, coverage is not closed: closure asks ten hits of each.
LEMMA NeverClosed ==
    ASSUME BagToSet(hits) \subseteq ReachableBins \ HopelessBins PROVE ~is_coverage_closed
  <1> DEFINE bin == <<"ADD", "ZERO", "RANDOM", "SMALL", "NEGATIVE">>
  <1>1. bin \in HopelessBins
    BY DEF HopelessBins, AluOp
  <1> HIDE DEF bin
  <1>2. HitsOf(bin, hits) = 0
    BY <1>1 DEF HitsOf, BagIn
  <1>3. bin \in ReachableBins
    BY <1>1, HopelessIsCounted
  <1>4. ~(HitsOf(bin, hits) >= CLOSURE_HITS)
    BY <1>2 DEF CLOSURE_HITS
  <1>5. QED
    BY <1>3, <1>4 DEF is_coverage_closed, validate_coverage

\* The reachability predicate errs on one side only, whatever is driven: so the flow never
\* closes coverage and always uses up its passes.
THEOREM ReachabilityHolds == Spec => []ReachabilityIsOneSided
  <1>1. Init => ReachabilityIsOneSided
    <2>1. BagToSet(EmptyBag) = {}
      BY DEF BagToSet, EmptyBag, SetToBag
    <2>2. QED
      BY <2>1, HopelessIsCounted DEF Init, ReachabilityIsOneSided
  <1>2. ASSUME TypeOK, ReachabilityIsOneSided, [Next]_bench_vars PROVE ReachabilityIsOneSided'
    <2> DEFINE Possible == ReachableBins \ HopelessBins
    <2>1. BagToSet(hits) \subseteq Possible /\ (done => pass = max_driven_passes) /\ HopelessBins \subseteq ReachableBins
      BY <1>2 DEF ReachabilityIsOneSided
    <2>2. test' = test => max_driven_passes' = max_driven_passes
      BY DEF max_driven_passes
    <2>3. CASE /\ \E t \in Tx : Drive(t)
               /\ sent' = sent + 1 /\ UNCHANGED <<stage, pass, weak, done>>
      <3>1. PICK t \in Tx : Drive(t)
        BY <2>3
      <3> DEFINE bin == sample_bin(t[1], t[2], t[3])
      <3>2. BagToSet(hits') = BagToSet(hits) \cup {bin} /\ bin \in Possible /\ test' = test
        BY <1>2, <3>1, DriveEffect
      <3> HIDE DEF bin
      <3>3. BagToSet(hits)' \subseteq Possible
        BY <2>1, <3>2 DEF BagToSet
      <3> HIDE DEF Possible
      <3>4. QED
        BY <2>1, <2>2, <2>3, <3>2, <3>3 DEF ReachabilityIsOneSided, Possible
    <2>4. CASE NextStage \/ UNCHANGED bench_vars
      <3>1. UNCHANGED <<hits, done, pass, test>>
        BY <2>4 DEF NextStage, bench_vars
      <3>2. QED
        BY <2>1, <2>2, <3>1 DEF ReachabilityIsOneSided
    <2>5. CASE StartPass
      <3>1. hits' = hits /\ ~done' /\ test' = test
        BY <2>5 DEF StartPass, Looping
      <3>2. QED
        BY <2>1, <3>1 DEF ReachabilityIsOneSided
    <2>6. CASE Finish
      <3>1. UNCHANGED <<hits, pass, test>> /\ Enough
        BY <2>6 DEF Finish
      <3>2. pass = max_driven_passes
        BY <2>1, <3>1, NeverClosed DEF Enough
      <3>3. QED
        BY <2>1, <2>2, <3>1, <3>2 DEF ReachabilityIsOneSided
    <2>7. QED
      BY <1>2, <2>3, <2>4, <2>5, <2>6, StepsSplit DEF MovesOn
  <1>3. QED
    BY <1>1, <1>2, AluBenchIsTyped, PTL DEF Spec

\* A pass that aims at a bin operands can reach hits it with every transaction it may
\* make for it, unless the bin wants a positive random operand of 32 or more.
THEOREM AimedTransactionsLand == Spec => []TargetsLand
  <1>1. TypeOK => TargetsLand
    <2> SUFFICES ASSUME TypeOK, NEW bin \in Pool, bin \notin HopelessBins, bin \notin HighPositive,
                        NEW t \in synthesize(bin)
                 PROVE  sample_bin(t[1], t[2], t[3]) = bin
      BY DEF TargetsLand
    <2>1. bin \in ReachableBins
      BY PoolIsReachable
    <2>2. <<bin[3], bin[4], bin[5]>> # <<"RANDOM", "OVERFLOW", "POSITIVE">>
      BY <2>1 DEF ReachableBins, cross_coverage, HighPositive
    <2>3. QED
      BY <2>1, <2>2, AimedLands
  <1>2. QED
    BY <1>1, AluBenchIsTyped, PTL
=============================================================================
