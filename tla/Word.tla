-------------------------------- MODULE Word --------------------------------
(***************************************************************************)
(* Machine words: the vectors logic [XLEN-1:0] every register, wire and    *)
(* memory cell of the processor carries.  XLEN is 32 in the RTL; a smaller *)
(* XLEN keeps the numbers inside TLC's integers and brings the wrap-around *)
(* cases within reach of a small instance.                                 *)
(***************************************************************************)
EXTENDS Integers, FiniteSetsExt

CONSTANT XLEN    \* bits in a word

WordMod == 2^XLEN

\* A word has at least 5 bits, so that b[4:0] is a slice of it.
ASSUME WordAssumption == XLEN \in Nat /\ XLEN >= 5

\* The provers know no facts about the exponential: these define it, as far as the
\* words reach.
ASSUME PowerAssumption == 2^0 = 1 /\ \A n \in 0 .. XLEN - 1 : 2^(n + 1) = 2 * 2^n

Word == 0 .. WordMod - 1

\* The low XLEN bits of an integer: what assigning it to a word keeps.
Trunc(n) == n % WordMod

Plus(a, b)  == Trunc(a + b)
Minus(a, b) == Trunc(a - b)

\* A field n whose top bit weighs `sign`, sign-extended to a word.
SignExtend(n, sign) == Trunc(IF n < sign THEN n ELSE n - 2 * sign)

\* $signed(w), (int32_t)w
Signed(w) == IF w < 2^(XLEN - 1) THEN w ELSE w - WordMod

-----------------------------------------------------------------------------
(* The bitwise view of a word: the set of positions holding a 1.           *)

BitPos == 0 .. XLEN - 1

BitsOf(w) == {i \in BitPos : (w \div 2^i) % 2 = 1}

\* The word whose ones are at S, put together from its top bit down.
WordOf(S) ==
    LET high[k \in 0 .. XLEN] == IF k = 0 THEN 0 ELSE 2 * high[k - 1] + (IF XLEN - k \in S THEN 1 ELSE 0)
    IN  high[XLEN]

BitAnd(a, b) == WordOf(BitsOf(a) \cap BitsOf(b))
BitOr(a, b)  == WordOf(BitsOf(a) \cup BitsOf(b))
BitXor(a, b) == WordOf((BitsOf(a) \cup BitsOf(b)) \ (BitsOf(a) \cap BitsOf(b)))

ShiftLeft(a, n)  == WordOf({i + n : i \in BitsOf(a)} \cap BitPos)
ShiftRight(a, n) == WordOf({i - n : i \in BitsOf(a)} \cap BitPos)

\* Positions vacated by an arithmetic right shift take the sign bit.
ShiftRightArith(a, n) ==
    WordOf({i \in BitPos : (IF i + n < XLEN THEN i + n ELSE XLEN - 1) \in BitsOf(a)})

Flag(p) == IF p THEN 1 ELSE 0
=============================================================================
