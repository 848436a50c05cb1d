----------------------------- MODULE AluCoverage -----------------------------
(***************************************************************************)
(* cpp_tb/alu: the golden ALU (alu_golden.h), the C++ device under test    *)
(* (alu.cpp) and the coverage model (alu_coverage.h).  A transaction is    *)
(* <<op, a, b>>; a bin is <<op, category of a, category of b, shift, sign>> *)
(* and the counters are a bag of bins.                                      *)
(***************************************************************************)
EXTENDS Alu, Bags

CONSTANTS
    RANDOM32,    \* what a draw of 32 bits for a targeted operand may be
    MID_SHIFTS   \* what a draw of a shift of 4 to 30 may be

\* A word has at least 7 bits, so that a shift amount is none of the special operands.
ASSUME DrawAssumption == /\ WordMod >= 128
                         /\ RANDOM32 \subseteq Word /\ MID_SHIFTS \subseteq 4 .. 30

\* At 32 bits a shift amount never reaches the cap.
Pow(n) == 2^(IF n < XLEN THEN n ELSE XLEN)

\* The switch alu_golden.h and alu.cpp both consist of, with shifts as products
\* and quotients.
golden_alu(op, a, b) ==
    CASE op = "ADD"  -> Plus(a, b)
      [] op = "SUB"  -> Minus(a, b)
      [] op = "AND"  -> BitAnd(a, b)
      [] op = "OR"   -> BitOr(a, b)
      [] op = "XOR"  -> BitXor(a, b)
      [] op = "SLT"  -> Flag(Signed(a) < Signed(b))
      [] op = "SLL"  -> Trunc(a * Pow(b % 32))
      [] op = "SRL"  -> a \div Pow(b % 32)
      [] op = "SLTU" -> Flag(a < b)
      [] op = "SRA"  -> Trunc(Signed(a) \div Pow(b % 32))

compute(op, a, b) ==
    LET result == golden_alu(op, a, b) IN [result |-> result, zero |-> result = 0]

-----------------------------------------------------------------------------
(* Categories of operands, of b as a shift amount, and of the two signs.    *)

MAX_WORD == WordMod - 1
MIN_WORD == WordMod \div 2
PATTERN5 == MAX_WORD \div 3      \* 0x55555555
PATTERNA == 2 * PATTERN5         \* 0xAAAAAAAA

OperandCategory == {"ZERO", "MAX", "MIN", "RANDOM", "PATTERN"}

get_operand_category(value) ==
    CASE value = 0                      -> "ZERO"
      [] value = MAX_WORD               -> "MAX"
      [] value = MIN_WORD               -> "MIN"
      [] value \in {PATTERN5, PATTERNA} -> "PATTERN"
      [] OTHER                          -> "RANDOM"

ShiftCategory == {"ZERO", "SMALL", "MID", "MAX", "OVERFLOW"}

\* The whole of b, not the five bits the ALU shifts by.
get_shift_category(amount) ==
    CASE amount = 0        -> "ZERO"
      [] amount \in 1..3   -> "SMALL"
      [] amount \in 4..30  -> "MID"
      [] amount = 31       -> "MAX"
      [] amount >= 32      -> "OVERFLOW"

Negative(w) == w >= MIN_WORD

SignCategory == {"POSITIVE", "NEGATIVE"}

\* Faulty: the sign of a alone.
get_sign_category_A(a, b) == IF Negative(a) THEN "NEGATIVE" ELSE "POSITIVE"

\* Faulty: the sign of the difference.
get_sign_category_Diff(a, b) == IF Negative(Minus(a, b)) THEN "NEGATIVE" ELSE "POSITIVE"
get_sign_category(a, b) == IF Negative(a) \/ Negative(b) THEN "NEGATIVE" ELSE "POSITIVE"

\* The counter sample(tx) increments.
sample_bin(op, a, b) ==
    <<op, get_operand_category(a), get_operand_category(b), get_shift_category(b), get_sign_category(a, b)>>

cross_coverage == AluOp \X OperandCategory \X OperandCategory \X ShiftCategory \X SignCategory

is_bin_reachable(cat_a, cat_b, shift_cat, sign_cat) ==
    /\ cat_b = "ZERO" => shift_cat = "ZERO"
    /\ cat_b \in {"MAX", "MIN", "PATTERN"} => shift_cat = "OVERFLOW"
    /\ cat_b = "RANDOM" => shift_cat # "ZERO"
    /\ {cat_a, cat_b} \cap {"MAX", "MIN"} # {} => sign_cat = "NEGATIVE"
    /\ cat_a = "ZERO" /\ cat_b = "ZERO" => sign_cat = "POSITIVE"

ReachableBins == {b \in cross_coverage : is_bin_reachable(b[2], b[3], b[4], b[5])}

-----------------------------------------------------------------------------
(* Questions asked of the counters.                                         *)

\* The counter of a bin.
HitsOf(b, hits) == IF BagIn(b, hits) THEN hits[b] ELSE 0

\* The threshold of validate_coverage is the literal 10, whatever the
\* configuration says.
CLOSURE_HITS == 10
validate_coverage(hits) == \A b \in ReachableBins : HitsOf(b, hits) >= CLOSURE_HITS

get_sorted_weak_bins(hits, threshold) == {b \in ReachableBins : HitsOf(b, hits) < threshold}

\* Hits of an operation and two operand categories, whatever the shift and sign.
Hits3D(hits, b3) ==
    MapThenSumSet(LAMBDA b : HitsOf(b, hits), {b \in BagToSet(hits) : <<b[1], b[2], b[3]>> = b3})

get_3d_coverage_holes(hits, min_hits) ==
    {b3 \in AluOp \X OperandCategory \X OperandCategory : Hits3D(hits, b3) < min_hits}

-----------------------------------------------------------------------------
(* synthesize_operands_for_bin: what b may be, then what a may be given b.   *)

kSpecial == {0, MAX_WORD, MIN_WORD, PATTERN5, PATTERNA}

FALLBACK == Trunc(305419896)     \* 0x12345678

\* The fallback is positive, and neither it nor its negative twin is special.
ASSUME FallbackAssumption ==
    FALLBACK < MIN_WORD /\ {FALLBACK, MIN_WORD + FALLBACK} \cap kSpecial = {}

SetMsb(w, set, clear) == IF set THEN MIN_WORD + (w % MIN_WORD) ELSE IF clear THEN w % MIN_WORD ELSE w

\* Faulty: the top bit is set after the value was found not to be special.
random_nonspecial_Late(set, clear) ==
    { SetMsb(w, set, clear) : w \in RANDOM32 \ kSpecial } \cup { SetMsb(FALLBACK, set, FALSE) }

\* A draw with its top bit forced that is none of the special values; after 200
\* draws of special ones 0x12345678, or 0x92345678 if the top bit is to be set.
random_nonspecial(set, clear) ==
    ({ SetMsb(w, set, clear) : w \in RANDOM32 } \ kSpecial) \cup { SetMsb(FALLBACK, set, FALSE) }

synthesize_b(cat_b, shift_cat, sign_cat) ==
    CASE cat_b = "ZERO"    -> {0}
      [] cat_b = "MAX"     -> {MAX_WORD}
      [] cat_b = "MIN"     -> {MIN_WORD}
      [] cat_b = "PATTERN" -> {IF sign_cat = "POSITIVE" THEN PATTERN5 ELSE PATTERNA}
      [] cat_b = "RANDOM"  ->
           CASE shift_cat = "SMALL"    -> 1 .. 3
             [] shift_cat = "MID"      -> MID_SHIFTS
             [] shift_cat = "MAX"      -> {31}
             [] shift_cat = "OVERFLOW" -> random_nonspecial(TRUE, FALSE)
             [] OTHER                  -> random_nonspecial(FALSE, FALSE)

synthesize_a(cat_a, sign_cat, b) ==
    LET need_a_neg == sign_cat = "NEGATIVE" /\ ~Negative(b)
        need_a_pos == sign_cat = "POSITIVE"
    IN  CASE cat_a = "ZERO"    -> {0}
          [] cat_a = "MAX"     -> {MAX_WORD}
          [] cat_a = "MIN"     -> {MIN_WORD}
          [] cat_a = "PATTERN" -> {IF need_a_pos THEN PATTERN5 ELSE PATTERNA}
          [] cat_a = "RANDOM"  -> random_nonspecial(need_a_neg, need_a_pos)

\* The transactions that may be sent to land in bin t.
synthesize(t) ==
    UNION { {<<t[1], a, b>> : a \in synthesize_a(t[2], t[5], b)} : b \in synthesize_b(t[3], t[4], t[5]) }
=============================================================================
