------------------------------ MODULE AluBench ------------------------------
(***************************************************************************)
(* The ALU unit testbench at work: environment, agent, sequencer, driver,  *)
(* monitor, scoreboard and coverage of cpp_tb/alu, around a device that is *)
(* alu.cpp, alu.cpp with one defect, or the RTL alu.cpp stands for.         *)
(*                                                                         *)
(* A test runs the sequences of its plan and then up to max_driven_passes   *)
(* coverage-driven passes of num_transactions transactions; a pass aims at  *)
(* bins that were weak when it began.                                       *)
(* A script sends many transactions one after the other, a driven pass of   *)
(* an instance only few: what they draw from is bounded apart.              *)
(***************************************************************************)
EXTENDS AluSequences

CONSTANTS
    TESTS,          \* the tests: what they are configured to do, and to which device
    THRESHOLD,      \* coverage_threshold
    DRIVEN_WORDS,   \* what biased_operand may draw in a driven pass
    DRIVEN_OPS      \* what random_op may draw in a driven pass

ASSUME BenchAssumption ==
    /\ THRESHOLD \in Nat /\ DRIVEN_WORDS \subseteq Word /\ DRIVEN_OPS \subseteq AluOp
    /\ \A t \in TESTS : /\ t.plan \in Seq(SequenceNames \X Nat)
                      /\ t.num_transactions \in Nat /\ t.max_driven_passes \in Nat

POOL == 10   \* weak bins a driven pass aims at

VARIABLES
    test,    \* the test that runs
    stage,   \* position in its plan; past it the driven passes
    sent,    \* transactions of this stage or pass driven so far
    pass,    \* driven passes begun
    weak,    \* the weak bins when the pass began: <<bin, hits>>
    done,    \* the flow has returned
    hits,    \* the coverage counters
    errors   \* scoreboard errors

bench_vars == <<test, stage, sent, pass, weak, done, hits, errors>>

plan              == test.plan                \* a list of <<sequence, its parameter>>
num_transactions  == test.num_transactions    \* of one driven pass
max_driven_passes == test.max_driven_passes   \* 0 without the feedback loop
dut               == test.dut                 \* the device under test

(* Devices: <<"alu.cpp">>, <<"rtl">>, and three kinds of defect in alu.cpp.  *)

SetBit(w, n, v) == w - ((w \div 2^n) % 2) * 2^n + v * 2^n

device(d, op, a, b) ==
    LET out == compute(op, a, b)
    IN  CASE d[1] = "alu.cpp" -> out
          [] d[1] = "rtl"     -> [result |-> AluResult(op, a, b), zero |-> AluZero(AluResult(op, a, b))]
          [] d[1] = "op"      -> IF op = d[2] THEN compute(d[3], a, b) ELSE out
          [] d[1] = "zero"    -> IF op = d[2] THEN [out EXCEPT !.zero = d[3]] ELSE out
          [] d[1] = "bit"     ->
               IF op = d[2]
               THEN LET r == SetBit(out.result, d[3], d[4]) IN [result |-> r, zero |-> r = 0]
               ELSE out

\* Faulty: the zero flag is not compared.
compare_NoFlag(out, expected) == Flag(out.result # expected)

\* ALUScoreboard::compare: the result and the flag are two errors.
compare(out, expected) == Flag(out.result # expected) + Flag(out.zero # (expected = 0))

\* ALUDriver::drive: golden model, device, monitor, coverage, scoreboard.
Drive(t) ==
    /\ errors' = errors + compare(device(dut, t[1], t[2], t[3]), golden_alu(t[1], t[2], t[3]))
    /\ hits' = hits (+) SetToBag({sample_bin(t[1], t[2], t[3])})
    /\ UNCHANGED test
-----------------------------------------------------------------------------

Init ==
    /\ stage = 1 /\ sent = 0 /\ pass = 0 /\ weak = {} /\ done = FALSE
    /\ hits = EmptyBag /\ errors = 0
    /\ test \in TESTS

StageCount == Count(plan[stage][1], plan[stage][2])

\* ALUSequencer::run: one transaction of the sequence being run.
DriveScripted ==
    /\ stage <= Len(plan) /\ sent < StageCount
    /\ \E t \in generate(plan[stage][1], plan[stage][2], sent) : Drive(t)
    /\ sent' = sent + 1
    /\ UNCHANGED <<stage, pass, weak, done>>

\* Faulty: a stage is skipped.
NextStage_Skip ==
    /\ stage <= Len(plan) /\ sent = StageCount
    /\ stage' = stage + 2 /\ sent' = 0
    /\ UNCHANGED <<pass, weak, done, hits, errors, test>>

NextStage ==
    /\ stage <= Len(plan) /\ sent = StageCount
    /\ stage' = stage + 1 /\ sent' = 0
    /\ UNCHANGED <<pass, weak, done, hits, errors, test>>

Looping == stage > Len(plan) /\ ~done

\* The test of generate()'s loop.
PassOver == pass = 0 \/ sent >= num_transactions
is_coverage_closed == validate_coverage(hits)

Enough == pass = max_driven_passes \/ is_coverage_closed

\* generate() begins with get_sorted_weak_bins.
StartPass ==
    /\ Looping /\ PassOver /\ ~Enough
    /\ pass' = pass + 1 /\ sent' = 0
    /\ weak' = { <<b, HitsOf(b, hits)>> : b \in get_sorted_weak_bins(hits, THRESHOLD) }
    /\ UNCHANGED <<stage, done, hits, errors, test>>

\* The POOL bins with the fewest hits, however the sort orders equals.
Pool ==
    LET low == {h \in 0 .. THRESHOLD : Cardinality({u \in weak : u[2] < h}) < POOL}
    IN  { w[1] : w \in { v \in weak : v[2] \in low } }

InPass == Looping /\ ~PassOver

DriveTargeted(bin) ==
    /\ InPass
    /\ \E t \in synthesize(bin) : Drive(t)
    /\ sent' = sent + 1
    /\ UNCHANGED <<stage, pass, weak, done>>

DriveRandom ==
    /\ InPass
    /\ \E t \in DRIVEN_OPS \X DRIVEN_WORDS \X DRIVEN_WORDS : Drive(t)
    /\ sent' = sent + 1
    /\ UNCHANGED <<stage, pass, weak, done>>

Finish ==
    /\ Looping /\ PassOver /\ Enough
    /\ done' = TRUE
    /\ UNCHANGED <<stage, sent, pass, weak, hits, errors, test>>

Next == DriveScripted \/ NextStage \/ StartPass \/ (\E bin \in Pool : DriveTargeted(bin))
          \/ DriveRandom \/ Finish

Spec == Init /\ [][Next]_bench_vars
-----------------------------------------------------------------------------

TypeOK ==
    /\ stage \in 1 .. Len(plan) + 1 /\ sent \in Nat /\ pass \in 0 .. max_driven_passes
    /\ weak \subseteq ReachableBins \X Nat /\ done \in BOOLEAN
    /\ IsABag(hits) /\ BagToSet(hits) \subseteq cross_coverage /\ errors \in Nat /\ test \in TESTS

\* alu.cpp may stand for the RTL: the golden model, shifting by multiplying and
\* dividing, agrees with the RTL's bit vectors on all that is driven.
NoFalseAlarm == dut[1] \in {"alu.cpp", "rtl"} => errors = 0

\* One operation taken for another, one stuck result bit, a stuck zero flag of
\* one operation: each of the tests' defects is an error by the time the scripted
\* sequences are through.
DefectsAreCaught == stage > Len(plan) /\ dut[1] \notin {"alu.cpp", "rtl"} => errors > 0

\* Bins the model counts and no operands reach: a = 0 and a small positive b
\* cannot have a negative sign.
HopelessBins == AluOp \X {"ZERO"} \X {"RANDOM"} \X {"SMALL", "MID", "MAX"} \X {"NEGATIVE"}

\* is_bin_reachable errs on one side only: no transaction, whatever its operands, lands
\* in a bin it rules out, and none in the hopeless bins it lets pass. Closure asks for
\* each of those, so that the flow always uses up its passes.
ReachabilityIsOneSided ==
    /\ BagToSet(hits) \subseteq ReachableBins \ HopelessBins
    /\ HopelessBins \subseteq ReachableBins
    /\ done => pass = max_driven_passes

\* The sweep alone fills every bin of operation and operand categories, and the
\* directed slots of the stress sequence the shift amounts the sweep never uses.
SequencesDeliver ==
    \A p \in 1 .. Len(plan) : p < stage =>
       /\ plan[p][1] = "sweep" /\ plan[p][2] >= CLOSURE_HITS /\ stage = p + 1 /\ sent = 0 =>
             get_3d_coverage_holes(hits, CLOSURE_HITS) = {}
       /\ plan[p][1] = "stress" /\ plan[p][2] >= 10 =>
             /\ {"SMALL", "MID"} \subseteq { b[4] : b \in BagToSet(hits) }
             /\ {<<"MAX", "NEGATIVE">>, <<"OVERFLOW", "NEGATIVE">>} \subseteq { <<b[4], b[5]>> : b \in BagToSet(hits) }

\* A random b of 32 or more and a positive sign.
HighPositive == AluOp \X OperandCategory \X {"RANDOM"} \X {"OVERFLOW"} \X {"POSITIVE"}

\* Aimed at any other bin that operands can reach, a transaction lands there, whatever
\* is drawn for it: the shift amount, the sign and both categories come out together.
TargetsLand ==
    InPass /\ sent = 0 =>
       \A bin \in Pool \ (HopelessBins \cup HighPositive) :
          \A t \in synthesize(bin) : sample_bin(t[1], t[2], t[3]) = bin

\* alu_coverage.h:114 and alu_sequence.h:146: the operands made for a bin, if there are
\* any at all, land in the requested bin.  A positive b of 32 or more does not: its top
\* bit is set.
LandsInRequestedBin ==
    InPass /\ sent = 0 =>
       \A bin \in Pool \ HopelessBins :
          \A t \in synthesize(bin) : sample_bin(t[1], t[2], t[3]) = bin
=============================================================================
