---------------------------- MODULE DecoderBench ----------------------------
(***************************************************************************)
(* The decoder unit testbench at work: environment, agent, sequencer,      *)
(* driver, assertions, coverage and scoreboard of cpp_tb/decoder, around a *)
(* device that is decoder.cpp or decoder.cpp with one defect.               *)
(*                                                                         *)
(* A test runs the sequences of its plan, each for its number of rounds,   *)
(* and then up to max_driven_passes passes of the feedback loop: a pass    *)
(* looks at the coverage once, when it starts, and aims some of its        *)
(* num_transactions transactions at the bins that were weak then.          *)
(***************************************************************************)
EXTENDS DecoderSequences

CONSTANTS
    TESTS,       \* the tests: what they are configured to do, and to which device
    THRESHOLD,   \* coverage_threshold
    HIT_CAP      \* counters are followed up to here

ASSUME BenchAssumption ==
    /\ HIT_CAP \in Nat /\ THRESHOLD \in 1 .. HIT_CAP
    /\ \A t \in TESTS : /\ t.plan \in Seq(SequenceNames \X Nat)
                      /\ t.num_transactions \in Nat /\ t.max_driven_passes \in Nat

POOL == 12   \* weak bins a driven pass aims at

VARIABLES
    test,        \* the test that runs
    stage,       \* position in its plan; past it the feedback loop
    sent,        \* transactions of this stage driven so far
    pass,        \* driven passes begun
    weak,        \* the weak bins when the pass began: <<bin, hits>>
    done,        \* the flow has returned
    hits,        \* the coverage counters
    errors,      \* scoreboard errors
    violations   \* assertion failures

bench_vars == <<test, stage, sent, pass, weak, done, hits, errors, violations>>

plan              == test.plan                \* a list of <<sequence, rounds>>
num_transactions  == test.num_transactions    \* of one driven pass
max_driven_passes == test.max_driven_passes   \* 0 without the feedback loop
defect            == test.defect              \* what is wrong with the device

(* A defect is a control signal stuck for one opcode, a wrong operation for *)
(* one operation, or a bit of the immediate stuck for one opcode.           *)

SoundDevice == << >>

FlipBit(w, n, v) == w - ((w \div 2^n) % 2) * 2^n + v * 2^n

device(d, i) ==
    LET out == dut_decode(i)
    IN  CASE d = SoundDevice -> out
          [] d # SoundDevice /\ i.opcode # d.opcode -> out
          [] d # SoundDevice /\ i.opcode = d.opcode ->
               CASE d.what = "signal" -> [out EXCEPT ![d.name] = d.value]
                 [] d.what = "alu_op" -> [out EXCEPT !.alu_op = IF out.alu_op = d.name THEN d.value ELSE @]
                 [] d.what = "imm"    -> [out EXCEPT !.imm = FlipBit(@, d.name, d.value)]

Bump(counters, S) ==
    [b \in Bins |-> IF b \in S /\ counters[b] < HIT_CAP THEN counters[b] + 1 ELSE counters[b]]

\* Faulty: the scoreboard does not compare reg_write.
Mismatch_NoRegWrite(i) ==
    [golden_decode(i) EXCEPT !.reg_write = TRUE] # [device(defect, i) EXCEPT !.reg_write = TRUE]

\* Faulty: the scoreboard does not compare the immediate.
Mismatch_NoImm(i) == [golden_decode(i) EXCEPT !.imm = 0] # [device(defect, i) EXCEPT !.imm = 0]
Mismatch(i) == golden_decode(i) # device(defect, i)

\* DecoderDriver::drive: golden model, device, assertions, coverage, scoreboard.
Drive(i) ==
    /\ violations' = violations + Cardinality(Failures(i, device(defect, i)))
    /\ hits' = Bump(hits, sample_bins(i))
    /\ errors' = errors + Flag(Mismatch(i))
    /\ UNCHANGED test

-----------------------------------------------------------------------------

Init ==
    /\ stage = 1 /\ sent = 0 /\ pass = 0 /\ weak = {} /\ done = FALSE
    /\ hits = [b \in Bins |-> 0] /\ errors = 0 /\ violations = 0
    /\ test \in TESTS

Rounds == Round(plan[stage][1])

\* sequencer_.run: one transaction of the sequence being run.
DriveScripted ==
    /\ stage <= Len(plan)
    /\ sent < Len(Rounds) * plan[stage][2]
    /\ \E i \in Rounds[(sent % Len(Rounds)) + 1] : Drive(i)
    /\ sent' = sent + 1
    /\ UNCHANGED <<stage, pass, weak, done>>

NextStage ==
    /\ stage <= Len(plan)
    /\ sent = Len(Rounds) * plan[stage][2]
    /\ stage' = stage + 1 /\ sent' = 0
    /\ UNCHANGED <<pass, weak, done, hits, errors, violations, test>>

Looping == stage > Len(plan) /\ ~done

\* The test of generate()'s loop.
PassOver == pass = 0 \/ sent >= num_transactions
is_coverage_closed == validate_coverage(hits, THRESHOLD)

Enough == pass = max_driven_passes \/ is_coverage_closed

\* generate() begins with get_weak_bins.
StartPass ==
    /\ Looping /\ PassOver /\ ~Enough
    /\ pass' = pass + 1 /\ sent' = 0
    /\ weak' = { <<b, hits[b]>> : b \in get_weak_bins(hits, THRESHOLD) }
    /\ UNCHANGED <<stage, done, hits, errors, violations, test>>

\* The POOL bins with the fewest hits, however the sort orders equals.
Pool == { w[1] : w \in { v \in weak : Cardinality({u \in weak : u[2] < v[2]}) < POOL } }

InPass == Looping /\ ~PassOver

DriveTargeted(b) ==
    /\ InPass
    /\ \E i \in synthesize(b) : Drive(i)
    /\ sent' = sent + 1
    /\ UNCHANGED <<stage, pass, weak, done>>

DriveRandom ==
    /\ InPass
    /\ \E i \in make_random : Drive(i)
    /\ sent' = sent + 1
    /\ UNCHANGED <<stage, pass, weak, done>>

Finish ==
    /\ Looping /\ PassOver /\ Enough
    /\ done' = TRUE
    /\ UNCHANGED <<stage, sent, pass, weak, hits, errors, violations, test>>

Next == DriveScripted \/ NextStage \/ StartPass \/ (\E b \in Pool : DriveTargeted(b))
          \/ DriveRandom \/ Finish

Spec == Init /\ [][Next]_bench_vars
-----------------------------------------------------------------------------

TypeOK ==
    /\ stage \in 1 .. Len(plan) + 1 /\ sent \in Nat /\ pass \in 0 .. max_driven_passes
    /\ weak \subseteq Targetable \X (0 .. HIT_CAP) /\ done \in BOOLEAN
    /\ hits \in [Bins -> 0 .. HIT_CAP] /\ errors \in Nat /\ violations \in Nat /\ test \in TESTS

\* The golden model and the device never disagree on anything the sequences can
\* send, although they do read SRAI differently: no undefined shift that is sent
\* has bit 30 set.  And no structural assertion fails.
NoFalseAlarm == defect = SoundDevice => errors = 0 /\ violations = 0

\* Whichever one of the tests' defects the device has (a signal stuck for one opcode,
\* an operation taken for another, a bit of an immediate stuck), it has made the
\* scoreboard complain when the plan is through.
DefectsAreCaught == stage > Len(plan) /\ defect # SoundDevice => errors > 0

\* An assertion of decoder_assertions.h never fails on a transaction the
\* scoreboard is content with, so a run without errors has no violations.
ViolationsAreErrors == violations > 0 => errors > 0

\* What the sequences are there for.  The directed one meets every legal encoding
\* of groups A to C, the illegal one every kind of group F, and after the R-type
\* sweep groups A and B have all the hits closure asks for.
PhasesDeliver ==
    \A p \in 1 .. Len(plan) : p < stage =>
       /\ plan[p][1] = "directed" =>
             \A b \in LegalFunct3Bins \cup LegalRtypeBins \cup LegalShiftBins : hits[b] > 0
       /\ plan[p][1] = "illegal" => \A k \in IllegalKind : hits[<<"illegal_hits", k>>] > 0
       /\ plan[p][1] = "rtype_f7" => Short(LegalFunct3Bins \cup LegalRtypeBins, hits, THRESHOLD) = {}

\* The feedback loop aims at no register-zero bin.  Once the sequence for those is
\* through, what keeps the coverage open is something the loop can aim at, but for one
\* bin no scripted sequence sends: BNE with rs2 = x0.  Only a random transaction that
\* happens to draw x0 (decoder_golden.h:342) can fill it.
LoopSeesWhatIsMissing ==
    (\E p \in 1 .. Len(plan) : p < stage /\ plan[p][1] = "regzero") =>
       Short(Mandatory, hits, THRESHOLD) \subseteq get_weak_bins(hits, THRESHOLD) \cup {<<"rs2", BNE>>}

\* The bins synthesize() can miss: see TargetsLand.
Missable ==
    ({"itype_f3"} \X {2, 3, 4, 6, 7})
      \cup {b \in ImmBins : b[2] \in {<<I_TYPE, "SLL">>, <<I_TYPE, "SRL">>}}
      \cup ({"imm_boundary"} \X {BEQ, BNE, J} \X {"NEG_GENERAL"})

\* A transaction aimed at any other weak bin lands in it, whatever is drawn, and one
\* aimed at one of these may not, although decoder_sequence.h:11 targets them all: five
\* of the I-type bins are sent as another instruction, the eight immediate bins of SLLI
\* and SRLI as random ones, an odd offset near the lowest as the lowest.
TargetsLand ==
    InPass /\ sent = 0 =>
       \A b \in Pool : (\A i \in synthesize(b) : b \in sample_bins(i)) <=> b \notin Missable
=============================================================================
