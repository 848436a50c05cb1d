----------------------------- MODULE StressTest -----------------------------
(***************************************************************************)
(* cpp_tb/pipeline/pipe_test.h, run_long_stress_test: the coverage side of *)
(* the test.  Every seed's sequences run in an environment of their own    *)
(* and then once more in one environment that lives as long as the test    *)
(* and accumulates the coverage of all of them.                            *)
(***************************************************************************)
EXTENDS PipeCoverage

CONSTANTS
    SEEDS,           \* seeds run (100 in the code)
    WARMUPS,         \* the lists of directed programs seed 0 may begin with
    SEED_PROGRAMS    \* what prog_constrained may make of a seed

ASSUME StressAssumption ==
    /\ SEEDS \in Nat /\ WARMUPS \subseteq Seq(PROGRAMS) /\ SEED_PROGRAMS \subseteq PROGRAMS

VARIABLES
    phase,           \* "seed", "own", "accum", "report"
    seed,            \* the loop's i
    programs,        \* the sequences of this seed
    todo,            \* the ones the environment at work has left
    ref, back1, back2,                \* the reference model of the sequence at work
    own, accum,                       \* the coverage of the two environments
    coverage_closed_at, prev_bins_hit, stagnant_run,
    summed           \* the bins of the finished seeds' own environments (for the properties)

trace == <<ref, back1, back2>>
tracked == <<coverage_closed_at, prev_bins_hit, stagnant_run>>
vars == <<phase, seed, programs, todo, trace, own, accum, tracked, summed>>

\* Faulty: one reference model serves sequence after sequence and keeps its steps.
NewModel_KeepsSteps(prog) ==
    ref' = LoadedModel(prog, <<>>) /\ UNCHANGED <<back1, back2>>

\* Every run_sequence has a reference model of its own, without steps to look back at.
NewModel(prog) == ref' = LoadedModel(prog, <<>>) /\ back1' = NoWriter /\ back2' = NoWriter

NoModel == LoadedModel(<<>>, <<>>)
RefDone == ref.steps >= 8000 \/ OutOfMemory(ref.pc) \/ Halted(ref)

Init ==
    /\ phase = "seed" /\ seed = 0 /\ programs = <<>> /\ todo = <<>>
    /\ ref = NoModel /\ back1 = NoWriter /\ back2 = NoWriter
    /\ own = FreshCoverage /\ accum = FreshCoverage
    /\ coverage_closed_at = -1 /\ prev_bins_hit = 0 /\ stagnant_run = 0
    /\ summed = EmptyBag

\* A new environment for the seed, and its first sequence.
StartSeed ==
    /\ phase = "seed" /\ seed < SEEDS
    /\ \E warmup \in (IF seed = 0 THEN WARMUPS ELSE {<<>>}), prog \in SEED_PROGRAMS :
          programs' = warmup \o <<prog>>
    /\ own' = FreshCoverage
    /\ NewModel(Head(programs')) /\ todo' = Tail(programs')
    /\ phase' = "own"
    /\ UNCHANGED <<seed, accum, tracked, summed>>

\* One step of the trace, sampled by the environment at work.
Sample ==
    /\ phase \in {"own", "accum"} /\ ~RefDone
    /\ LET s == ExecStep(ref, back1, back2)
       IN  /\ own'   = IF phase = "own" THEN sample_step(own, s) ELSE own
           /\ accum' = IF phase = "accum" THEN sample_step(accum, s) ELSE accum
           /\ back1' = Writer(s.instr) /\ back2' = back1
    /\ ref' = Stepped(ref)
    /\ UNCHANGED <<phase, seed, programs, todo, tracked, summed>>

NextSequence ==
    /\ phase \in {"own", "accum"} /\ RefDone /\ todo # <<>>
    /\ NewModel(Head(todo)) /\ todo' = Tail(todo)
    /\ UNCHANGED <<phase, seed, programs, own, accum, tracked, summed>>

\* The seed's sequences once more, into the accumulating environment.
Mirror ==
    /\ phase = "own" /\ RefDone /\ todo = <<>>
    /\ NewModel(Head(programs)) /\ todo' = Tail(programs)
    /\ phase' = "accum"
    /\ UNCHANGED <<seed, programs, own, accum, tracked, summed>>

\* Seed 0 is run before the loop, which does the tracking.
EndSeed ==
    /\ phase = "accum" /\ RefDone /\ todo = <<>>
    /\ IF seed = 0 THEN UNCHANGED tracked ELSE
          /\ coverage_closed_at' =
                IF coverage_closed_at < 0 /\ CoverageClosed(accum) THEN seed ELSE coverage_closed_at
          /\ stagnant_run' = IF Summary(accum) = prev_bins_hit THEN stagnant_run + 1 ELSE 0
          /\ prev_bins_hit' = Summary(accum)
    /\ summed' = summed (+) own.bins
    /\ seed' = seed + 1
    /\ phase' = IF seed' < SEEDS THEN "seed" ELSE "report"
    /\ UNCHANGED <<programs, todo, trace, own, accum>>

Next == StartSeed \/ Sample \/ NextSequence \/ Mirror \/ EndSeed

Spec == Init /\ [][Next]_vars
-----------------------------------------------------------------------------
\* The sums of a row and of a column of a cross.
RowSum(cov, cross, k) ==
    MapThenSumSet(LAMBDA h : CopiesIn(<<cross, k, h>>, cov.bins), Hazards)
ColumnSum(cov, cross, ks, h) ==
    MapThenSumSet(LAMBDA k : CopiesIn(<<cross, k, h>>, cov.bins), ks)

\* The crosses agree with the plain bins they refine, row by row and column by column,
\* whatever programs an environment runs: no step is in a cross and not in its margins.
GroupsAgree ==
    \A cov \in {own, accum} :
        /\ \A k \in InstrKind : RowSum(cov, "cross", k) = CopiesIn(<<"instr", k>>, cov.bins)
        /\ \A o \in Outcomes : RowSum(cov, "outcome", o) = CopiesIn(<<"branch", o>>, cov.bins)
        /\ \A h \in Hazards \ {"none"} :
              /\ ColumnSum(cov, "cross", InstrKind, h) = CopiesIn(<<"hazard", h>>, cov.bins)
              /\ ColumnSum(cov, "outcome", Outcomes, h)
                    = ColumnSum(cov, "cross", {"BEQ", "BNE"}, h)

EveryBin   == DOMAIN accum.bins \cup DOMAIN summed
BackToBack == <<"b2b", "same">>

\* What the accumulating environment has is the sum of what the seeds' environments
\* have, bin by bin: no hazard is annotated across the end of a sequence, so a bin does not
\* depend on what ran before.  prev_kind_ does outlive a sequence, and a pair of neighbours
\* may lie across the seam of two seeds: at most one for each seam, and none is lost.
SeedsAddUp ==
    phase \in {"seed", "report"} => \A b \in EveryBin :
        CopiesIn(b, accum.bins) - CopiesIn(b, summed)
            \in IF b = BackToBack /\ seed > 0 THEN 0..(seed - 1) ELSE {0}

\* The directed sequences a test begins with close all 24 bins, those of the stress test
\* and those of the regression: is_coverage_closed asks nothing of the random programs
\* after them, and the tracking, which looks from seed 1 on, credits seed 1 whatever
\* seed 1 runs.
DirectedClose ==
    /\ seed = 0 /\ phase = "own" /\ todo = <<>> => CoverageClosed(own)
    /\ seed > 1 => coverage_closed_at = 1
=============================================================================
