# A TLA+ model of the RV32I five-stage pipeline and of its testbench

The repository holds a RISC-V processor in SystemVerilog (`rtl/`) and a C++
testbench for it (`cpp_tb/pipeline/`): a reference model runs a program one
instruction at a time, the processor runs it in a five-stage pipeline, and a
scoreboard compares the writes the two commit. Two smaller testbenches
(`cpp_tb/alu/`, `cpp_tb/decoder/`) do the same around one block. This directory
models both sides, the generators that feed them and the coverage that says when
to stop, checks with TLC that they agree on small instances, and proves with TLAPS
what the agreement rests on.

## 1. The system

| part | source | state | operations | correct when |
|---|---|---|---|---|
| pipeline core | `rtl/rv32i_pipe5_with_branches.sv` | `pc`, IF/ID, ID/EX, EX/MEM, MEM/WB, `instr_mem`, `data_mem` | posedge clk, posedge rst | it cannot be told from a machine that executes whole instructions in order |
| register file | `rtl/rv32i_regfile.sv` | 32 registers | write on the edge, write-first read | a read sees every older write, x0 is 0 |
| decoder, ALU | `rtl/rv32i_decoder.sv`, `rtl/rv32i_alu.sv` | none | combinational | they agree with the reference model |
| forwarding, hazard detection, branch control | `rtl/rv32i_forwarding_unit.sv`, `rv32i_hazard_detection.sv`, `rv32i_branch_control.sv` | none | combinational | EX always has the operands of program order; a stall and a redirect never collide |
| reference model | `cpp_tb/pipeline/reference_model.h` | `pc_`, `regs_`, `dmem_`, the step list | `run`, `execute_one`, `annotate_hazards` | its annotations are what the pipeline meets |
| driver, monitor | `pipe_driver.h`, `pipe_monitor.h` | `cycle_`, the commit snapshot | `load_program`, `preload_dmem`, `reset`, `tick`, assertions A1-A8 | commits are reported once each, in program order |
| scoreboard | `pipe_scoreboard.h` | the queue of expected commits, four counters | `load_expected`, `compare` | never blames a right device, never passes a wrong one |
| agent, environment | `pipe_agent.h`, `pipe_env.h` | the sequence being run, totals | `run_sequence` | every sequence gets the right verdict, whatever the one before left behind, and none that is given up passes |
| program generator, sequences | `program_gen.h`, `pipe_sequence.h` | none | encoders, directed and random programs | the programs are what they claim to be and halt in their budget |
| coverage | `pipe_coverage.h` | bins, `prev_kind_` | `sample_step`, `validate_coverage`, `summary` | a closed bin was met, and groups that count the same steps agree |
| test runners | `pipe_test.h` | accumulated coverage, stagnation tracking | `run_long_stress_test`, `run_regression_test` | seeds add up, and the criteria say what their comments say |
| decoder testbench | `cpp_tb/decoder` | coverage counters, error and violation counts, the weak bins of a pass | nine sequences, `drive`, `check_all`, `compare`, `synthesize` | the golden model is the RTL, defects are caught, coverage closes on what it says |
| ALU testbench | `cpp_tb/alu` | 5-D bins, error count, the weak bins of a pass | six sequences, `drive`, `compare`, `synthesize_operands_for_bin` | the same |
| older testbenches | `sv_tb`, `archive` | | | not modelled |

Interaction. `PipeEnvUVM::run_sequence` runs the reference model to its end and
loads its commit list into the scoreboard. The agent then writes program and data
into the pipeline's memories from outside, resets it and clocks it. Before every
rising edge the monitor samples MEM/WB and EX/MEM; after it, it hands the commits
to the scoreboard, and the agent stops when the scoreboard has matched everything
or the cycle budget is spent. The C++ side is one thread; all the concurrency is
in the hardware, where five instructions are in flight and every register changes
on the same edge. One pipeline serves sequence after sequence.

What is hard here is timing: which of several values an operand must come from,
which of several in-flight instructions a stall or a redirect touches, in which
order two stages' commits of one edge are reported, what an abandoned sequence
leaves in flight, and how the two sides' different stopping rules (8000
instructions, end of memory, cycle budget) meet. Around the hardware the hard
part is bookkeeping nobody adds up by hand: whether a generator's programs fit
and halt whatever it draws, whether three lists of coverage bins (hit, required,
aimed at) agree, whether a script of stimuli brings out every defect, and whether
a loop that feeds on stale counters aims at what is missing and hits it. `PROJECT.json` lists each of
these under `hazards` with its line and the property aimed at it.

## 2. The modules

| module | models |
|---|---|
| `Word` | `logic [XLEN-1:0]`: wrap-around arithmetic, bit operations as sets of positions, shifts |
| `Alu`, `Decoder`, `HazardUnits` | the combinational blocks, one operator per output |
| `Program` | the constants of an instance: memory sizes, programs, preloads, and the memory images they load |
| `Pipeline` | every flip-flop as state, every wire as an operator of the wire's name, every `always_ff` block as an operator `PcReg(r)`, `IfIdReg(r)`, ... of the level of `rst` it samples. `Posedge` and `RstRise` are the two edges |
| `ReferenceModel` | the simulator, decoding and extracting immediates the way the C++ code does, not the way the RTL does; the hazard annotation; the simulator as a record stepped by `Stepped` |
| `PipeDriver` | `LoadAndReset`, `ResetClock`, `ReleaseReset`, `Tick`; `AboutToCommit` is what the monitor samples before the edge |
| `ProgramOrder` | the abstract specification: a processor executes one instruction at a time (`Execute`), reports its commits in order, maybe later (`Wait`), and may be restarted (`Start`). The instruction set is a parameter |
| `ArchState` | the driver's calls with the two auxiliary bits (`Cleared`, `Restart`, `KeepReset`, `LeaveReset`, `Advance`), the mapping to the architectural state (`ArchPc`, `ArchRegs`, `ArchDmem`, `InFlight`), the invariant `Coherent`, the driver's assertions |
| `PipelineIsa` | the pipeline taking sequence after sequence from its driver, each interrupted at any clock: `ExecutesInOrder` and `AssertionsHold` |
| `HazardTrace` | `PipelineIsa` with the reference model's hazard annotation computed beside it |
| `Scoreboard` | `compare` as an operator on a scoreboard record |
| `ScoreboardCheck` | the scoreboard fed with anything |
| `Testbench` | `run_sequence` of environment and agent: one action per statement that changes state, over `ArchState` and `Scoreboard` |
| `ProgramGen` | the encoders, the builders, the fourteen directed programs and the fixed beginnings of the random ones |
| `RandomPrograms` | `prog_random` and `prog_constrained`, one slot a step, every draw a choice; then the reference model running the program |
| `PipeCoverage` | the bins of the pipeline coverage and how a step of the annotated trace fills them |
| `StressTest` | environments of the stress test: one per seed and one that accumulates, and the tracking of closure |
| `DecoderGolden` | `golden_decode`, the device `decoder.cpp`, the encoders, the structural assertions: each reads immediates and operations by its own formula |
| `DecoderCoverage` | groups A to G: what `sample` hits, what `validate_coverage` requires, what `get_weak_bins` aims at |
| `DecoderSequences` | the nine sequences, as lists of sets of instructions, and `synthesize` |
| `DecoderBench` | the decoder testbench: a plan of sequences and the feedback loop, around a device with at most one defect |
| `AluCoverage`, `AluSequences`, `AluBench` | the same three for the ALU testbench: golden model, `alu.cpp`, 5-D bins; sequences; the flow around `alu.cpp`, the RTL, or a device with one defect |
| `MC*` | instances |
| `CommonLemmas`, `PipelineProofs` | lemmas about words, decoding and the scoreboard's comparison; about single steps of the pipeline |
| `PipelineIsaProofs`, `TestbenchProofs`, `DecoderProofs`, `AluProofs`, `ScoreboardProofs`, `RandomProgramsProofs` | the theorems, by component |

The modules build on each other as the code does: `Word` < `Alu`, `Decoder`,
`HazardUnits` < `Pipeline` < `PipeDriver` < `ArchState` < `PipelineIsa` <
`HazardTrace`; `ArchState`, which also knows the reference model, and `Scoreboard`
meet in `Testbench`; `ReferenceModel` with
`ProgramGen` makes `RandomPrograms` and with `PipeCoverage` `StressTest`;
`Decoder` < `DecoderGolden` < `DecoderCoverage` < `DecoderSequences` <
`DecoderBench`; `Alu` < `AluCoverage` < `AluSequences` < `AluBench`.

An instruction is the record of the six bit fields every format cuts the word
into; record and 32-bit word determine each other, so the decoder, the reference
model's extractors and the encoders all work on the same data, each by its own
formula. An ALU operation code is named by its operation. A commit record keeps
what `operator==` compares; the `pc` a record also carries is compared by nobody.

Several modules hold operators whose comment begins with "Faulty:". They are
plausible mistakes in the definition that follows them, used by no specification;
each run is repeated with one in the other's place to see that the property
notices.

### The refinement

An instruction takes effect, abstractly, in the clock that moves it out of EX:
that is where its operands, its result and its successor are known. The abstract
registers are the register file overlaid with what MEM/WB and then EX/MEM hold;
the abstract memory is `data_mem` overlaid with the store in MEM; the abstract
PC is that of the oldest instruction not past EX. A load in MEM overlays the
value memory will return. The commits of instructions past EX and not yet sampled
are the abstract specification's `pending`.

The RTL has no valid bits, so two auxiliary bits (`vID`, `vEX`) tell an
architectural instruction in IF/ID and ID/EX from a bubble. Nothing reads them
but the mapping and `Coherent`.

Two encodings are kept out of the programs (`Agreed` in `ArchState`, assumed of `PROGRAMS` by `AgreedPrograms`), because
the two decoders differ on them: an R-type word with bit 30 and other bits of
funct7 set is SUB or SRA to the reference model and ADD or SRL to the RTL, and a
branch with an even nonzero funct3 is BNE to the model and BEQ to the RTL. No
encoder of `program_gen.h` produces either.

Past word 255 the reference model stops and the pipeline, which looks at
`pc[9:2]` only, wraps around; `ProgramOrder` promises nothing once `Stopped`.

### The unit testbenches

Both have one shape. An instance is a set of tests. A test has a plan, a list of
sequences and rounds, which stands for a runner of `*_test_uvm.h` or for the scripted
phases of `run_coverage_driven_flow`; the number and length of the driven passes after
it; and the device it runs on. A step
drives one transaction: device, golden model, assertions, coverage and scoreboard in
the order of `drive`; the agent and the monitor only hand it on. A sequence's
transaction is drawn from a set, which has one member where the code writes a
literal. Past the plan the feedback loop begins passes until the coverage is closed
or the passes are used up; a pass reads the weak bins once and keeps aiming at the
`POOL` weakest of them (12 and 10) whatever happens to the counters. `std::sort`
leaves the order of equals open, so the pool holds every bin that some order puts in
it. How often a targeted transaction alternates with a random one is a choice.

A defect is one control signal stuck for one opcode, one operation taken for another,
or one bit of an immediate (of the result, the zero flag) stuck. Every
test picks a sound device or one of the defects.

### Random programs

A turn of a generator's loop is an action; what it tests of its own variables
(`branch_budget`, `last_rd`, `last_mem_off`, `last_was_sw`, the program's length)
stays as it is, what it asks of the random engine becomes a choice from the set the
distribution reaches. Weights are kept only as far as they allow or exclude a case.
The random part of a program is bounded by the code's own caps, scaled.

## 3. What the runs check

| run | shows | bounds |
|---|---|---|
| `pipeline` | `ExecutesInOrder`: the pipeline refines `ProgramOrder`, also across sequences abandoned at any clock. `AssertionsHold`: A1-A8 of the driver. `StallExcludesRedirect`. The inductive invariants `TypeOK`, `Coherent`. `CycleAccount`: clocks = 2 + instructions + load-use annotations + 2 x transfers, at every instruction. `ForwardsAreAnnotated` | all 28,561 programs `a; b; c; d; ADDI; HALT` with a, b, c, d from 13 instructions over two registers and two memory words, each alone; 4 programs with stores, loads, branches and jumps, in every row of 3, each but the last abandoned at every point; 16 clocks, 16-bit words, 8 words of imem |
| `batch` | `NoFalseAlarm`, `HaltedRunsAgree` for the whole testbench; `TimeoutIsAnError`: a sequence given up with commits outstanding is counted as an error | 50 programs, among them endless loops and one that runs off the end of memory, in every pair of two sequences |
| `directed` | the fourteen directed programs come out right and inside their budget | the code's own sizes and limits: 256 words, 8000 instructions, 8n+100 cycles, 5 reset clocks, 8 drain clocks; 30-bit words |
| `scoreboard` | `Accounted`: the counters account for every entry and every report; a clean verdict means equality and equality means a clean verdict; the error count never goes below the fewest faults that explain the report; `DropIsPinpointed`: a run of up to LOOKAHEAD - 1 lost commits is counted exactly and called dropped | all lists of up to 5 commits of 3 kinds up to renaming, and of 4 and 5 different ones; every report of up to 5 commits of 5 kinds |
| `random_programs` | `FitsImem`, `RunsForward`, `ReachesHalt`: every program either generator makes fits with its HALT, only runs forward whatever its operands, and halts after fewer instructions than it has words | a target of six slots more than the caps allow, one free register, two immediates, two offsets |
| `stress_coverage` | `GroupsAgree`: rows and columns of both crosses are the plain bins. `SeedsAddUp`: the accumulated coverage is the sum of the seeds', but for at most one back-to-back pair across each seam. `DirectedClose`: the directed programs alone close all 24 bins, so that seed 1 is credited whatever it runs | the code's fourteen warm-up programs of the stress test and the nine of the regression, each with every one of the 49 programs of two random slots that depend on what ran before, then one more seed of these |
| `decoder_bench` | `NoFalseAlarm`; `PhasesDeliver`: what each scripted phase is there for; `LoopSeesWhatIsMissing`: what keeps the coverage open can be aimed at, but for one bin; `DefectsAreCaught`: directed and illegal sequences bring out each of the sampled defects; `ViolationsAreErrors`; `TargetsLand`: which bins a transaction aimed at them may miss | the plan, rounds and threshold of the code, then a pass of two transactions; 144 single defects; a loop from empty counters, where any bin may be in the pool, of two passes of one transaction |
| `alu_bench` | `NoFalseAlarm`; `SequencesDeliver`: the sweep fills every 3-D bin ten times, the stress sequence every kind of shift; `DefectsAreCaught`; `ReachabilityIsOneSided`: nothing lands in a bin ruled out as unreachable, nor in 30 bins counted as reachable; `TargetsLand`: a transaction aimed at any other bin lands, but for a positive random b of 32 or more | the scripted phases, around `alu.cpp` and around the RTL; 256 single defects, each script once instead of 15 and 1000 times; ten operations on a grid of 8-bit operands: all below 36, the special ones and about three in eight of the rest |

Why these bounds are enough. A hazard relates an instruction to at most the three
before it (MEM, WB, and the register written in the same cycle as it is read) and
to the two behind it that a redirect squashes, so four free instructions and a
fixed one reach every pair and triple of interacting instructions, and the pool
has every class, both registers in every role, x0 as a destination, forward and
backward transfers. Sixteen clocks let the last of them leave the pipeline
even when each of the four stalls or redirects. 16-bit words keep the two
high bits the address select drops and let the PC wrap; the width matters only to
arithmetic. `directed` uses 30 bits because TLC's integers are 32-bit and signed,
and 30 is the widest word whose sums and whose shifts stay inside them;
`imm_edge_cases` shifts by 31, which at 30 bits shifts everything out on both
sides alike. Two sequences are enough for `batch` because nothing but the
pipeline's registers, the memories and the scoreboard, all of them in the state,
survives a sequence; `pipeline` has a third to see a restart of a restarted one. There the
specification of the run is `HazardTrace`'s, with `Begin` kept to the programs that are
abandoned (`MCNext`): every pair of the 28,561 would be too many.
The scoreboard compares commits for equality only, so model values stand for
them, and a list stands for every list that repeats in the same places. Five of them
exceed the window of four.

The decoder testbench runs at 30 bits, where an immediate of every format keeps its
sign and its bits; R5, RANDOM_REGS and IMM12S give a free field one or a few values,
among them those the coverage tells apart (`x0`, the extremes are written out by the
sequences). Its counters are followed up to the threshold, beyond which nothing
looks. One transaction of a pass suffices for `TargetsLand`, which speaks of all that
may be drawn for each bin of the pool; the second pass aims at what the first left. The ALU testbench runs at 8
bits: `get_shift_category` and the RTL look at the low five bits and at 32, all
of which an 8-bit word has, and the special words scale with the width (`PATTERN5`,
`MIN_WORD`). The scripts draw from two operands, because what they are judged by comes
from the values they write out. The generators need no width but the one their immediates fit in.

Scaled constants. In `random_programs` instruction memory has 15 words (256), the caps are
12 and 14 (243 and 240) and one redirect is allowed (3): seeds, three to four random
slots and the HALT, which is enough for each kind of slot to follow each other, for
the last slot to be the one that appends two or three words, and for a redirect right
before the HALT. `stress_coverage` has two seeds (100): the tracking compares a seed
with the one before, and seed 1 is where it starts. In `batch` the reference model stops after
60 instructions (8000), a program has 3n + 5 cycles (8n + 100) and reset lasts 2
clocks (5). The drain keeps its 8 clocks. `XLEN`, `IMEM_WORDS`, `DMEM_WORDS`,
`MAX_CYCLES`, `SEQUENCES` and `MAX_ACTUAL` bound the instances; each is a
constant of the module whose guard it limits.

`CHECK_DEADLOCK FALSE` stands in every configuration because every instance
really stops: at the cycle budget, at the end of the batch, or with the last
report.

Fairness. `RandomPrograms!FairSpec` is `WF_vars(Next)`: a generator and the reference model are
loops of one thread of C++, so as long as a statement is left it executes the next one. No
stronger assumption is made, and no action is favoured over another; `ReachesHalt` holds
because a program only runs forward. The other specifications state no fairness: their loops
are counted (clocks, passes, seeds), so that they end is evident from the code, and what is
checked is what they have done when they do.

### Where the code and its comments part

Four runs expect TLC to find the counterexample.

| run | comment | code |
|---|---|---|
| `scoreboard_phantom` | one flush bug gives one error, no cascade | an extra commit consumes the expected one, and every later commit is an error |
| `raw_not_forwarded` | `raw_hazard` means the instruction uses a forwarded result | a stall or a flush between two instructions two apart lets the register file supply the value |
| `random_store_load` | `p_stl_pattern` is the probability that SW is followed by LW at its address | `last_was_sw` is cleared at the head of every turn, before LW looks at it: the flag-driven pattern never comes |
| `alu_aimed` | the operands made for a bin land in the requested bin (`alu_coverage.h:114`), exactly in it (`alu_sequence.h:146`) | a positive b with a shift amount of 32 or more is drawn with its top bit set (line 162) and lands in the bin of a negative one |

Three passing properties say exactly how far the code keeps what a comment promises:

* `TargetsLand` of `DecoderBench` (`decoder_sequence.h:11`, the loop targets the weak bins):
  five I-type bins are sent as other instructions, the eight immediate bins of SLLI and SRLI as random ones,
  an odd offset near the lowest lands in the extreme bin. These are `Missable`; all others
  land.
* `ReachabilityIsOneSided` (`alu_coverage.h:68`, false for what can never be hit): 30
  bins with a = 0, a small positive b and a negative sign count as reachable. Closure is
  impossible, and with no hits they end up taking all ten places of the loop.
* `LoopSeesWhatIsMissing` (`decoder_sequence.h:322`, x0 in every place of every class):
  the scripts never send BNE with rs2 = x0, which closure requires; only a random
  transaction that draws x0 (`decoder_golden.h:342`) does.

And `DirectedClose` shows that the criterion "closure before seed 80"
(`pipe_test.h:238`) cannot fail: seed 0 closes everything, and tracking, which begins at
seed 1, reports seed 1.

More of this kind was met while modelling and is kept by no run:

* The lookahead scans offsets 1 to 3, not the next LOOKAHEAD entries
  (`pipe_scoreboard.h:117`): four lost commits become wrong values. `DropIsPinpointed`
  states what does hold.
* The PC wraps: `JAL x0, -4` at 0 fetches the last word of the address space and then word
  0, which A6 (`pipe_driver.h:218`) takes for corruption. `AssertionsHold` exempts A6 while
  that word is in fetch or in ID (`WrapsAround`), and nothing else.
* A loop that outlives the cycle budget gives a commit-count mismatch that is neither a leak
  nor a drop (`pipe_env.h:17`); nothing but this mismatch keeps a sequence that was given up
  from passing (`TimeoutIsAnError`).
* The caps of `prog_constrained` cut a stress program of 500 instructions to 238 words
  (`pipe_test.h:18`, `program_gen.h:544`).
* `prev_kind_` outlives a sequence, so that back-to-back pairs span a reset
  (`pipe_coverage.h:99`); `SeedsAddUp` allows one such pair for each seam between seeds.
* `annotate_hazards` compares bits 24:20 of a load's immediate as if they were rs2
  (`reference_model.h:296`).
* The boundary test gives an immediate of -1 nine hits of ten
  (`decoder_test_uvm.h:152`).
* The mask 0x7D counts every SRAI as an illegal shift (`decoder_coverage.h:185`).
* Closure of the decoder asks one hit for group E and the extremes and none for the general
  immediates, where `decoder_coverage.h:20` says the threshold.
* `alu_test_verilator.cpp:61` expects 0 for a shift by 32; the RTL shifts by b[4:0].

Smaller observations, read off the code while modelling it and checked by no run: the
tests against `MAX_SLOTS` inside the turns of `prog_constrained` are weaker than the
loop's own bound, so the `goto emit_addi` they guard is dead; errors of the stress
test's accumulating environment are not asserted on; `validate_coverage` of the ALU
ignores the configured `coverage_threshold` and asks for ten; the coverage of the
pipeline is sampled before the device is driven, from the reference trace alone.

Also, the comment at `rv32i_pipe5_with_branches.sv:337-342` provides for a
load-use stall and a redirect in one cycle. They never coincide
(`StallExcludesRedirect`, proved): a stall needs a load in EX and a redirect a
branch or a jump there. The override is harmless and redundant.

## 4. What is proved

All theorems are for every value of the constants that meets the modules' named
assumptions, which TLC evaluates in every run. Those that say more than the types:

* `WordAssumption`: a word has at least 5 bits, so that the shift amount is a slice of it.
* `PowerAssumption`: `2^0 = 1` and `2^(n + 1) = 2 * 2^n` below the width. True of the
  operator; stated because no back end knows anything of the exponential. All the rest about
  powers of two (`WordFacts`, `PowerSum`) is proved from these by induction.
* `AgreedPrograms`: the programs hold only encodings both decoders agree on (section 2).
* `BudgetAssumption`: a sequence gets at least one clock, and the reference model's limit of
  instructions lies beyond every clock a sequence may get. The code has 8000 against
  8n + 100 + 8, at most 2156 for the 256 words there are.
* `CapAssumption`, `AddressAssumption`: the generators' caps leave two words of instruction
  memory, and a word holds every address in it (so that PC arithmetic in it never wraps).
* `DrawAssumption`, `SequenceAssumption`, `BenchAssumption`: what the sequences of the unit
  testbenches draw is a register, a 12-bit immediate, an offset in range, a word, a shift of 4 to
  30; a plan names sequences there are. A word of the ALU testbench has at least 7 bits: below
  that a shift amount of 31 would be one of the special operands.
* `FallbackAssumption`: `0x12345678`, which the ALU testbench falls back on, is positive and
  not special, and nor is its negative twin: evident at 32 bits, a condition on smaller words.
* `WideWord`, a hypothesis of the two theorems that read immediates as signed numbers: a word
  has at least the 21 bits of a jump's offset.
* `LookaheadAssumption`, `ExpectedAssumption`, `MemoryAssumption`, `ProgramAssumption`,
  `GeneratorAssumption`: kinds of the constants.

### The pipeline (`PipelineIsaProofs`, on the lemmas of `PipelineProofs`)

For every width, memory size, set of programs and preloads, and any number of
sequences, each abandoned at any clock:

* `TypeInvariant`, `CoherentInvariant`, `StallRedirectExclusion`.
* `PipelineExecutesInOrder`: `Spec => ExecutesInOrder`, the refinement of `ProgramOrder`.
* `DriverAssertions`: `Spec => AssertionsHold`, the driver's checks A1-A8 at every clock.
* `ClocksAreAccounted`, `EveryForwardIsAnnotated`: the hazard annotation beside it.

`Coherent` is inductive together with `StateTypeOK`, and has three parts, each needed
for the next state of another:

* `FetchedInOrder`: ID/EX carries the decoding of its instruction word, whatever
  the auxiliary bits call architectural is the word at its PC, the three PCs are
  consecutive, and everything else is a zero word. It is what makes a flush or
  a bubble harmless.
* `OperandsCurrent`: the operands latched in ID/EX are those of the register file
  one clock later, which holds because the read port is write-first
  (`ReadPortIsNext`); it stays true without a clock because only a clock writes.
* `NeverForwardsFromLoad`: no operand in EX is forwarded from a load in MEM. Its
  preservation is the correctness of the load-use stall, and needs
  `MemSignalsMatch`: a load in MEM is one that was `mem_read` in EX.

`StallExcludesRedirect` follows from the first part and a case split on the
opcode in EX, the assertions from the first part and the signals of each opcode. For A6,
an instruction that comes to 0 without a redirect comes from the word before, the last one of
the address space; the flip-flops hold it or its successor, which is `WrapsAround`.

The refinement needs two more facts (`RefinementInv`): instruction memory holds only
agreed encodings, and under reset nothing is in flight. Then, step by step:

1. `ExOperands`: what forwarding delivers to the ALU are the abstract registers. The three
   sources of an operand are the three layers of the overlay; `OperandsCurrent` gives the
   lowest and `NeverForwardsFromLoad` excludes the one that would be wrong.
2. `ImmediateResult`, `BranchResult` and their like: on those operands the RTL's decoder,
   ALU and branch control compute what `execute_one` computes by its own formulas.
   `SubtractionZero`: the zero flag of a - b says a = b even with wrap-around.
3. `WritesRegister`, `Redirects` and the lemmas per opcode: a clock with an architectural
   instruction in EX is one `Execute`; a clock without one leaves the abstract state alone.
   The commits in flight lose at their front what the monitor samples and gain at their
   end what `Execute` adds.
4. `RefineRestart`, `RefineReset`: loading and resetting is a fresh start, the reset clocks and
   the release are stutters.

`CycleAccount` counts the transfers the reference model decides (`Transfers`), not those the
pipeline flushes for; `TransferIsRedirect` shows that they are the same. It is not inductive. `ClockAccount` states it for every state, with what ID/EX
and IF/ID hold counted as paid or not yet; `StallIsAnnotated` says that the pipeline stalls
behind a load exactly when `annotate_hazards` will say so. `WritersAreRecent`, what MEM and WB
write was written by the last two annotated instructions whatever bubbles came between, is what
`EveryForwardIsAnnotated` needs.

### The testbench (`TestbenchProofs`)

For every batch of sequences, look-ahead and clock budget:

* `BenchIsTyped`: `Spec => []TypeOK`.
* `NeverAFalseAlarm`: `Spec => []NoFalseAlarm`. The scoreboard never objects to this
  pipeline, at no statement of any sequence, whatever the sequence before left behind, as
  long as the program stays in memory. It is about `compare` alone: whether the
  environment adds an error for an unequal number of commits is the matter of the next three.
* `MatchedMeansEqual`: as soon as a sequence has everything matched, registers and memory,
  which no commit check reads, are the model's, and so is the number of commits.
* `TimeoutsAreErrors`: `Spec => []TimeoutIsAnError`. Commits outstanding at the end mean an
  error, whatever program, budget and pipeline state.
* `HaltedRunsAreJudged`: `Spec => [](BudgetSuffices => HaltedRunsAgree)`. A program that halts
  is judged to its last commit if its budget has three clocks for every instruction it
  executes and two more. By `ProgramsStayInside` a generated program executes at most one
  instruction per word, and the code gives it 8n + 100 clocks: the budget never cuts one short.

The reference model has run to its end before the pipeline starts, so the invariant
remembers its run: `past`, its states step by step, and `todo`, the commits it still had to
make in each (`Trace`). `Follows` says that the pipeline's abstract state is `past[n]`, that
the scoreboard expects exactly what is in flight followed by `todo[n]`, and that it has
counted no error; a clock moves `n` by one or not at all, by the refinement above, and the
one or two commits it reports are the front of the queue (`PopFront`). `WithinBudget`
keeps `n` from overtaking a model that was stopped at its limit; without
`BudgetAssumption` a right pipeline would go on past the model's last commit and be
blamed. `IdleIsClean` carries the verdict to the next sequence.

`Timely` bounds the clocks from above by the position in the run: an instruction in EX moves
it on, a bubble is followed by another at most, and the last commits take one clock through
MEM and one through WB. With `DrainsWhenMatched`, the loop ends as soon as the queue is
empty and a queue that is empty stays so, that excludes an end by the budget.

`CountsTell` says that as long as the scoreboard has no error each commit the monitor counted
has taken one entry off the expected list, so an entry left over is a commit too few.

### The decoders (`DecoderProofs`)

* `DutIsRtl`: `dut_decode(i) = Decode(i)` for every instruction. What the unit
  testbench finds out about `decoder.cpp` holds of the RTL.
* `GoldenIsRtl`: the golden model too, but for `UndefinedShift`, the I-type shifts whose
  funct7 has bit 5 and another bit set.
* `ErrorsCoverViolations`: `Spec => []ViolationsAreErrors`, for every plan, device
  defect and draw.
* `UnitBenchIsTyped`: `Spec => []TypeOK`, likewise.
* `SoundDevicePasses`: `Spec => []NoFalseAlarm`. Around a device without defect the testbench
  counts neither an error nor a violation, whatever the plan, the draws and the feedback.

The first two rest on `SignBitTest` (testing the sign bit of a 12-, 13- or 21-bit
field is comparing with its weight) and `ImmediatesAgree`, format by format. The third
needs `GoldenIsConsistent`: the golden model's output breaks no structural assertion,
so an output that does differs from it. The invariant is that `errors` is a natural
number and `errors = 0 => violations = 0`.

The last one says what the first two leave open: that no undefined shift is ever sent. Every
encoder yields an instruction word, and only a shift right by an immediate can be undefined
(`SoundWord` and the lemma of each format); so every transaction of every sequence, and
everything an aimed pass may synthesize for a bin, is a subset of `Sound` (`SoundIllegal` to
`SoundRounds`, `AimedWords`). A sequence is a list of lists put together by a fold; what such a
list is made of is shown by induction on its length (`FlattenType`), with the induction
principle drawn from the well-foundedness of < for a set of numbers (`SetInduction`).

* `EncodersRoundTrip`: what the six encoders put together `Decode` takes apart, registers and
  immediate, but for the lowest bit of an offset. `FieldIsImmediate` says that the low bits of
  a number, sign-extended like a field, are the number again; `TwelveBits`, `ThirteenBits` and
  `TwentyOneBits` that cutting them into the fields of a format and joining these loses nothing.
* `AimedWordsLand`: `Spec => []TargetsLand`. Whatever the loop sends for a weak bin lands in it,
  and exactly the bins of `Missable` can be missed. It is about the registers and operations of
  a word in groups A to C (`RegisterBinsLand`), and about its immediate elsewhere: each is read
  back by the golden model (`GoldenImmediates`, from the round trip and `ImmediatesAgree`) and
  counted as the kind it was drawn for (`AimedKinds`), the odd offsets without their lowest bit
  (`ImmBinsLand`). That a bin can be missed needs a word that misses it, so the theorem assumes
  what the code has: some register to draw, and a random transaction that is neither SLLI nor SRLI.

### The ALU (`AluProofs`)

* `GoldenAluIsRtl`: `golden_alu(op, a, b) = AluResult(op, a, b)` for every operation, every
  pair of words, every width. What the unit testbench finds out about `alu.cpp`, which shares the
  golden model's formulas, holds of the RTL.
* `AluBenchIsTyped`, `SoundAluPasses`: `Spec => []TypeOK`, `Spec => []NoFalseAlarm`, for every
  plan and whatever is drawn.
* `ReachabilityHolds`: `Spec => []ReachabilityIsOneSided`.
* `AimedTransactionsLand`: `Spec => []TargetsLand`, in every bin that operands can reach but
  those of a positive random b of 32 or more.

The RTL shifts bit vectors, the C++ code multiplies and divides by powers of two. A word is the
one its bits make (`OnesMakeWord`, by induction from the top bit); dividing by 2^n moves the
bits down by n, multiplying moves them up, and a negative number divided far enough has only
ones (`BitOfQuotient`, `BitOfProduct`, `SignBits`). `LeftShift`, `RightShift` and
`ArithmeticShift` follow, the last by way of the signed number having the word's bits (`SignOf`).

The bench is typed because every transaction of every script and driven pass is an operation and
two words (`ScriptsSendTransactions`, `DrivenTx`, and for what is synthesized `AimedLands`).
`ReachabilityHolds` is an argument about three categorisations of the same operand: which
combinations a pair of words can have (`SampledBinIsReachable`), that those of `HopelessBins`
are let pass all the same (`HopelessIsCounted`), and that closure asks for ten hits of each,
which is why the flow never ends early (`NeverClosed`). For `AimedTransactionsLand` the operand
made for a category is in it, with the sign that was asked for where the category leaves a
choice (`NonspecialDraws`, `SynthesizedB`, `SynthesizedA`).

### The scoreboard (`ScoreboardProofs`, on lemmas of `CommonLemmas`)

For every window `LOOKAHEAD`, every expected list and every report, of any length:

* `EverythingIsAccounted`: `Spec => []Accounted`.
* `VerdictIsRight`: `Spec => [](CleanMeansEqual /\ EqualMeansClean)`; `RightDeviceIsClean`
  is its second half.
* `OneLossIsPinpointed`: `Spec => []DropIsPinpointed`.
* `NoFaultIsHidden`: `Spec => []ErrorsCoverFaults`, with any number of faults of any kind.

The inductive invariant adds `Tracks` to the verdicts: the queue is the last
`Remaining` entries of the expected list, and matched, dropped and wrong add up to
what left it. A step is one of four cases (match in front, match behind, wrong
value, extra commit); the nearest match the scan finds exists by the least-number
principle (`NearestMatch`).

`DropIsPinpointed` speaks of a finished report only. `GapIsCounted` says it of every
beginning of one (`Lost`): before the gap the report is a beginning of the list and nothing
is counted; behind it errors and drops are the width of the gap, and with `Tally` they fix
where in the list the queue begins. The first commit behind the gap is found by the scan
because the gap is narrower than the window, and nowhere earlier because the list repeats
nothing.

For `ErrorsCoverFaults` an explanation gives each report the entry it stands for, or none, in
increasing order; its cost is what entries are missed, reports added and values wrong. The
comparison itself builds one: a match passes over the entries it drops, a wrong value takes the
entry in front, an extra commit none, and each adds to the cost no more than it adds to
`errors` (`ExplainedUpTo`).

### The generators (`RandomProgramsProofs`)

For every length asked for, budget of redirects and set of draws:

* `ProgramsAreTyped`, `ProgramsFit`: `Spec => []TypeOK`, `Spec => []FitsImem`.
* `ProgramsRunForward`: `Spec => RunsForward`, every instruction of a generated program leads
  forward, whatever registers and memory hold.
* `ProgramsStayInside`: `Spec => []StaysInside`, the reference model never leaves the
  program and takes at most one step per word: no generated program can loop, and none can
  run off the end, which is where the pipeline and the model part.

`FitsImem` is not inductive: a loop that tests the length before a turn that appends
up to three words overshoots its target. `Room` says by how much it may, phase by
phase, and what is left for the HALT. `Shape` says what is appended: instructions are
`Straight` or `Skipping` (they lead 4 or 8 bytes on), a redirect never comes last
(`OpenProg`), so with the HALT behind it no redirect skips past the end (`ClosedProg`);
the running model stands before some instruction with no more steps behind it than
words (`Running`). The encoders' immediates are taken apart by the reference model's
extractors in `SkipImmediates`.

### Model-checked only

* Liveness (`ReachesHalt`): the prover has no ENABLED. `ProgramsStayInside` bounds the steps;
  that the next step is taken is left to TLC.
* `HaltedRunsAgree` where the budget is tighter than `BudgetSuffices`, and `EveryProgramHalts`:
  they depend on the programs.
* What the scripted sequences deliver (`PhasesDeliver`, `LoopSeesWhatIsMissing`,
  `SequencesDeliver`) and that every defect comes to light (`DefectsAreCaught` of both benches):
  the content of concrete lists, some hundreds of literals joined by a fold, against a list of
  concrete defects. There is nothing general in them, and TLC evaluates them; the provers can
  say of what kind such a list is, not what it holds at each place.
* `GroupsAgree`, `SeedsAddUp`, `DirectedClose`: sums over the bins of a bag of hits. Comparing two
  such sums is induction over the fold that defines them; `DirectedClose` is about the directed
  programs.

## 5. What is not modelled

* `sv_tb/`: the two unit testbenches in SystemVerilog. Their sequences and checks are
  those of the C++ ones; what is their own (`randomize() with`, covergroups) is the
  semantics of a simulator. `archive/`: earlier phases of the design, superseded by
  `rtl/` and built by nothing. Build files.
* Of the test runners, fixtures and the printing of summaries; the runners other than
  the stress test and the regression are lists of sequences, which are constants
  of `Testbench` and of the unit benches.
* The older, non-UVM entry points `alu_test.cpp`, `decoder_test.cpp`, `alu_top.cpp`,
  `decoder_top.cpp`: spot checks of the same device. They drive what the sequences drive.
* Logging, CSV output, cumulative counters nobody compares.
* Probabilities: a draw is any value its distribution reaches. How likely a random
  test is to meet a case is not a question a model checker answers.
* X propagation: Verilator's simulation is two-valued and every flip-flop has a
  reset value before the first sampled edge.

## 6. Plan

1. Done: the pipeline, its refinement, the testbench around it, the scoreboard, the
   generators, the coverage and its stress test, both unit testbenches; the theorems of
   section 4.
2. What is left of the proofs is the sums of the coverage (`GroupsAgree`, `SeedsAddUp`), which
   need a theory of sums over bags that the library does not have. Everything else that holds for
   every value of the constants is proved; what is model-checked only is listed above.
