------------------------------ MODULE Testbench ------------------------------
(***************************************************************************)
(* cpp_tb/pipeline/pipe_env.h and pipe_agent.h: the environment runs the   *)
(* reference model over a sequence, loads the scoreboard with its commits, *)
(* and lets the agent clock the pipeline until every commit is matched or  *)
(* the cycle budget is spent.  One thread does all of it; a phase is where *)
(* it stands.  The same pipeline, monitor and scoreboard serve sequence    *)
(* after sequence.                                                         *)
(***************************************************************************)
EXTENDS ArchState, Scoreboard

CONSTANTS
    MAX_INSTRS,                     \* run()'s limit (8000 in the code)
    CYCLES_PER_WORD, EXTRA_CYCLES,  \* max_cycles() (8 and 100 in the code)
    RESET_CLOCKS, DRAIN_CLOCKS,     \* 5 and 8 in the code
    SEQUENCES                       \* bound on the sequences run

\* A sequence always gets a clock, and the reference model's limit lies beyond every
\* clock a sequence may get: 256 words come to 2156 clocks.
ASSUME BudgetAssumption ==
    /\ {MAX_INSTRS, CYCLES_PER_WORD, EXTRA_CYCLES, RESET_CLOCKS, DRAIN_CLOCKS, SEQUENCES} \subseteq Nat
    /\ EXTRA_CYCLES > 0
    /\ \A prog \in PROGRAMS :
          Len(prog) * CYCLES_PER_WORD + EXTRA_CYCLES + DRAIN_CLOCKS <= MAX_INSTRS

VARIABLES
    phase,         \* "idle", "reference", "reset", "run", "drain", "check"
    left,          \* clocks left in "reset" and "drain"
    seqno,         \* sequences completed
    program, preload,
    ref,           \* the reference model
    sb,            \* the scoreboard
    seq_commits,   \* the monitor's per-sequence commit count
    total_errors_

env_vars == <<phase, left, seqno, program, preload, ref, sb, seq_commits, total_errors_>>
vars == <<state_vars, env_vars>>

max_cycles == Len(program) * CYCLES_PER_WORD + EXTRA_CYCLES

Init ==
    /\ rst = FALSE
    /\ instr_mem = LoadedImem(<<>>) /\ data_mem = LoadedDmem(<<>>)
    /\ Cleared
    /\ phase = "idle" /\ left = 0 /\ seqno = 0
    /\ program = <<>> /\ preload = <<>> /\ ref = LoadedModel(<<>>, <<>>)
    /\ sb = LoadExpected(<<>>) /\ seq_commits = 0 /\ total_errors_ = 0

\* run_sequence: a fresh reference model with the program and the preloads.
StartSequence ==
    /\ phase = "idle" /\ seqno < SEQUENCES
    /\ program' \in PROGRAMS /\ preload' \in PRELOADS
    /\ ref' = LoadedModel(program', preload')
    /\ phase' = "reference"
    /\ UNCHANGED <<state_vars, left, seqno, sb, seq_commits, total_errors_>>

RefDone == ref.steps >= MAX_INSTRS \/ OutOfMemory(ref.pc) \/ Halted(ref)

\* One turn of run()'s loop.
RunReference ==
    /\ phase = "reference" /\ ~RefDone
    /\ ref' = Stepped(ref)
    /\ UNCHANGED <<state_vars, phase, left, seqno, program, preload,
                   sb, seq_commits, total_errors_>>

\* load_expected, reset_sequence_counts, load_program, preload_dmem, rst = 1.
Prepare ==
    /\ phase = "reference" /\ RefDone
    /\ sb' = LoadExpected(ref.commits)
    /\ seq_commits' = 0
    /\ Restart
    /\ instr_mem' = LoadedImem(program) /\ data_mem' = LoadedDmem(preload)
    /\ phase' = "reset" /\ left' = RESET_CLOCKS
    /\ UNCHANGED <<seqno, program, preload, ref, total_errors_>>

HoldReset ==
    /\ phase = "reset" /\ left > 0
    /\ KeepReset
    /\ left' = left - 1
    /\ UNCHANGED <<phase, seqno, program, preload, ref, sb, seq_commits, total_errors_>>

EndReset ==
    /\ phase = "reset" /\ left = 0
    /\ LeaveReset
    /\ phase' = "run"
    /\ UNCHANGED <<left, seqno, program, preload, ref, sb, seq_commits, total_errors_>>

\* The scoreboard after the k-th commit of a tick, if there is one.
HandOver(b, commits, k) == IF k <= Len(commits) THEN Compare(b, commits[k]) ELSE b

\* post_posedge hands the commits of the tick to the scoreboard: at most two.
Observe ==
    /\ sb' = HandOver(HandOver(sb, reported', 1), reported', 2)
    /\ seq_commits' = seq_commits + Len(reported')

RunTick ==
    /\ phase = "run"
    /\ Advance(max_cycles)
    /\ Observe
    /\ IF AllMatched(sb') THEN phase' = "drain" /\ left' = DRAIN_CLOCKS
                          ELSE UNCHANGED <<phase, left>>
    /\ UNCHANGED <<seqno, program, preload, ref, total_errors_>>

\* tick returns false.
OutOfBudget ==
    /\ phase = "run" /\ LimitReached(max_cycles)
    /\ phase' = "check"
    /\ UNCHANGED <<state_vars, left, seqno, program, preload, ref, sb,
                   seq_commits, total_errors_>>

\* The drain ticks have no cycle limit.
DrainTick ==
    /\ phase = "drain" /\ left > 0
    /\ Advance(0)
    /\ Observe
    /\ left' = left - 1
    /\ UNCHANGED <<phase, seqno, program, preload, ref, total_errors_>>

Drained ==
    /\ phase = "drain" /\ left = 0
    /\ phase' = "check"
    /\ UNCHANGED <<state_vars, left, seqno, program, preload, ref, sb,
                   seq_commits, total_errors_>>

\* Faulty: the commits matched for the commits expected.
Delta_Matched == seq_commits - sb.matched

\* dut_cnt - ref_cnt
Delta == seq_commits - Len(ref.commits)

CheckCounts ==
    /\ phase = "check"
    /\ total_errors_' = total_errors_ + sb.errors + (IF Delta # 0 THEN 1 ELSE 0)
    /\ seqno' = seqno + 1
    /\ phase' = "idle"
    /\ UNCHANGED <<state_vars, left, program, preload, ref, sb, seq_commits>>

Next == \/ StartSequence \/ RunReference \/ Prepare \/ HoldReset \/ EndReset
        \/ RunTick \/ OutOfBudget \/ DrainTick \/ Drained \/ CheckCounts

Spec == Init /\ [][Next]_vars
-----------------------------------------------------------------------------
TypeOK ==
    /\ phase \in {"idle", "reference", "reset", "run", "drain", "check"}
    /\ left \in Nat /\ seqno \in 0 .. SEQUENCES
    /\ program \in Seq(Instr)
    /\ ref.pc \in Word /\ ref.regs \in [RegIndex -> Word] /\ ref.steps \in 0 .. MAX_INSTRS
    /\ ref.commits \in Seq(CommitRecord) /\ sb.expected \in Seq(CommitRecord)
    /\ seq_commits \in Nat /\ total_errors_ \in Nat
    /\ rst <=> phase = "reset"

\* The pipeline is right, so the scoreboard must never object, in no sequence and at
\* no moment, except where the reference model left the program for good while the
\* pipeline wraps around to word 0 of its memory.  Until the scoreboard is loaded for
\* a sequence it still holds the verdict on the one before.  This is about compare()
\* alone: a loop that outlives its budget still costs the environment an error, for
\* its commit count (TimeoutIsAnError).
NoFalseAlarm == phase # "reference" /\ ~OutOfMemory(ref.pc) => sb.errors = 0

\* The verdict on a sequence whose program halts: the budget was enough, every
\* expected commit was seen exactly once, nothing came after, and the pipeline's
\* registers and data memory, which no commit check reads, are the reference model's.
\* It holds for every sequence, whatever state the one before was abandoned in.
HaltedRunsAgree ==
    phase = "check" /\ Halted(ref) =>
        /\ sb.errors = 0 /\ AllMatched(sb) /\ Delta = 0
        /\ regs = ref.regs /\ data_mem = ref.dmem

\* The programs of a regression leave the cycle budget alone: the reference model
\* halts on them by itself, and the pipeline is done before its budget is.
EveryProgramHalts == phase = "check" => Halted(ref) /\ cycle_ < max_cycles

\* Nothing in the environment asks whether a sequence was finished or given up at its
\* budget: all_matched() only ends the agent's loop.  The scoreboard is content with
\* a queue it never got to the end of, so it must be the commit count that gives such
\* a sequence away.  It does, whatever the pipeline did, where nothing else objects.
TimeoutIsAnError == phase = "check" /\ ~AllMatched(sb) => sb.errors > 0 \/ Delta # 0
=============================================================================
