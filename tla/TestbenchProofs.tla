-------------------------- MODULE TestbenchProofs --------------------------
(***************************************************************************)
(* The testbench never blames this pipeline: theorems about whole batches  *)
(* of sequences, for every program, preload, width, memory size, look-     *)
(* ahead and clock budget.                                                 *)
(***************************************************************************)
EXTENDS Testbench, PipelineProofs

RefState == [imem : [0 .. IMEM_WORDS - 1 -> Instr], dmem : [0 .. DMEM_WORDS - 1 -> Word],
             pc : Word, regs : [RegIndex -> Word], steps : Nat, commits : Seq(CommitRecord)]

\* execute_one on the state of the simulator.
StepOf(s) == ExecuteOne(s.pc, s.regs, s.dmem, s.imem[s.pc \div 4])

-----------------------------------------------------------------------------
(* The invariant.  The reference model has run before the pipeline starts; *)
(* past remembers its states, step by step, and todo the commits it still  *)
(* had to make in each.                                                    *)

\* The run of the simulator that took program prog and preload pre to the state r.
Trace(past, todo, prog, pre, r) ==
    /\ past \in [0 .. r.steps -> RefState]
    /\ todo \in [0 .. r.steps -> Seq(CommitRecord)]
    /\ past[0] = LoadedModel(prog, pre) /\ past[r.steps] = r
    /\ todo[0] = r.commits /\ todo[r.steps] = <<>>
    /\ \A k \in 0 .. r.steps :
          /\ past[k].imem = LoadedImem(prog)
          /\ todo[k] = <<>> => past[k].regs = r.regs /\ past[k].dmem = r.dmem
          /\ k < r.steps =>
                /\ ~OutOfMemory(past[k].pc)
                /\ past[k + 1] = Stepped(past[k])
                /\ todo[k] = StepOf(past[k]).commits \o todo[k + 1]

\* The pipeline stands where the reference model stood after n steps.
StandsAt(past, n) ==
    ArchPc = past[n].pc /\ ArchRegs = past[n].regs /\ ArchDmem = past[n].dmem

\* The clocks a run takes.  An instruction takes one, and before it at most two go by
\* without one, behind a redirect; the last commits leave MEM and WB in the two clocks
\* after the last step.
Timely(n) ==
    /\ n < ref.steps => cycle_ <= 3 * n + (IF vEX THEN 2 ELSE IF vID THEN 1 ELSE 0)
    /\ n = ref.steps => /\ RegCommits # <<>> => cycle_ <= 3 * n
                        /\ InFlight # <<>> => cycle_ <= 3 * n + 1

\* The pipeline stands at step n of the run in time, and the scoreboard waits for exactly
\* what the pipeline has in flight and has yet to do.
Follows(past, todo, n) ==
    /\ n <= cycle_
    /\ phase = "run" => Timely(n)
    /\ StandsAt(past, n)
    /\ sb.expected = InFlight \o todo[n]
    /\ sb.errors = 0
    /\ seq_commits + Len(sb.expected) = Len(ref.commits)

FollowsReference ==
    phase # "idle" =>
        \E past, todo :
            /\ Trace(past, todo, program, preload, ref)
            /\ phase # "reference" /\ ~OutOfMemory(ref.pc) =>
                  \E n \in 0 .. ref.steps : Follows(past, todo, n) /\ (phase = "reset" => n = 0)

\* The clock budget keeps the pipeline from overtaking a reference model that was
\* stopped at MAX_INSTRS.
WithinBudget ==
    /\ phase # "idle" => program \in PROGRAMS /\ preload \in PRELOADS /\ seqno < SEQUENCES
    /\ phase \notin {"idle", "reference"} => RefDone /\ instr_mem = LoadedImem(program)
    /\ phase = "run" => cycle_ <= max_cycles
    /\ phase = "drain" => cycle_ + left <= max_cycles + DRAIN_CLOCKS

BenchTypeOK == TypeOK /\ ref \in RefState /\ Counters(sb, CommitRecord)

\* The commits are matched when the loop ends, unless the budget ended it.
BudgetSuffices == 3 * ref.steps + 2 <= max_cycles

DrainsWhenMatched ==
    /\ phase = "run" /\ cycle_ > 0 => ~AllMatched(sb)
    /\ phase = "drain" /\ ~OutOfMemory(ref.pc) => AllMatched(sb)
    /\ phase = "check" /\ ~OutOfMemory(ref.pc) /\ BudgetSuffices => AllMatched(sb)

IdleIsClean == phase = "idle" /\ ~OutOfMemory(ref.pc) => sb.errors = 0

BenchInv == /\ RefinementInv /\ BenchTypeOK /\ WithinBudget /\ FollowsReference
            /\ DrainsWhenMatched /\ IdleIsClean

-----------------------------------------------------------------------------
(* The reference model, one instruction at a time                          *)

\* The reference model's arithmetic stays in the word.
LEMMA ArithType ==
    ASSUME NEW i \in Instr, NEW v1 \in Word, NEW v2 \in Word, NEW sh, NEW sub
    PROVE  ArithResult(i, v1, v2, sh, sub) \in Word
  <1>1. i.funct3 \in {0, 1, 2, 3, 4, 5, 6, 7}
    BY InstrFields
  <1>2. Plus(v1, v2) \in Word /\ Minus(v1, v2) \in Word
    BY PlusType, MinusType, WordIsInt
  <1>3. \A p : Flag(p) \in Word
    BY SmallWords DEF Flag
  <1>4. /\ BitAnd(v1, v2) \in Word /\ BitOr(v1, v2) \in Word /\ BitXor(v1, v2) \in Word
        /\ ShiftLeft(v1, sh) \in Word /\ ShiftRight(v1, sh) \in Word
        /\ ShiftRightArith(v1, sh) \in Word
    BY WordOfType DEF BitAnd, BitOr, BitXor, ShiftLeft, ShiftRight, ShiftRightArith
  <1>5. QED
    BY <1>1, <1>2, <1>3, <1>4 DEF ArithResult

\* execute_one keeps the types of the architectural state, and an instruction that
\* leaves no commit leaves registers and memory alone.
LEMMA ExecuteType ==
    ASSUME NEW p \in Word, NEW r \in [RegIndex -> Word],
           NEW d \in [0 .. DMEM_WORDS - 1 -> Word], NEW i \in Instr
    PROVE  LET e == ExecuteOne(p, r, d, i)
           IN  /\ e.pc \in Word /\ e.regs \in [RegIndex -> Word]
               /\ e.dmem \in [0 .. DMEM_WORDS - 1 -> Word]
               /\ e.commits \in Seq(CommitRecord)
               /\ e.commits = <<>> => e.regs = r /\ e.dmem = d
  <1> DEFINE e == ExecuteOne(p, r, d, i)
             rv1 == r[i.rs1]
             rv2 == r[i.rs2]
             Goal == /\ e.pc \in Word /\ e.regs \in [RegIndex -> Word]
                     /\ e.dmem \in [0 .. DMEM_WORDS - 1 -> Word]
                     /\ e.commits \in Seq(CommitRecord)
                     /\ e.commits = <<>> => e.regs = r /\ e.dmem = d
  <1> SUFFICES Goal
    OBVIOUS
  <1>1. /\ i.rs1 \in RegIndex /\ i.rs2 \in RegIndex /\ i.rd \in RegIndex
        /\ rv1 \in Word /\ rv2 \in Word
    BY InstrFields
  <1>2. /\ IssSext12(i) \in Word /\ IssImmS(i) \in Word /\ IssImmB(i) \in Word /\ IssImmJ(i) \in Word
    BY ImmediatesMatch, ImmType
  <1>3. /\ \A a, b \in Word : Plus(a, b) \in Word
        /\ Plus(p, 4) \in Word
    BY PlusType, WordIsInt, SmallWords
  <1>4. \A a \in Word : a \div 4 \in Nat /\ DmemIndex(a) \in 0 .. DMEM_WORDS - 1
    BY WordSelect DEF DmemIndex, DmemWord
  <1>5. ASSUME NEW val \in Word, NEW target \in Word, e = RegWrite(r, d, i.rd, val, target)
        PROVE  Goal
    <2>1. RegCommit(i.rd, val) \in CommitRecord
      BY <1>1 DEF RegCommit, CommitRecord
    <2>2. /\ e.pc = target /\ e.dmem = d
          /\ e.regs = (IF i.rd # 0 THEN [r EXCEPT ![i.rd] = val] ELSE r)
          /\ e.commits = (IF i.rd # 0 THEN <<RegCommit(i.rd, val)>> ELSE <<>>)
      BY <1>5 DEF RegWrite
    <2> HIDE DEF e
    <2>3. QED
      BY <1>1, <2>1, <2>2
  <1>6. ASSUME NEW target \in Word,
               e = [pc |-> target, regs |-> r, dmem |-> d, commits |-> <<>>]
        PROVE  Goal
    BY <1>6
  <1> HIDE DEF e, rv1, rv2
  <1> USE DEF R_TYPE, I_TYPE, LOAD, STORE, BRANCH, JAL
  <1>7. CASE i.opcode = R_TYPE
    <2>1. e = RegWrite(r, d, i.rd, ArithResult(i, rv1, rv2, rv2 % 32, Alternate(i)), Plus(p, 4))
      BY <1>7 DEF ExecuteOne, e, rv1, rv2
    <2>2. ArithResult(i, rv1, rv2, rv2 % 32, Alternate(i)) \in Word
      BY <1>1, ArithType, Zenon
    <2>3. QED
      BY <1>3, <1>5, <2>1, <2>2
  <1>8. CASE i.opcode = I_TYPE
    <2>1. e = RegWrite(r, d, i.rd, ArithResult(i, rv1, IssSext12(i), i.rs2, FALSE), Plus(p, 4))
      BY <1>8 DEF ExecuteOne, e, rv1, rv2
    <2>2. ArithResult(i, rv1, IssSext12(i), i.rs2, FALSE) \in Word
      BY <1>1, <1>2, ArithType, Zenon
    <2>3. QED
      BY <1>3, <1>5, <2>1, <2>2
  <1>9. CASE i.opcode = LOAD
    <2>1. e = RegWrite(r, d, i.rd, d[DmemIndex(Plus(rv1, IssSext12(i)))], Plus(p, 4))
      BY <1>9 DEF ExecuteOne, e, rv1, rv2
    <2>2. d[DmemIndex(Plus(rv1, IssSext12(i)))] \in Word
      BY <1>1, <1>2, <1>3, <1>4
    <2>3. QED
      BY <1>3, <1>5, <2>1, <2>2
  <1>10. CASE i.opcode = STORE
    <2> DEFINE ea == Plus(rv1, IssImmS(i))
    <2>1. e = [pc |-> Plus(p, 4), regs |-> r, dmem |-> [d EXCEPT ![DmemIndex(ea)] = rv2],
               commits |-> <<MemCommit(ea \div 4, rv2)>>]
      BY <1>10 DEF ExecuteOne, e, rv1, rv2
    <2>2. ea \in Word
      BY <1>1, <1>2, <1>3
    <2> HIDE DEF ea
    <2>3. MemCommit(ea \div 4, rv2) \in CommitRecord
      BY <1>1, <1>4, <2>2 DEF MemCommit, CommitRecord
    <2> DEFINE c == MemCommit(ea \div 4, rv2)
               d2 == [d EXCEPT ![DmemIndex(ea)] = rv2]
    <2>4. d2 \in [0 .. DMEM_WORDS - 1 -> Word]
      BY <1>1
    <2>5. e = [pc |-> Plus(p, 4), regs |-> r, dmem |-> d2, commits |-> <<c>>] /\ c \in CommitRecord
      BY <2>1, <2>3
    <2> HIDE DEF c, d2
    <2>6. QED
      BY <1>3, <2>4, <2>5
  <1>11. CASE i.opcode = BRANCH
    <2> DEFINE to == IF BranchDecision(i, rv1, rv2) THEN Plus(p, IssImmB(i)) ELSE Plus(p, 4)
    <2>1. e = [pc |-> to, regs |-> r, dmem |-> d, commits |-> <<>>]
      BY <1>11 DEF ExecuteOne, e, rv1, rv2
    <2>2. to \in Word
      BY <1>2, <1>3
    <2>3. QED
      BY <1>6, <2>1, <2>2
  <1>12. CASE i.opcode = JAL
    <2>1. e = RegWrite(r, d, i.rd, Plus(p, 4), Plus(p, IssImmJ(i)))
      BY <1>12 DEF ExecuteOne, e, rv1, rv2
    <2>2. QED
      BY <1>2, <1>3, <1>5, <2>1
  <1>13. CASE i.opcode \notin {R_TYPE, I_TYPE, LOAD, STORE, BRANCH, JAL}
    <2>1. e = [pc |-> Plus(p, 4), regs |-> r, dmem |-> d, commits |-> <<>>]
      BY <1>13 DEF ExecuteOne, e, rv1, rv2
    <2>2. QED
      BY <1>3, <1>6, <2>1
  <1>14. QED
    BY <1>7, <1>8, <1>9, <1>10, <1>11, <1>12, <1>13 DEF e

\* The instruction run() stops at jumps to itself and leaves nothing.
LEMMA HaltStays ==
    ASSUME NEW p \in Word, NEW r, NEW d
    PROVE  ExecuteOne(p, r, d, HALT) = [pc |-> p, regs |-> r, dmem |-> d, commits |-> <<>>]
  <1>1. IssImmJ(HALT) = 0
    <2>1. Trunc(0) = 0
      BY WordFacts DEF Trunc
    <2>2. SignBit(HALT) = 0
      BY DEF SignBit, HALT
    <2>3. /\ HALT.rs1 = 0 /\ HALT.funct3 = 0 /\ HALT.rs2 = 0 /\ HALT.funct7 = 0
      BY DEF HALT
    <2>4. (0 * 8 + 0) * 4096 + (0 % 2) * 2048 + (0 % 64) * 32 + (0 \div 2) * 2 - 0 * 1048576 = 0
      BY SMT
    <2>5. QED
      BY <2>1, <2>2, <2>3, <2>4, SMT DEF IssImmJ
  <1>2. Plus(p, 0) = p
    BY WordIsInt, WordFacts DEF Plus, Trunc
  <1>3. ExecuteOne(p, r, d, HALT) = RegWrite(r, d, 0, Plus(p, 4), Plus(p, IssImmJ(HALT)))
    BY DEF ExecuteOne, HALT, R_TYPE, I_TYPE, LOAD, STORE, BRANCH, JAL
  <1>4. QED
    BY <1>1, <1>2, <1>3 DEF RegWrite

\* One instruction keeps the reference model typed; its step is what it adds to the record.
LEMMA SteppedType ==
    ASSUME NEW s \in RefState, ~OutOfMemory(s.pc)
    PROVE  /\ Stepped(s) \in RefState /\ StepOf(s).commits \in Seq(CommitRecord)
           /\ Stepped(s).pc = StepOf(s).pc /\ Stepped(s).regs = StepOf(s).regs
           /\ Stepped(s).dmem = StepOf(s).dmem /\ Stepped(s).imem = s.imem
           /\ Stepped(s).steps = s.steps + 1
           /\ Stepped(s).commits = s.commits \o StepOf(s).commits
           /\ StepOf(s).commits = <<>> => StepOf(s).regs = s.regs /\ StepOf(s).dmem = s.dmem
  <1> DEFINE e == StepOf(s)
  <1>1. /\ s.pc \in Word /\ s.regs \in [RegIndex -> Word] /\ s.steps \in Nat
        /\ s.dmem \in [0 .. DMEM_WORDS - 1 -> Word] /\ s.imem \in [0 .. IMEM_WORDS - 1 -> Instr]
        /\ s.commits \in Seq(CommitRecord)
    BY DEF RefState
  <1>2. s.imem[s.pc \div 4] \in Instr
    <2>1. s.pc \div 4 \in Nat /\ s.pc \div 4 < IMEM_WORDS
      BY <1>1, WordSelect, MemoryAssumption DEF OutOfMemory
    <2>2. QED
      BY <1>1, <2>1, MemoryAssumption
  <1>3. /\ e.pc \in Word /\ e.regs \in [RegIndex -> Word]
        /\ e.dmem \in [0 .. DMEM_WORDS - 1 -> Word]
        /\ e.commits \in Seq(CommitRecord)
        /\ e.commits = <<>> => e.regs = s.regs /\ e.dmem = s.dmem
    BY <1>1, <1>2, ExecuteType DEF StepOf
  <1>4. Stepped(s) = [s EXCEPT !.pc = e.pc, !.regs = e.regs, !.dmem = e.dmem,
                               !.steps = s.steps + 1, !.commits = s.commits \o e.commits]
    BY Zenon DEF Stepped, StepOf
  <1> HIDE DEF e
  <1>5. s.commits \o e.commits \in Seq(CommitRecord) /\ s.steps + 1 \in Nat
    BY <1>1, <1>3, ConcatProperties
  <1> DEFINE t == Stepped(s)
             n0 == s.steps + 1
             c0 == s.commits \o e.commits
  <1>6. /\ n0 \in Nat /\ c0 \in Seq(CommitRecord)
        /\ t = [s EXCEPT !.pc = e.pc, !.regs = e.regs, !.dmem = e.dmem,
                         !.steps = n0, !.commits = c0]
    BY <1>4, <1>5
  <1> HIDE DEF t, n0, c0
  <1>7. /\ t \in RefState /\ t.pc = e.pc /\ t.regs = e.regs /\ t.dmem = e.dmem
        /\ t.imem = s.imem /\ t.steps = n0 /\ t.commits = c0
    BY <1>3, <1>6 DEF RefState
  <1>8. QED
    <2>1. StepOf(s) = e /\ Stepped(s) = t /\ n0 = s.steps + 1 /\ c0 = s.commits \o e.commits
      BY DEF e, t, n0, c0
    <2>2. QED
      BY <1>3, <1>7, <2>1

-----------------------------------------------------------------------------
(* Its run                                                                 *)

\* A loaded reference model is typed.
LEMMA LoadedType ==
    ASSUME NEW prog \in Seq(Instr), NEW pre, \A w \in DOMAIN pre : pre[w] \in Word
    PROVE  LoadedModel(prog, pre) \in RefState
  <1>1. LoadedImem(prog) \in [0 .. IMEM_WORDS - 1 -> Instr]
    <2>1. \A w \in 0 .. IMEM_WORDS - 1 : w < Len(prog) => prog[w + 1] \in Instr
      BY MemoryAssumption
    <2>2. QED
      BY <2>1, ZeroInstrType DEF LoadedImem
  <1>2. LoadedDmem(pre) \in [0 .. DMEM_WORDS - 1 -> Word]
    BY SmallWords DEF LoadedDmem
  <1>3. [r \in RegIndex |-> 0] \in [RegIndex -> Word] /\ 0 \in Word
    BY SmallWords
  <1>4. QED
    BY <1>1, <1>2, <1>3 DEF LoadedModel, RefState

\* Before the first instruction the history is one state, with nothing to come.
LEMMA TraceStart ==
    ASSUME NEW prog \in Seq(Instr), NEW pre, \A w \in DOMAIN pre : pre[w] \in Word
    PROVE  \E past, todo : Trace(past, todo, prog, pre, LoadedModel(prog, pre))
  <1> DEFINE r == LoadedModel(prog, pre)
             past == [k \in 0 .. 0 |-> r]
             todo == [k \in 0 .. 0 |-> <<>>]
  <1>1. r \in RefState /\ r.steps = 0 /\ r.commits = <<>> /\ r.imem = LoadedImem(prog)
    BY LoadedType DEF LoadedModel
  <1>2. r = LoadedModel(prog, pre)
    OBVIOUS
  <1> HIDE DEF r
  <1>3. Trace(past, todo, prog, pre, r)
    BY <1>1, <1>2, EmptyReport DEF Trace
  <1>4. QED
    BY <1>2, <1>3

\* One more instruction makes the history one state longer.
LEMMA TraceExtend ==
    ASSUME NEW past, NEW todo, NEW prog, NEW pre, NEW r \in RefState,
           Trace(past, todo, prog, pre, r), ~OutOfMemory(r.pc)
    PROVE  \E past2, todo2 : Trace(past2, todo2, prog, pre, Stepped(r))
  <1> DEFINE n == r.steps
             r2 == Stepped(r)
             c == StepOf(r).commits
             past2 == [k \in 0 .. n + 1 |-> IF k <= n THEN past[k] ELSE r2]
             todo2 == [k \in 0 .. n + 1 |-> IF k <= n THEN todo[k] \o c ELSE <<>>]
  <1>1. /\ r2 \in RefState /\ r2.steps = n + 1 /\ n \in Nat /\ r2.imem = r.imem
        /\ r2.commits = r.commits \o c /\ c \in Seq(CommitRecord)
        /\ c = <<>> => r2.regs = r.regs /\ r2.dmem = r.dmem
    BY SteppedType DEF RefState
  <1>2. /\ past \in [0 .. n -> RefState] /\ todo \in [0 .. n -> Seq(CommitRecord)]
        /\ past[0] = LoadedModel(prog, pre) /\ past[n] = r
        /\ todo[0] = r.commits /\ todo[n] = <<>>
        /\ \A k \in 0 .. n :
              /\ past[k].imem = LoadedImem(prog)
              /\ todo[k] = <<>> => past[k].regs = r.regs /\ past[k].dmem = r.dmem
              /\ k < n => /\ ~OutOfMemory(past[k].pc)
                          /\ past[k + 1] = Stepped(past[k])
                          /\ todo[k] = StepOf(past[k]).commits \o todo[k + 1]
    BY DEF Trace
  <1>3. r2 = Stepped(r) /\ c = StepOf(r).commits
    OBVIOUS
  <1> HIDE DEF n, r2, c
  <1>4. /\ \A k \in 0 .. n : past2[k] = past[k] /\ todo2[k] = todo[k] \o c
        /\ past2[n + 1] = r2 /\ todo2[n + 1] = <<>>
    BY <1>1
  <1>5. /\ past2 \in [0 .. n + 1 -> RefState]
        /\ todo2 \in [0 .. n + 1 -> Seq(CommitRecord)]
    BY <1>1, <1>2, ConcatProperties, EmptyReport
  <1> HIDE DEF past2, todo2
  <1>6. /\ past2[0] = LoadedModel(prog, pre) /\ past2[n + 1] = r2
        /\ todo2[0] = r2.commits /\ todo2[n + 1] = <<>>
        /\ past2[n] = r /\ todo2[n] = <<>> \o c /\ r.imem = LoadedImem(prog)
    <2>1. 0 \in 0 .. n /\ n \in 0 .. n
      BY <1>1
    <2>2. past2[0] = past[0] /\ todo2[0] = todo[0] \o c /\ past2[n] = past[n] /\ todo2[n] = todo[n] \o c
      BY <1>4, <2>1
    <2>3. past[n].imem = LoadedImem(prog)
      BY <1>2, <2>1
    <2>4. QED
      BY <1>1, <1>2, <1>4, <2>2, <2>3, Zenon
  <1>7. ASSUME NEW k \in 0 .. n + 1
        PROVE  /\ past2[k].imem = LoadedImem(prog)
               /\ todo2[k] = <<>> => past2[k].regs = r2.regs /\ past2[k].dmem = r2.dmem
               /\ k < n + 1 => /\ ~OutOfMemory(past2[k].pc)
                               /\ past2[k + 1] = Stepped(past2[k])
                               /\ todo2[k] = StepOf(past2[k]).commits \o todo2[k + 1]
    <2>1. CASE k = n + 1
      <3>1. past2[k] = r2 /\ ~(k < n + 1)
        BY <1>1, <1>4, <2>1
      <3>2. QED
        BY <1>1, <1>6, <3>1
    <2>2. CASE k = n
      <3>1. past2[k] = r /\ past2[k + 1] = r2 /\ todo2[k + 1] = <<>> /\ todo2[k] = <<>> \o c
        BY <1>6, <2>2
      <3>2. todo2[k] = c /\ c \o <<>> = c
        BY <1>1, <3>1, ConcatEmptySeq
      <3>3. QED
        BY <1>1, <1>3, <1>6, <3>1, <3>2
    <2>3. CASE k < n
      <3> DEFINE e == StepOf(past[k]).commits
      <3>1. /\ k \in 0 .. n /\ k + 1 \in 0 .. n
            /\ past2[k] = past[k] /\ todo2[k] = todo[k] \o c
            /\ past2[k + 1] = past[k + 1] /\ todo2[k + 1] = todo[k + 1] \o c
        BY <1>1, <1>4, <2>3
      <3>2. /\ past[k].imem = LoadedImem(prog) /\ ~OutOfMemory(past[k].pc)
            /\ past[k + 1] = Stepped(past[k]) /\ todo[k] = e \o todo[k + 1]
            /\ todo[k] = <<>> => past[k].regs = r.regs /\ past[k].dmem = r.dmem
            /\ past[k] \in RefState /\ todo[k] \in Seq(CommitRecord) /\ todo[k + 1] \in Seq(CommitRecord)
        BY <1>2, <2>3, <3>1
      <3>3. e \in Seq(CommitRecord)
        BY <3>2, SteppedType
      <3> HIDE DEF e
      <3>4. todo2[k] = e \o todo2[k + 1]
        <4>1. ASSUME NEW u \in Seq(CommitRecord) PROVE (e \o u) \o c = e \o (u \o c)
          BY <1>1, <3>3, ConcatAssociative
        <4>2. QED
          BY <3>1, <3>2, <4>1
      <3>5. todo2[k] = <<>> => past2[k].regs = r2.regs /\ past2[k].dmem = r2.dmem
        <4> SUFFICES ASSUME todo2[k] = <<>>
                     PROVE  past2[k].regs = r2.regs /\ past2[k].dmem = r2.dmem
          OBVIOUS
        <4>1. todo[k] = <<>> /\ c = <<>>
          BY <1>1, <3>1, <3>2, ConcatProperties
        <4>2. QED
          BY <1>1, <3>1, <3>2, <4>1
      <3>6. QED
        BY <3>1, <3>2, <3>4, <3>5 DEF e
    <2>4. k = n + 1 \/ k = n \/ k < n
      BY <1>1
    <2>5. QED
      BY <2>1, <2>2, <2>3, <2>4, Zenon
  <1>8. Trace(past2, todo2, prog, pre, r2)
    BY <1>1, <1>5, <1>6, <1>7, Zenon DEF Trace
  <1>9. QED
    BY <1>3, <1>8

-----------------------------------------------------------------------------
(* The scoreboard is handed the commits it waits for                       *)

\* A commit equal to the front of the queue is matched and costs no error.
LEMMA PopFront ==
    ASSUME NEW S, NEW b, Counters(b, S), b.errors = 0, NEW c \in S, NEW q \in Seq(S),
           b.expected = <<c>> \o q
    PROVE  /\ Counters(Compare(b, c), S) /\ Compare(b, c).errors = 0
           /\ Compare(b, c).expected = q
  <1>1. <<c>> \o q # <<>> /\ Head(<<c>> \o q) = c /\ Tail(<<c>> \o q) = q
    <2>1. <<c>> \in Seq(S) /\ Len(<<c>>) = 1 /\ <<c>>[1] = c
      OBVIOUS
    <2>2. /\ <<c>> \o q \in Seq(S) /\ Len(<<c>> \o q) = 1 + Len(q) /\ Len(q) \in Nat
          /\ \A i \in 1 .. 1 + Len(q) : (<<c>> \o q)[i] = IF i <= 1 THEN <<c>>[i] ELSE q[i - 1]
      BY <2>1, ConcatProperties
    <2> DEFINE t == <<c>> \o q
    <2>3. t \in Seq(S) /\ Len(t) = 1 + Len(q) /\ t[1] = c /\ \A i \in 1 .. Len(q) : t[i + 1] = q[i]
      BY <2>1, <2>2
    <2> HIDE DEF t
    <2>4. t # <<>> /\ Head(t) = c
      BY <2>2, <2>3
    <2>5. /\ Tail(t) \in Seq(S) /\ Len(Tail(t)) = Len(q)
          /\ \A i \in 1 .. Len(q) : Tail(t)[i] = t[i + 1]
      BY <2>2, <2>3, <2>4, HeadTailProperties
    <2>6. Tail(t) = q
      BY <2>2, <2>3, <2>5, SeqEqual
    <2>7. QED
      BY <2>4, <2>6 DEF t
  <1>2. /\ Compare(b, c).errors = 0 <=> b.errors = 0 /\ b.expected # <<>> /\ c = Head(b.expected)
        /\ Compare(b, c).errors = 0 => Compare(b, c).expected = Tail(b.expected)
    BY CompareClean
  <1>3. QED
    BY <1>1, <1>2, CompareType

\* The monitor reports none, one or two commits at an edge.
LEMMA ShortSequences ==
    ASSUME NEW S, NEW r \in Seq(S), Len(r) <= 2
    PROVE  \/ r = <<>>
           \/ Len(r) = 1 /\ r[1] \in S /\ r = <<r[1]>>
           \/ Len(r) = 2 /\ r[1] \in S /\ r[2] \in S /\ r = <<r[1]>> \o <<r[2]>>
  <1>1. Len(r) \in Nat
    OBVIOUS
  <1>2. \A n \in Nat : n <= 2 => n = 0 \/ n = 1 \/ n = 2
    OBVIOUS
  <1>3. CASE Len(r) = 0
    BY <1>3
  <1>4. CASE Len(r) = 1
    <2>1. r[1] \in S
      BY <1>4
    <2>2. r = <<r[1]>>
      <3> DEFINE s == <<r[1]>>
      <3>1. s \in Seq(S) /\ Len(s) = 1 /\ s[1] = r[1]
        BY <2>1
      <3> HIDE DEF s
      <3>2. r = s
        BY <1>4, <3>1, SeqEqual
      <3>3. QED
        BY <3>2 DEF s
    <2>3. QED
      BY <1>4, <2>1, <2>2
  <1>5. CASE Len(r) = 2
    <2>1. r[1] \in S /\ r[2] \in S
      BY <1>5
    <2>2. r = <<r[1]>> \o <<r[2]>>
      <3> DEFINE s == <<r[1]>> \o <<r[2]>>
      <3>1. s \in Seq(S) /\ Len(s) = 2 /\ s[1] = r[1] /\ s[2] = r[2]
        BY <2>1
      <3> HIDE DEF s
      <3>2. r = s
        BY <1>5, <3>1, SeqEqual
      <3>3. QED
        BY <3>2 DEF s
    <2>3. QED
      BY <1>5, <2>1, <2>2
  <1>6. QED
    BY <1>1, <1>2, <1>3, <1>4, <1>5, Zenon

\* A tick that reports the next entries of the queue costs no error and takes them off.
LEMMA CleanHandOver ==
    ASSUME NEW S, NEW b, Counters(b, S), b.errors = 0,
           NEW r \in Seq(S), Len(r) <= 2, NEW q \in Seq(S), b.expected = r \o q
    PROVE  LET b2 == HandOver(HandOver(b, r, 1), r, 2)
           IN  Counters(b2, S) /\ b2.errors = 0 /\ b2.expected = q
  <1> DEFINE b2 == HandOver(HandOver(b, r, 1), r, 2)
  <1> SUFFICES Counters(b2, S) /\ b2.errors = 0 /\ b2.expected = q
    OBVIOUS
  <1>1. CASE r = <<>>
    <2>1. r \o q = q
      BY <1>1, ConcatEmptySeq
    <2>2. b2 = b
      BY <1>1 DEF HandOver
    <2> HIDE DEF b2
    <2>3. QED
      BY <2>1, <2>2
  <1>2. CASE Len(r) = 1 /\ r[1] \in S /\ r = <<r[1]>>
    <2> DEFINE c == r[1]
    <2>1. b2 = Compare(b, c)
      BY <1>2 DEF HandOver
    <2>2. b.expected = <<c>> \o q /\ c \in S
      BY <1>2
    <2> HIDE DEF b2, c
    <2>3. QED
      BY <2>1, <2>2, PopFront
  <1>3. CASE Len(r) = 2 /\ r[1] \in S /\ r[2] \in S /\ r = <<r[1]>> \o <<r[2]>>
    <2> DEFINE c == r[1]
               d == r[2]
               q1 == <<d>> \o q
               b1 == Compare(b, c)
    <2>1. b2 = Compare(b1, d)
      BY <1>3 DEF HandOver
    <2>2. b.expected = (<<c>> \o <<d>>) \o q /\ c \in S /\ d \in S
      BY <1>3
    <2> HIDE DEF b2, c, d
    <2>3. <<c>> \in Seq(S) /\ <<d>> \in Seq(S) /\ q1 \in Seq(S)
      BY <2>2, ConcatProperties
    <2>4. b.expected = <<c>> \o q1
      BY <2>2, <2>3, ConcatAssociative
    <2> HIDE DEF q1
    <2>5. Counters(b1, S) /\ b1.errors = 0 /\ b1.expected = q1
      BY <2>2, <2>3, <2>4, PopFront
    <2> HIDE DEF b1
    <2>6. Counters(b1, S) /\ b1.errors = 0 /\ b1.expected = <<d>> \o q
      BY <2>5 DEF q1
    <2>7. Counters(Compare(b1, d), S) /\ Compare(b1, d).errors = 0 /\ Compare(b1, d).expected = q
      BY <2>2, <2>6, PopFront
    <2>8. QED
      BY <2>1, <2>7
  <1>4. QED
    BY <1>1, <1>2, <1>3, ShortSequences

\* Handing an edge's commits to the scoreboard keeps its counters typed.
LEMMA HandOverType ==
    ASSUME NEW S, NEW b, Counters(b, S), NEW r
    PROVE  Counters(HandOver(HandOver(b, r, 1), r, 2), S)
  <1>1. \A k : Counters(HandOver(b, r, k), S)
    BY CompareType DEF HandOver
  <1>2. QED
    BY <1>1, CompareType DEF HandOver

\* The monitor reports at most a register write and a store in one tick.
LEMMA ReportLength == ASSUME StateTypeOK PROVE Len(AboutToCommit) <= 2
  BY DEF AboutToCommit

-----------------------------------------------------------------------------
(* One clock                                                               *)

InFlightTyped == InFlight \in Seq(CommitRecord)

\* The commits in flight of one state
LEMMA InFlightType == StateTypeOK => InFlightTyped
  <1> SUFFICES ASSUME StateTypeOK PROVE InFlightTyped
    OBVIOUS
  <1>1. InFlight = AboutToCommit \o RegCommits
    BY DEF InFlight, RegCommits
  <1>2. QED
    BY <1>1, ReportType, CommitsType, ConcatProperties DEF CommitsTyped, InFlightTyped

\* and of the next.
LEMMA InFlightTypeNext == StateTypeOK' => InFlightTyped'
  BY InFlightType, PTL

\* A clock moves the pipeline from step n to step m of the run, and adds the commits
\* in between to those in flight.
MovesTo(past, todo, n, m, added) ==
    /\ IF vEX /\ n < ref.steps THEN m = n + 1 ELSE m = n /\ added = <<>>
    /\ StandsAt(past, m)'
    /\ reported' \o InFlight' = InFlight \o added
    /\ todo[n] = added \o todo[m]

\* Where the pipeline stands at step n of the run, a clock takes it to step n or n + 1,
\* with that step's commits behind those in flight.
LEMMA ClockFollowsRun ==
    ASSUME RefinementInv, StateTypeOK', Edge, ref \in RefState,
           NEW past, NEW todo, Trace(past, todo, program, preload, ref),
           instr_mem = LoadedImem(program),
           NEW n \in 0 .. ref.steps, n = ref.steps => Halted(ref),
           StandsAt(past, n)
    PROVE  \E m \in 0 .. ref.steps, added \in Seq(CommitRecord) :
               MovesTo(past, todo, n, m, added)
  <1> USE DEF StandsAt, MovesTo
  <1>1. /\ past[n] \in RefState /\ todo[n] \in Seq(CommitRecord) /\ ref.steps \in Nat
        /\ past[n].imem = instr_mem
        /\ n < ref.steps => /\ ~OutOfMemory(past[n].pc)
                            /\ past[n + 1] = Stepped(past[n])
                            /\ todo[n] = StepOf(past[n]).commits \o todo[n + 1]
        /\ past[ref.steps] = ref /\ todo[ref.steps] = <<>>
    BY DEF Trace, RefState
  <1>2. ExecuteOne(ArchPc, ArchRegs, ArchDmem, instr_mem[ArchPc \div 4]) = StepOf(past[n])
    BY <1>1 DEF StepOf
  <1> DEFINE e == StepOf(past[n])
  <1>3. CASE ~vEX
    <2>1. Order!Wait
      BY <1>3, RefineWait
    <2>2. /\ ArchPc' = ArchPc /\ ArchRegs' = ArchRegs /\ ArchDmem' = ArchDmem
          /\ reported' \o InFlight' = InFlight
      BY <2>1 DEF Order!Wait
    <2>3. InFlight \o <<>> = InFlight /\ todo[n] = <<>> \o todo[n] /\ <<>> \in Seq(CommitRecord)
      BY <1>1, InFlightType, ConcatEmptySeq, EmptyReport DEF RefinementInv, InFlightTyped
    <2>4. QED
      BY <1>3, <2>2, <2>3
  <1>4. ASSUME vEX, ~OutOfMemory(ArchPc)
        PROVE  /\ ArchPc' = e.pc /\ ArchRegs' = e.regs /\ ArchDmem' = e.dmem
               /\ reported' \o InFlight' = InFlight \o e.commits
    <2>1. Order!Execute
      BY <1>4, RefineExecute
    <2>2. QED
      BY <1>2, <2>1 DEF Order!Execute
  <1>5. CASE vEX /\ n < ref.steps
    <2>1. /\ ArchPc' = past[n + 1].pc /\ ArchRegs' = past[n + 1].regs
          /\ ArchDmem' = past[n + 1].dmem
          /\ reported' \o InFlight' = InFlight \o e.commits
          /\ e.commits \in Seq(CommitRecord)
      BY <1>1, <1>4, <1>5, SteppedType
    <2>2. todo[n] = e.commits \o todo[n + 1]
      BY <1>1, <1>5, Zenon
    <2>3. n + 1 \in 0 .. ref.steps
      BY <1>1, <1>5
    <2> HIDE DEF e
    <2>4. QED
      BY <1>5, <2>1, <2>2, <2>3
  <1>6. CASE vEX /\ n = ref.steps
    <2>1. ~OutOfMemory(ArchPc) /\ instr_mem[ArchPc \div 4] = HALT
      BY <1>1, <1>6 DEF Halted
    <2>2. e = [pc |-> ArchPc, regs |-> ArchRegs, dmem |-> ArchDmem, commits |-> <<>>]
      BY <1>2, <2>1, HaltStays, MemResultType DEF RefinementInv
    <2> HIDE DEF e
    <2>3. /\ ArchPc' = past[n].pc /\ ArchRegs' = past[n].regs /\ ArchDmem' = past[n].dmem
          /\ reported' \o InFlight' = InFlight \o <<>>
      BY <1>4, <1>6, <2>1, <2>2
    <2>4. todo[n] = <<>> \o todo[n] /\ <<>> \in Seq(CommitRecord) /\ ~(n < ref.steps)
      BY <1>1, <1>6, ConcatEmptySeq, EmptyReport
    <2>5. QED
      BY <2>3, <2>4
  <1>7. n < ref.steps \/ n = ref.steps
    BY <1>1
  <1>8. QED
    BY <1>3, <1>5, <1>6, <1>7

\* A clock brings the last commits one stage on and adds none behind them.
LEMMA LastCommits ==
    ASSUME RefinementInv, StateTypeOK', Edge, reported' \o InFlight' = InFlight
    PROVE  RegCommits' = <<>> /\ InFlight' = RegCommits
  <1> DEFINE s == InFlight
             c == MemCommits'
             d == RegCommits'
  <1>1. s \in Seq(CommitRecord) /\ c \in Seq(CommitRecord) /\ d \in Seq(CommitRecord)
    BY InFlightType, CommitsTypeNext DEF RefinementInv, InFlightTyped, CommitsTyped
  <1>2. s = s \o (c \o d)
    BY CommitsMoveOn DEF RefinementInv
  <1>3. InFlight' = (RegCommits \o c) \o d
    <2>1. mem_wb' = ToWb /\ wb_write_data' = MemResult
      BY ClockBlocks, RegistersMoveOn DEF MemWbReg, RefinementInv
    <2>2. AboutToCommit' = RegCommits \o MemCommits'
      BY <2>1 DEF AboutToCommit, RegCommits, MemCommits, ToWb
    <2>3. QED
      BY <2>2 DEF InFlight, RegCommits
  <1>4. RegCommits \in Seq(CommitRecord)
    BY CommitsType DEF RefinementInv, CommitsTyped
  <1>5. d = RegCommits'
    OBVIOUS
  <1> HIDE DEF s, c, d
  <1>6. c = <<>> /\ d = <<>>
    <2>1. Len(s) = Len(s) + (Len(c) + Len(d)) /\ Len(s) \in Nat /\ Len(c) \in Nat /\ Len(d) \in Nat
      BY <1>1, <1>2, ConcatProperties
    <2>2. Len(c) = 0 /\ Len(d) = 0
      BY <2>1
    <2>3. QED
      BY <1>1, <2>2, EmptySeq
  <1>7. QED
    BY <1>3, <1>4, <1>5, <1>6, ConcatEmptySeq

\* No clock is lost but to a redirect, a load in front of its use and the refill.
LEMMA TickTimely ==
    ASSUME RefinementInv, StateTypeOK', Edge, cycle_' = cycle_ + 1, ref' = ref, ref.steps \in Nat,
           NEW n \in 0 .. ref.steps, NEW m \in 0 .. ref.steps, NEW added, Timely(n),
           IF vEX /\ n < ref.steps THEN m = n + 1 ELSE m = n /\ added = <<>>,
           reported' \o InFlight' = InFlight \o added
    PROVE  Timely(m)'
  <1>1. cycle_ \in Nat /\ vEX \in BOOLEAN /\ vID \in BOOLEAN /\ n \in Nat
    BY DEF RefinementInv, StateTypeOK
  <1>2. CASE vEX /\ n < ref.steps
    <2>1. cycle_' <= 3 * m /\ m = n + 1
      BY <1>1, <1>2 DEF Timely
    <2>2. QED
      BY <1>1, <2>1 DEF Timely
  <1>3. CASE ~vEX /\ n < ref.steps
    <2>1. ~flush_if_id /\ ~flush_id_ex /\ ~load_use_hazard
      BY <1>3, BubbleIsQuiet DEF RefinementInv, flush_if_id, flush_id_ex, load_use_hazard, LoadUseHazard
    <2>2. vID' = TRUE /\ vEX' = vID
      BY <1>1, <2>1 DEF Edge, Advance, if_id_write_enable, insert_bubble
    <2>3. m = n /\ cycle_ <= 3 * n + (IF vID THEN 1 ELSE 0)
      BY <1>3 DEF Timely
    <2>4. cycle_' <= 3 * m + (IF vID THEN 2 ELSE 1)
      BY <1>1, <2>3
    <2>5. QED
      BY <1>3, <2>2, <2>3, <2>4 DEF Timely
  <1>4. CASE n = ref.steps
    <2>1. m = n /\ added = <<>>
      BY <1>1, <1>4
    <2>2. reported' \o InFlight' = InFlight
      BY <2>1, InFlightType, ConcatEmptySeq DEF RefinementInv, InFlightTyped
    <2>3. RegCommits' = <<>> /\ InFlight' = RegCommits
      BY <2>2, LastCommits
    <2>4. RegCommits # <<>> => cycle_' <= 3 * m + 1
      BY <1>1, <1>4, <2>1 DEF Timely
    <2>5. QED
      BY <1>1, <1>4, <2>1, <2>3, <2>4 DEF Timely
  <1>5. QED
    BY <1>1, <1>2, <1>3, <1>4

\* A tick of the testbench: what the monitor reports is what the scoreboard expects
\* next, and the pipeline goes on following the reference model.
LEMMA TickFollows ==
    ASSUME RefinementInv, StateTypeOK', Edge, BenchTypeOK, Observe, UNCHANGED <<ref, program, preload>>,
           phase' = "run" => phase = "run",
           NEW past, NEW todo, Trace(past, todo, program, preload, ref),
           instr_mem = LoadedImem(program), cycle_' = cycle_ + 1,
           NEW n \in 0 .. ref.steps, n = ref.steps => Halted(ref),
           Follows(past, todo, n)
    PROVE  \E m \in 0 .. ref.steps : Follows(past, todo, m)'
  <1>0. PICK m \in 0 .. ref.steps, added \in Seq(CommitRecord) : MovesTo(past, todo, n, m, added)
    <2>1. ref \in RefState /\ StandsAt(past, n)
      BY DEF BenchTypeOK, Follows
    <2>2. QED
      BY <2>1, ClockFollowsRun, Zenon
  <1>1. /\ IF vEX /\ n < ref.steps THEN m = n + 1 ELSE m = n /\ added = <<>>
        /\ StandsAt(past, m)'
        /\ reported' \o InFlight' = InFlight \o added
        /\ todo[n] = added \o todo[m]
    BY <1>0 DEF MovesTo
  <1>2. /\ reported' \in Seq(CommitRecord) /\ Len(reported') <= 2 /\ Len(reported') \in Nat
    BY ClockBlocks, ReportType, ReportLength DEF RefinementInv
  <1>3. /\ InFlight \in Seq(CommitRecord) /\ InFlight' \in Seq(CommitRecord)
        /\ todo[m] \in Seq(CommitRecord)
    BY InFlightType, InFlightTypeNext DEF InFlightTyped, RefinementInv, Trace
  <1> DEFINE rest == InFlight' \o todo[m]
  <1>4. sb.expected = reported' \o rest
    <2>1. sb.expected = InFlight \o (added \o todo[m])
      BY <1>1 DEF Follows
    <2>0. ASSUME NEW a \in Seq(CommitRecord), NEW b \in Seq(CommitRecord),
                 NEW c \in Seq(CommitRecord)
          PROVE  (a \o b) \o c = a \o (b \o c)
      BY ConcatAssociative
    <2>2. InFlight \o (added \o todo[m]) = (InFlight \o added) \o todo[m]
      BY <1>3, <2>0, Zenon
    <2>3. (reported' \o InFlight') \o todo[m] = reported' \o (InFlight' \o todo[m])
      BY <1>2, <1>3, <2>0, Zenon
    <2>4. QED
      BY <1>1, <2>1, <2>2, <2>3
  <1>5. rest \in Seq(CommitRecord) /\ Len(rest) \in Nat
    BY <1>3, ConcatProperties
  <1>6. Len(sb.expected) = Len(reported') + Len(rest)
    BY <1>2, <1>4, <1>5, ConcatProperties
  <1>7. rest = InFlight' \o todo[m]
    OBVIOUS
  <1> HIDE DEF rest
  <1>8. sb'.errors = 0 /\ sb'.expected = rest
    <2>1. sb' = HandOver(HandOver(sb, reported', 1), reported', 2)
      BY DEF Observe
    <2>2. Counters(sb, CommitRecord) /\ sb.errors = 0
      BY DEF BenchTypeOK, Follows
    <2>3. QED
      BY <1>2, <1>4, <1>5, <2>1, <2>2, CleanHandOver
  <1>9. seq_commits' + Len(sb'.expected) = Len(ref'.commits)
    <2>1. seq_commits + Len(sb.expected) = Len(ref.commits) /\ seq_commits \in Nat
      BY DEF Follows, BenchTypeOK, TypeOK
    <2>2. seq_commits' = seq_commits + Len(reported')
      BY DEF Observe
    <2>3. QED
      BY <1>2, <1>5, <1>6, <1>8, <2>1, <2>2
  <1>10. m <= cycle_'
    BY <1>1 DEF Follows, BenchTypeOK, RefState, RefinementInv, StateTypeOK
  <1>11. phase' = "run" => Timely(m)'
    BY <1>1, TickTimely DEF Follows, BenchTypeOK, RefState
  <1>12. QED
    BY <1>1, <1>7, <1>8, <1>9, <1>10, <1>11 DEF Follows

-----------------------------------------------------------------------------
(* What a step of the testbench does to the pipeline                       *)

\* Every statement of the bench is a call of the driver or leaves the pipeline alone.
LEMMA BenchIsStateNext == [Next]_vars => [StateNext]_state_vars
  BY AdvanceIsEdge
     DEF Next, StartSequence, RunReference, Prepare, HoldReset, EndReset, RunTick, OutOfBudget,
         DrainTick, Drained, CheckCounts, StateNext, vars

\* What leaves the pipeline alone leaves the abstract state alone;
LEMMA SameArchState ==
    ASSUME UNCHANGED state_vars
    PROVE  /\ ArchPc' = ArchPc /\ ArchRegs' = ArchRegs /\ ArchDmem' = ArchDmem
           /\ InFlight' = InFlight /\ RegCommits' = RegCommits /\ vID' = vID /\ vEX' = vEX
           /\ cycle_' = cycle_ /\ instr_mem' = instr_mem /\ rst' = rst
  BY DEF state_vars, dut_vars, driver_vars, stages, ArchPc, ArchRegs, AfterWb, MemResult,
         mem_dmem_rdata, wb_write_data, ArchDmem, InFlight, AboutToCommit, RegCommits

\* load_program and reset put it at the start of the program;
LEMMA RestartState ==
    ASSUME Restart
    PROVE  /\ ArchPc' = 0 /\ ArchRegs' = RegsReset /\ ArchDmem' = data_mem' /\ InFlight' = <<>>
           /\ rst'
  <1>1. /\ pc' = 0 /\ regs' = RegsReset /\ ex_mem' = ExMemReset /\ mem_wb' = MemWbReset
        /\ ~vID' /\ ~vEX' /\ rst'
    BY DEF Restart, LoadAndReset, RstRise, Registers, PcReg, ExMemReg, MemWbReg, RegFile
  <1>2. InFlight' = <<>> /\ ArchRegs' = regs' /\ ArchDmem' = data_mem'
    BY <1>1 DEF InFlight, AboutToCommit, ArchRegs, AfterWb, ArchDmem, MemWbReset, ExMemReset
  <1>3. ArchPc' = pc'
    BY <1>1 DEF ArchPc
  <1>4. QED
    BY <1>1, <1>2, <1>3

\* the reset clocks and the release change nothing of it;
LEMMA ResetState ==
    ASSUME RefinementInv, StateTypeOK', KeepReset \/ LeaveReset
    PROVE  /\ ArchPc' = ArchPc /\ ArchRegs' = ArchRegs /\ ArchDmem' = ArchDmem
           /\ InFlight' = InFlight /\ instr_mem' = instr_mem /\ cycle_' \in Nat
           /\ KeepReset => rst'
           /\ LeaveReset => ~rst' /\ cycle_' = 0
  <1>1. Order!Wait
    BY RefineReset
  <1>2. reported' = <<>>
    BY DEF RefinementInv, HeldInReset, KeepReset, LeaveReset, ResetClock, ReleaseReset, driver_vars
  <1>3. InFlight' \in Seq(CommitRecord) /\ cycle_' \in Nat
    BY InFlightTypeNext DEF InFlightTyped, StateTypeOK
  <1>4. reported' \o InFlight' = InFlight'
    BY <1>2, <1>3, ConcatEmptySeq
  <1>5. KeepReset => rst'
    BY DEF KeepReset, ResetClock, Posedge
  <1>6. LeaveReset => ~rst' /\ cycle_' = 0
    BY DEF LeaveReset, ReleaseReset, RstFall
  <1>7. QED
    BY <1>1, <1>3, <1>4, <1>5, <1>6 DEF Order!Wait

\* a tick is an edge, within the limit the caller gave.
LEMMA EdgeState ==
    ASSUME RefinementInv, NEW m, Advance(m)
    PROVE  Edge /\ instr_mem' = instr_mem /\ ~rst' /\ cycle_' = cycle_ + 1 /\ ~LimitReached(m)
  BY AdvanceIsEdge, ClockBlocks DEF RefinementInv, Advance, Tick

-----------------------------------------------------------------------------
(* The invariant, part by part                                             *)

\* What BudgetAssumption says of one program.
LEMMA BudgetIsPositive ==
    ASSUME NEW prog \in PROGRAMS
    PROVE  LET b == Len(prog) * CYCLES_PER_WORD + EXTRA_CYCLES
           IN  b \in Nat /\ b > 0 /\ b + DRAIN_CLOCKS <= MAX_INSTRS /\ DRAIN_CLOCKS \in Nat
  <1> DEFINE p == Len(prog) * CYCLES_PER_WORD
  <1>1. Len(prog) \in Nat
    BY ProgramAssumption
  <1>2. /\ CYCLES_PER_WORD \in Nat /\ EXTRA_CYCLES \in Nat /\ EXTRA_CYCLES > 0
        /\ DRAIN_CLOCKS \in Nat /\ p + EXTRA_CYCLES + DRAIN_CLOCKS <= MAX_INSTRS
    BY BudgetAssumption
  <1>3. \A a, b \in Nat : a * b \in Nat
    OBVIOUS
  <1>4. p \in Nat
    BY <1>1, <1>2, <1>3
  <1> HIDE DEF p
  <1>5. QED
    BY <1>2, <1>4 DEF p

\* No sequence gets more clocks than its budget and the drain.
LEMMA BudgetStep ==
    ASSUME BenchInv, StateTypeOK', [Next]_vars
    PROVE  WithinBudget'
  <1> USE DEF WithinBudget
  <1>1. WithinBudget /\ RefinementInv /\ cycle_ \in Nat /\ left \in Nat
    BY DEF BenchInv, BenchTypeOK, TypeOK, RefinementInv, StateTypeOK
  <1>2. CASE StartSequence
    BY <1>1, <1>2 DEF StartSequence
  <1>3. CASE RunReference
    BY <1>1, <1>3 DEF RunReference
  <1>4. CASE Prepare
    BY <1>1, <1>4 DEF Prepare, RefDone, Halted
  <1>5. CASE HoldReset
    <2>1. instr_mem' = instr_mem
      BY <1>1, <1>5, ResetState DEF HoldReset
    <2>2. QED
      BY <1>1, <1>5, <2>1 DEF HoldReset, RefDone, Halted
  <1>6. CASE EndReset
    <2>1. instr_mem' = instr_mem /\ cycle_' = 0
      BY <1>1, <1>6, ResetState DEF EndReset
    <2>2. max_cycles \in Nat
      BY <1>1, <1>6, BudgetIsPositive DEF EndReset, max_cycles
    <2>3. RefDone' /\ max_cycles' = max_cycles
      BY <1>1, <1>6 DEF EndReset, RefDone, Halted, max_cycles
    <2>4. QED
      BY <1>1, <1>6, <2>1, <2>2, <2>3 DEF EndReset
  <1>7. CASE RunTick
    <2>1. instr_mem' = instr_mem /\ cycle_' = cycle_ + 1 /\ ~LimitReached(max_cycles)
      BY <1>1, <1>7, EdgeState DEF RunTick
    <2>2. max_cycles \in Nat /\ max_cycles > 0 /\ DRAIN_CLOCKS \in Nat
      BY <1>1, <1>7, BudgetIsPositive DEF RunTick, max_cycles
    <2>3. RefDone' /\ max_cycles' = max_cycles
      BY <1>1, <1>7 DEF RunTick, RefDone, Halted, max_cycles
    <2> HIDE DEF max_cycles
    <2>4. cycle_' <= max_cycles' /\ cycle_' + DRAIN_CLOCKS <= max_cycles' + DRAIN_CLOCKS
      BY <1>1, <2>1, <2>2, <2>3 DEF LimitReached
    <2>5. \/ phase' = "drain" /\ left' = DRAIN_CLOCKS
          \/ phase' = "run"
      BY <1>7 DEF RunTick
    <2>6. QED
      BY <1>1, <1>7, <2>1, <2>3, <2>4, <2>5 DEF RunTick
  <1>8. CASE OutOfBudget \/ Drained
    BY <1>1, <1>8, SameArchState DEF OutOfBudget, Drained, RefDone, Halted
  <1>9. CASE DrainTick
    <2>1. instr_mem' = instr_mem /\ cycle_' = cycle_ + 1
      BY <1>1, <1>9, EdgeState DEF DrainTick
    <2>2. max_cycles \in Nat /\ DRAIN_CLOCKS \in Nat
      BY <1>1, <1>9, BudgetIsPositive DEF DrainTick, max_cycles
    <2>3. RefDone' /\ max_cycles' = max_cycles
      BY <1>1, <1>9 DEF DrainTick, RefDone, Halted, max_cycles
    <2> HIDE DEF max_cycles
    <2>4. cycle_' + left' <= max_cycles' + DRAIN_CLOCKS
      BY <1>1, <1>9, <2>1, <2>2, <2>3 DEF DrainTick
    <2>5. QED
      BY <1>1, <1>9, <2>1, <2>3, <2>4 DEF DrainTick
  <1>10. CASE CheckCounts
    BY <1>1, <1>10 DEF CheckCounts
  <1>11. CASE UNCHANGED vars
    BY <1>1, <1>11, SameArchState DEF vars, env_vars, RefDone, Halted, max_cycles
  <1>12. QED
    BY <1>2, <1>3, <1>4, <1>5, <1>6, <1>7, <1>8, <1>9, <1>10, <1>11 DEF Next

\* Between sequences the scoreboard is clean, unless the program ran off the end of memory.
LEMMA IdleStep ==
    ASSUME BenchInv, [Next]_vars
    PROVE  IdleIsClean'
  <1>1. CASE CheckCounts
    <2>1. ~OutOfMemory(ref.pc) => sb.errors = 0
      BY <1>1 DEF BenchInv, FollowsReference, Follows, CheckCounts
    <2>2. ref' = ref /\ sb' = sb
      BY <1>1 DEF CheckCounts
    <2>3. QED
      BY <2>1, <2>2 DEF IdleIsClean
  <1>2. CASE UNCHANGED vars
    BY <1>2 DEF BenchInv, IdleIsClean, vars, env_vars
  <1>3. CASE Next /\ ~CheckCounts
    <2>1. phase' # "idle"
      BY <1>3 DEF Next, StartSequence, RunReference, Prepare, HoldReset, EndReset, RunTick,
                  OutOfBudget, DrainTick, Drained
    <2>2. QED
      BY <2>1 DEF IdleIsClean
  <1>4. QED
    BY <1>1, <1>2, <1>3

\* At the start of a sequence the pipeline stands where the reference model stood.
LEMMA PrepareFollows ==
    ASSUME BenchInv, StateTypeOK', Prepare, NEW past, NEW todo,
           Trace(past, todo, program, preload, ref)
    PROVE  Follows(past, todo, 0)'
  <1>1. /\ past[0] = LoadedModel(program, preload) /\ todo[0] = ref.commits
        /\ ref.commits \in Seq(CommitRecord) /\ Len(ref.commits) \in Nat
    BY DEF Trace, BenchInv, BenchTypeOK, RefState
  <1>2. /\ ArchPc' = 0 /\ ArchRegs' = RegsReset /\ ArchDmem' = LoadedDmem(preload)
        /\ InFlight' = <<>>
    BY RestartState DEF Prepare
  <1>3. StandsAt(past, 0)'
    BY <1>1, <1>2 DEF StandsAt, LoadedModel, RegsReset
  <1>4. sb'.expected = ref.commits /\ sb'.errors = 0 /\ seq_commits' = 0 /\ ref' = ref
    BY DEF Prepare, LoadExpected
  <1>5. sb'.expected = InFlight' \o todo[0]
    BY <1>1, <1>2, <1>4, ConcatEmptySeq
  <1>6. 0 <= cycle_'
    BY DEF StateTypeOK
  <1>7. seq_commits' + Len(sb'.expected) = Len(ref'.commits)
    BY <1>1, <1>4
  <1>8. phase' = "reset"
    BY DEF Prepare
  <1>9. QED
    BY <1>3, <1>4, <1>5, <1>6, <1>7, <1>8 DEF Follows

\* The reset clocks change nothing the reference model can see.
LEMMA ResetFollows ==
    ASSUME BenchInv, StateTypeOK', HoldReset \/ EndReset, NEW past, NEW todo,
           Follows(past, todo, 0)
    PROVE  Follows(past, todo, 0)'
  <1>1. /\ ArchPc' = ArchPc /\ ArchRegs' = ArchRegs /\ ArchDmem' = ArchDmem
        /\ InFlight' = InFlight /\ cycle_' \in Nat
    BY ResetState DEF BenchInv, HoldReset, EndReset
  <1>2. sb' = sb /\ seq_commits' = seq_commits /\ ref' = ref
    BY DEF HoldReset, EndReset
  <1>3. StandsAt(past, 0)'
    BY <1>1 DEF Follows, StandsAt
  <1>4. 0 <= cycle_'
    BY <1>1
  <1>5. phase' = "run" => Timely(0)'
    <2>1. phase' = "run" => cycle_' = 0
      BY ResetState DEF BenchInv, HoldReset, EndReset
    <2>2. QED
      BY <2>1 DEF Timely
  <1>6. QED
    BY <1>1, <1>2, <1>3, <1>4, <1>5 DEF Follows

\* A clock the testbench gives comes before the reference model's limit.
LEMMA NotBeyondRun ==
    ASSUME BenchInv, RunTick \/ DrainTick, ~OutOfMemory(ref.pc),
           NEW n \in Nat, n <= cycle_, n = ref.steps
    PROVE  Halted(ref)
  <1>1. /\ program \in PROGRAMS /\ RefDone /\ cycle_ \in Nat /\ left \in Nat
        /\ phase = "run" => cycle_ <= max_cycles
        /\ phase = "drain" => cycle_ + left <= max_cycles + DRAIN_CLOCKS
    BY DEF BenchInv, WithinBudget, RunTick, DrainTick, BenchTypeOK, TypeOK, RefinementInv, StateTypeOK
  <1>2. /\ max_cycles \in Nat /\ max_cycles > 0 /\ max_cycles + DRAIN_CLOCKS <= MAX_INSTRS
        /\ DRAIN_CLOCKS \in Nat /\ MAX_INSTRS \in Nat
    BY <1>1, BudgetIsPositive, BudgetAssumption DEF max_cycles
  <1> HIDE DEF max_cycles
  <1>3. CASE RunTick
    <2>1. ~LimitReached(max_cycles)
      BY <1>3, EdgeState DEF BenchInv, RunTick
    <2>2. n < MAX_INSTRS
      BY <1>1, <1>2, <2>1 DEF LimitReached
    <2>3. QED
      BY <1>1, <1>2, <2>2 DEF RefDone
  <1>4. CASE DrainTick
    <2>1. phase = "drain" /\ left > 0
      BY <1>4 DEF DrainTick
    <2>2. n < MAX_INSTRS
      BY <1>1, <1>2, <2>1
    <2>3. QED
      BY <1>1, <1>2, <2>2 DEF RefDone
  <1>5. QED
    BY <1>3, <1>4

\* Every statement keeps the pipeline and the scoreboard on the reference model's history.
LEMMA FollowsStep ==
    ASSUME BenchInv, StateTypeOK', [Next]_vars
    PROVE  FollowsReference'
  <1>1. CASE StartSequence
    <2>1. /\ program' \in Seq(Instr) /\ \A w \in DOMAIN preload' : preload'[w] \in Word
          /\ ref' = LoadedModel(program', preload') /\ phase' = "reference"
      BY <1>1, ProgramAssumption DEF StartSequence
    <2>2. \E past, todo : Trace(past, todo, program', preload', ref')
      BY <2>1, TraceStart
    <2>3. QED
      BY <2>1, <2>2 DEF FollowsReference
  <1>2. CASE RunReference
    <2>1. /\ phase = "reference" /\ phase' = "reference" /\ ref' = Stepped(ref) /\ ~OutOfMemory(ref.pc)
          /\ program' = program /\ preload' = preload /\ ref \in RefState
      BY <1>2 DEF RunReference, RefDone, BenchInv, BenchTypeOK
    <2>2. PICK past, todo : Trace(past, todo, program, preload, ref)
      BY <2>1 DEF BenchInv, FollowsReference
    <2>3. \E past2, todo2 : Trace(past2, todo2, program', preload', ref')
      BY <2>1, <2>2, TraceExtend
    <2>4. QED
      BY <2>1, <2>3 DEF FollowsReference
  <1>3. ASSUME phase # "idle", UNCHANGED <<program, preload, ref>>,
               NEW past, NEW todo, Trace(past, todo, program, preload, ref),
               ~OutOfMemory(ref.pc) =>
                   \E n \in 0 .. ref.steps : Follows(past, todo, n)' /\ (phase' = "reset" => n = 0)
        PROVE  FollowsReference'
    BY <1>3 DEF FollowsReference
  <1>4. ASSUME phase \notin {"idle", "reference"}
        PROVE  \E past, todo :
                  /\ Trace(past, todo, program, preload, ref)
                  /\ ~OutOfMemory(ref.pc) =>
                        \E n \in 0 .. ref.steps : Follows(past, todo, n) /\ (phase = "reset" => n = 0)
    BY <1>4 DEF BenchInv, FollowsReference
  <1>5. CASE Prepare
    <2>1. phase # "idle" /\ UNCHANGED <<program, preload, ref>>
      BY <1>5 DEF Prepare
    <2>2. PICK past, todo : Trace(past, todo, program, preload, ref)
      BY <2>1 DEF BenchInv, FollowsReference
    <2>3. Follows(past, todo, 0)'
      BY <1>5, <2>2, PrepareFollows
    <2>4. 0 \in 0 .. ref.steps
      BY DEF BenchInv, BenchTypeOK, RefState
    <2>5. QED
      BY <1>3, <2>1, <2>2, <2>3, <2>4
  <1>6. CASE HoldReset \/ EndReset
    <2>1. phase = "reset" /\ UNCHANGED <<program, preload, ref>>
      BY <1>6 DEF HoldReset, EndReset
    <2>2. PICK past, todo :
                  /\ Trace(past, todo, program, preload, ref)
                  /\ ~OutOfMemory(ref.pc) =>
                        \E n \in 0 .. ref.steps : Follows(past, todo, n) /\ (phase = "reset" => n = 0)
      BY <1>4, <2>1
    <2>3. ~OutOfMemory(ref.pc) => 0 \in 0 .. ref.steps /\ Follows(past, todo, 0)'
      BY <1>6, <2>1, <2>2, ResetFollows
    <2>4. QED
      BY <1>3, <2>1, <2>2, <2>3
  <1>7. CASE RunTick \/ DrainTick
    <2>1. /\ phase \notin {"idle", "reference"} /\ phase # "idle" /\ phase' # "reset"
          /\ UNCHANGED <<program, preload, ref>> /\ Observe /\ (phase' = "run" => phase = "run")
      BY <1>7 DEF RunTick, DrainTick
    <2>2. PICK past, todo :
                  /\ Trace(past, todo, program, preload, ref)
                  /\ ~OutOfMemory(ref.pc) =>
                        \E n \in 0 .. ref.steps : Follows(past, todo, n) /\ (phase = "reset" => n = 0)
      BY <1>4, <2>1
    <2>3. ASSUME ~OutOfMemory(ref.pc)
          PROVE  \E m \in 0 .. ref.steps : Follows(past, todo, m)'
      <3>1. PICK n \in 0 .. ref.steps : Follows(past, todo, n)
        BY <2>2, <2>3
      <3>2. n \in Nat /\ n <= cycle_
        BY <3>1 DEF Follows, BenchInv, BenchTypeOK, RefState
      <3>3. n = ref.steps => Halted(ref)
        BY <1>7, <2>3, <3>2, NotBeyondRun
      <3>4. Edge /\ cycle_' = cycle_ + 1
        BY <1>7, EdgeState DEF BenchInv, RunTick, DrainTick
      <3>5. instr_mem = LoadedImem(program)
        BY <2>1 DEF BenchInv, WithinBudget
      <3>6. RefinementInv /\ BenchTypeOK
        BY DEF BenchInv
      <3>7. QED
        BY <2>1, <2>2, <3>1, <3>3, <3>4, <3>5, <3>6, TickFollows, Zenon
    <2>4. QED
      BY <1>3, <2>1, <2>2, <2>3
  <1>8. CASE OutOfBudget \/ Drained
    <2>1. /\ phase \notin {"idle", "reference"} /\ phase # "idle" /\ phase' = "check"
          /\ UNCHANGED <<program, preload, ref, sb, seq_commits>> /\ UNCHANGED state_vars
      BY <1>8 DEF OutOfBudget, Drained
    <2>2. PICK past, todo :
                  /\ Trace(past, todo, program, preload, ref)
                  /\ ~OutOfMemory(ref.pc) =>
                        \E n \in 0 .. ref.steps : Follows(past, todo, n) /\ (phase = "reset" => n = 0)
      BY <1>4, <2>1
    <2>3. ASSUME NEW n \in 0 .. ref.steps, Follows(past, todo, n)
          PROVE  Follows(past, todo, n)'
      BY <2>1, <2>3, SameArchState DEF Follows, StandsAt
    <2>4. QED
      BY <1>3, <2>1, <2>2, <2>3
  <1>9. CASE CheckCounts
    BY <1>9 DEF CheckCounts, FollowsReference
  <1>10. CASE UNCHANGED vars
    <2>1. /\ UNCHANGED <<phase, program, preload, ref, sb, seq_commits>> /\ UNCHANGED state_vars
      BY <1>10 DEF vars, env_vars
    <2>2. ASSUME NEW past, NEW todo, NEW n, Follows(past, todo, n)
          PROVE  Follows(past, todo, n)'
      BY <2>1, <2>2, SameArchState DEF Follows, StandsAt, Timely
    <2>3. FollowsReference
      BY DEF BenchInv
    <2>4. QED
      BY <2>1, <2>2, <2>3 DEF FollowsReference
  <1>11. QED
    BY <1>1, <1>2, <1>5, <1>6, <1>7, <1>8, <1>9, <1>10 DEF Next

\* The loop goes on until the commits are matched, and with clocks enough it ends no
\* other way.
LEMMA DrainStep ==
    ASSUME BenchInv, BenchTypeOK', FollowsReference', [Next]_vars
    PROVE  DrainsWhenMatched'
  <1> USE DEF DrainsWhenMatched
  <1>1. /\ cycle_ \in Nat /\ ref.steps \in Nat /\ seq_commits \in Nat
        /\ sb.expected \in Seq(CommitRecord) /\ DrainsWhenMatched
    BY DEF BenchInv, RefinementInv, StateTypeOK, BenchTypeOK, RefState, TypeOK
  <1>2. CASE StartSequence \/ RunReference \/ Prepare \/ HoldReset \/ CheckCounts
    <2>1. phase' \notin {"run", "drain", "check"}
      BY <1>2 DEF StartSequence, RunReference, Prepare, HoldReset, CheckCounts
    <2>2. QED
      BY <2>1
  <1>3. CASE EndReset
    <2>1. phase' = "run" /\ cycle_' = 0
      BY <1>3, ResetState, RefinementInvStep, BenchIsStateNext DEF BenchInv, EndReset, RefinementInv
    <2>2. QED
      BY <2>1
  <1>4. CASE RunTick
    <2>1. AllMatched(sb') => phase' = "drain"
      BY <1>4 DEF RunTick
    <2>2. phase' = "drain" => AllMatched(sb')
      BY <1>4 DEF RunTick
    <2>3. phase' \in {"run", "drain"}
      BY <1>4 DEF RunTick
    <2>4. QED
      BY <2>1, <2>2, <2>3
  <1>5. CASE DrainTick
    <2>1. /\ phase = "drain" /\ phase' = "drain" /\ ref' = ref
          /\ seq_commits' = seq_commits + Len(reported')
      BY <1>5 DEF DrainTick, Observe
    <2>2. ASSUME ~OutOfMemory(ref.pc) PROVE AllMatched(sb')
      <3>1. sb.expected = <<>>
        BY <1>1, <2>1, <2>2, Zenon DEF AllMatched
      <3>2. seq_commits + Len(sb.expected) = Len(ref.commits)
        BY <2>1, <2>2 DEF BenchInv, FollowsReference, Follows
      <3>3. seq_commits' + Len(sb'.expected) = Len(ref.commits)
        BY <2>1, <2>2 DEF FollowsReference, Follows
      <3>4. sb'.expected \in Seq(CommitRecord) /\ Len(sb'.expected) \in Nat /\ Len(reported') \in Nat
        <4>1. Edge
          BY <1>5, EdgeState DEF BenchInv, DrainTick
        <4>2. reported' \in Seq(CommitRecord)
          BY <4>1, ClockBlocks, ReportType DEF BenchInv, RefinementInv
        <4>3. sb'.expected \in Seq(CommitRecord)
          BY DEF BenchTypeOK, TypeOK
        <4>4. QED
          BY <4>2, <4>3, LenProperties
      <3>5. Len(sb'.expected) = 0
        <4>1. Len(sb.expected) = 0
          BY <3>1
        <4>2. seq_commits \in Nat /\ seq_commits' = seq_commits + Len(reported')
          BY <1>1, <2>1
        <4>3. \A a, k, x, t \in Nat : a + 0 = t /\ (a + k) + x = t => x = 0
          OBVIOUS
        <4>4. Len(ref.commits) \in Nat
          BY <3>2, <4>1, <4>2
        <4> DEFINE k == Len(reported')
                   x == Len(sb'.expected)
                   t == Len(ref.commits)
        <4>5. k \in Nat /\ x \in Nat /\ t \in Nat /\ seq_commits + 0 = t
              /\ (seq_commits + k) + x = t
          BY <3>2, <3>3, <3>4, <4>1, <4>2, <4>4
        <4> HIDE DEF k, x, t
        <4>6. x = 0
          BY <4>2, <4>3, <4>5
        <4>7. QED
          BY <4>6 DEF x
      <3>6. QED
        BY <3>4, <3>5, EmptySeq DEF AllMatched
    <2>3. QED
      BY <2>1, <2>2
  <1>6. CASE OutOfBudget
    <2>1. /\ phase = "run" /\ phase' = "check" /\ cycle_ >= max_cycles /\ program \in PROGRAMS
          /\ UNCHANGED <<ref, program, sb>>
      BY <1>1, <1>6 DEF OutOfBudget, LimitReached, BenchInv, WithinBudget
    <2>2. max_cycles \in Nat /\ max_cycles > 0 /\ max_cycles' = max_cycles
      BY <2>1, BudgetIsPositive DEF max_cycles
    <2> HIDE DEF max_cycles
    <2>3. ~AllMatched(sb)
      BY <1>1, <2>1, <2>2
    <2>4. ASSUME ~OutOfMemory(ref.pc), BudgetSuffices PROVE FALSE
      <3>1. PICK past, todo, n :
                /\ Trace(past, todo, program, preload, ref)
                /\ n \in 0 .. ref.steps /\ Follows(past, todo, n)
        BY <2>1, <2>4 DEF BenchInv, FollowsReference
      <3>2. n \in Nat /\ cycle_ >= 3 * ref.steps + 2 /\ Timely(n)
        BY <1>1, <2>1, <2>2, <2>4, <3>1 DEF BudgetSuffices, Follows
      <3>3. n = ref.steps /\ InFlight = <<>>
        <4>1. ~(n < ref.steps)
          BY <1>1, <3>2 DEF Timely
        <4>2. n = ref.steps
          BY <1>1, <3>1, <4>1
        <4>3. QED
          BY <1>1, <3>2, <4>2 DEF Timely
      <3>4. sb.expected = <<>> \o <<>>
        BY <3>1, <3>3 DEF Follows, Trace
      <3>5. QED
        BY <2>3, <3>4 DEF AllMatched
    <2>5. QED
      BY <2>1, <2>2, <2>4 DEF BudgetSuffices
  <1>7. CASE Drained
    BY <1>1, <1>7 DEF Drained
  <1>8. CASE UNCHANGED vars
    BY <1>1, <1>8, SameArchState DEF vars, env_vars, BudgetSuffices, max_cycles
  <1>9. QED
    BY <1>2, <1>3, <1>4, <1>5, <1>6, <1>7, <1>8 DEF Next

\* Every statement keeps the bench's own variables typed.
LEMMA BenchTypeStep ==
    ASSUME BenchInv, [Next]_vars
    PROVE  BenchTypeOK'
  <1> USE DEF BenchTypeOK
  <1>1. BenchTypeOK /\ WithinBudget /\ RefinementInv
    BY DEF BenchInv
  <1> DEFINE RefOK == ref \in RefState /\ ref.steps \in 0 .. MAX_INSTRS
             BoardOK == Counters(sb, CommitRecord)
             RestOK == /\ phase \in {"idle", "reference", "reset", "run", "drain", "check"}
                       /\ left \in Nat /\ seqno \in 0 .. SEQUENCES
                       /\ program \in Seq(Instr)
                       /\ seq_commits \in Nat /\ total_errors_ \in Nat
                       /\ rst <=> phase = "reset"
  <1>2. RefOK /\ BoardOK /\ RestOK
    BY <1>1 DEF TypeOK
  <1>3. ASSUME RefOK', BoardOK', RestOK' PROVE BenchTypeOK'
    BY <1>3 DEF TypeOK, RefState, Counters
  <1>4. MAX_INSTRS \in Nat /\ RESET_CLOCKS \in Nat /\ DRAIN_CLOCKS \in Nat /\ SEQUENCES \in Nat
    BY BudgetAssumption
  <1>5. RefOK'
    <2>1. CASE StartSequence
      <3>1. ref' \in RefState
        BY <2>1, LoadedType, ProgramAssumption DEF StartSequence
      <3>2. ref'.steps = 0
        BY <2>1 DEF StartSequence, LoadedModel
      <3>3. QED
        BY <1>4, <3>1, <3>2
    <2>2. CASE RunReference
      <3>1. ref' = Stepped(ref) /\ ~OutOfMemory(ref.pc) /\ ~(ref.steps >= MAX_INSTRS)
        BY <2>2 DEF RunReference, RefDone
      <3>2. ref' \in RefState /\ ref'.steps = ref.steps + 1
        BY <1>2, <3>1, SteppedType
      <3>3. QED
        BY <1>2, <1>4, <3>1, <3>2
    <2>3. CASE ref' = ref
      BY <1>2, <2>3
    <2>4. QED
      BY <2>1, <2>2, <2>3 DEF Next, Prepare, HoldReset, EndReset, RunTick, OutOfBudget, DrainTick,
                              Drained, CheckCounts, vars, env_vars
  <1>6. BoardOK'
    <2>1. CASE Prepare
      BY <1>2, <2>1 DEF Prepare, LoadExpected, Counters, RefState
    <2>2. CASE Observe
      BY <1>2, <2>2, HandOverType DEF Observe
    <2>3. CASE sb' = sb
      BY <1>2, <2>3
    <2>4. QED
      BY <2>1, <2>2, <2>3 DEF Next, StartSequence, RunReference, HoldReset, EndReset, RunTick,
                              OutOfBudget, DrainTick, Drained, CheckCounts, vars, env_vars
  <1>7. RestOK'
    <2>1. CASE StartSequence
      <3>1. program' \in Seq(Instr) /\ rst' = rst
        BY <2>1, ProgramAssumption, SameArchState DEF StartSequence
      <3>2. QED
        BY <1>2, <2>1, <3>1 DEF StartSequence
    <2>2. CASE RunReference
      <3>1. rst' = rst
        BY <2>2, SameArchState DEF RunReference
      <3>2. QED
        BY <1>2, <2>2, <3>1 DEF RunReference
    <2>3. CASE Prepare
      <3>1. rst'
        BY <2>3, RestartState DEF Prepare
      <3>2. QED
        BY <1>2, <1>4, <2>3, <3>1 DEF Prepare
    <2>4. CASE HoldReset
      <3>1. rst'
        BY <2>4 DEF HoldReset, KeepReset, ResetClock, Posedge
      <3>2. QED
        BY <1>2, <2>4, <3>1 DEF HoldReset
    <2>5. CASE EndReset
      <3>1. ~rst'
        BY <2>5 DEF EndReset, LeaveReset, ReleaseReset, RstFall
      <3>2. QED
        BY <1>2, <2>5, <3>1 DEF EndReset
    <2>6. CASE RunTick
      <3>1. ~rst' /\ Edge
        BY <1>1, <2>6, EdgeState DEF RunTick
      <3>2. Len(reported') \in Nat
        BY <1>1, <3>1, ClockBlocks, ReportType DEF RefinementInv
      <3>3. seq_commits' \in Nat
        BY <1>2, <2>6, <3>2 DEF RunTick, Observe
      <3>4. QED
        BY <1>2, <1>4, <2>6, <3>1, <3>3 DEF RunTick
    <2>7. CASE DrainTick
      <3>1. ~rst' /\ Edge
        BY <1>1, <2>7, EdgeState DEF DrainTick
      <3>2. Len(reported') \in Nat
        BY <1>1, <3>1, ClockBlocks, ReportType DEF RefinementInv
      <3>3. seq_commits' \in Nat
        BY <1>2, <2>7, <3>2 DEF DrainTick, Observe
      <3>4. QED
        BY <1>2, <2>7, <3>1, <3>3 DEF DrainTick
    <2>8. CASE OutOfBudget \/ Drained
      <3>1. rst' = rst
        BY <2>8, SameArchState DEF OutOfBudget, Drained
      <3>2. QED
        BY <1>2, <2>8, <3>1 DEF OutOfBudget, Drained
    <2>9. CASE CheckCounts
      <3>1. rst' = rst
        BY <2>9, SameArchState DEF CheckCounts
      <3>2. sb.errors \in Nat
        BY <1>2 DEF Counters
      <3>3. total_errors_' \in Nat
        BY <1>2, <2>9, <3>2 DEF CheckCounts
      <3>4. seqno' \in 0 .. SEQUENCES
        BY <1>1, <1>2, <1>4, <2>9 DEF CheckCounts, WithinBudget
      <3>5. QED
        BY <1>2, <2>9, <3>1, <3>3, <3>4 DEF CheckCounts
    <2>10. CASE UNCHANGED vars
      BY <1>2, <2>10, SameArchState DEF vars, env_vars
    <2>11. QED
      BY <2>1, <2>2, <2>3, <2>4, <2>5, <2>6, <2>7, <2>8, <2>9, <2>10 DEF Next
  <1> HIDE DEF RefOK, BoardOK, RestOK
  <1>8. QED
    BY <1>3, <1>5, <1>6, <1>7

\* The inductive invariant of the bench: at the start,
LEMMA BenchInit == Init => BenchInv
  <1> SUFFICES ASSUME Init PROVE BenchInv
    OBVIOUS
  <1>1. <<>> \in Seq(Instr) /\ Len(<<>>) = 0 /\ <<>> \in Seq(CommitRecord)
    OBVIOUS
  <1>2. LoadedModel(<<>>, <<>>) \in RefState
    <2>1. \A w \in DOMAIN <<>> : <<>>[w] \in Word
      OBVIOUS
    <2>2. QED
      BY <1>1, <2>1, LoadedType, Zenon
  <1>3. \A w \in 0 .. IMEM_WORDS - 1 : LoadedImem(<<>>)[w] = ZeroInstr
    BY <1>1, MemoryAssumption DEF LoadedImem
  <1>4. AgreedLoaded
    BY <1>3 DEF Init, AgreedLoaded, Agreed, ZeroInstr, R_TYPE, BRANCH
  <1>5. /\ instr_mem \in [0 .. IMEM_WORDS - 1 -> Instr]
        /\ data_mem \in [0 .. DMEM_WORDS - 1 -> Word]
    BY <1>2 DEF Init, LoadedModel, RefState
  <1>6. RefinementInv
    BY <1>4, <1>5, ClearedIsReady DEF Init
  <1>7. BenchTypeOK
    <2>1. ref \in RefState /\ ref.steps = 0
      BY <1>2 DEF Init, LoadedModel
    <2>2. Counters(sb, CommitRecord) /\ sb.expected \in Seq(CommitRecord)
      BY <1>1 DEF Init, LoadExpected, Counters
    <2>3. MAX_INSTRS \in Nat /\ SEQUENCES \in Nat
      BY BudgetAssumption
    <2>4. /\ phase \in {"idle", "reference", "reset", "run", "drain", "check"}
          /\ left \in Nat /\ seqno \in 0 .. SEQUENCES /\ program \in Seq(Instr)
          /\ seq_commits \in Nat /\ total_errors_ \in Nat /\ (rst <=> phase = "reset")
      <3>1. phase = "idle" /\ left = 0 /\ seqno = 0 /\ program = <<>>
        BY DEF Init
      <3>2. seq_commits = 0 /\ total_errors_ = 0 /\ ~rst
        BY DEF Init
      <3>3. QED
        BY <1>1, <2>3, <3>1, <3>2
    <2>5. /\ ref.pc \in Word /\ ref.regs \in [RegIndex -> Word] /\ ref.steps \in 0 .. MAX_INSTRS
          /\ ref.commits \in Seq(CommitRecord)
      BY <2>1, <2>3 DEF RefState
    <2>6. QED
      BY <2>1, <2>2, <2>4, <2>5 DEF BenchTypeOK, TypeOK
  <1>8. WithinBudget /\ FollowsReference /\ DrainsWhenMatched /\ IdleIsClean
    BY DEF Init, WithinBudget, FollowsReference, DrainsWhenMatched, IdleIsClean, LoadExpected
  <1>9. QED
    BY <1>6, <1>7, <1>8 DEF BenchInv

\* kept by every statement,
LEMMA BenchStep == BenchInv /\ [Next]_vars => BenchInv'
  <1> SUFFICES ASSUME BenchInv, [Next]_vars PROVE BenchInv'
    OBVIOUS
  <1>1. RefinementInv' /\ StateTypeOK'
    BY BenchIsStateNext, RefinementInvStep DEF BenchInv, RefinementInv
  <1>2. QED
    BY <1>1, BenchTypeStep, BudgetStep, FollowsStep, DrainStep, IdleStep DEF BenchInv

\* and so always.
LEMMA AlwaysBench == Spec => []BenchInv
  BY BenchInit, BenchStep, PTL DEF Spec

-----------------------------------------------------------------------------
(* What the count of commits tells, about any pipeline.                    *)

\* As long as nothing was objected to, every commit took one entry off the queue.
CountsTell ==
    phase \in {"reset", "run", "drain", "check"} /\ sb.errors = 0 =>
        Len(sb.expected) + seq_commits = Len(ref.commits)

\* A report that costs no error takes one entry off the queue,
LEMMA CleanPops ==
    ASSUME NEW S, NEW b, Counters(b, S), NEW c, Compare(b, c).errors = 0
    PROVE  b.errors = 0 /\ Len(Compare(b, c).expected) + 1 = Len(b.expected)
  <1>1. b.errors = 0 /\ b.expected # <<>> /\ Compare(b, c).expected = Tail(b.expected)
    BY CompareClean
  <1>2. b.expected \in Seq(S)
    BY DEF Counters
  <1>3. QED
    BY <1>1, <1>2

\* and the reports of one tick as many as they are.
LEMMA CleanTickPops ==
    ASSUME NEW S, NEW b, Counters(b, S), NEW r \in Seq(CommitRecord), Len(r) <= 2,
           HandOver(HandOver(b, r, 1), r, 2).errors = 0
    PROVE  /\ b.errors = 0
           /\ Len(HandOver(HandOver(b, r, 1), r, 2).expected) + Len(r) = Len(b.expected)
  <1> DEFINE b1 == HandOver(b, r, 1)
             b2 == HandOver(b1, r, 2)
  <1>1. Counters(b1, S) /\ Counters(b2, S)
    BY CompareType DEF HandOver
  <1>2. /\ Len(b.expected) \in Nat /\ Len(b1.expected) \in Nat /\ Len(b2.expected) \in Nat
        /\ Len(r) \in {0, 1, 2}
    <2>1. ASSUME NEW d, Counters(d, S) PROVE Len(d.expected) \in Nat
      BY <2>1 DEF Counters
    <2>2. Len(r) \in Nat
      OBVIOUS
    <2>3. Len(r) <= 2
      OBVIOUS
    <2>4. Len(r) \in {0, 1, 2}
      <3>1. \A n \in Nat : n <= 2 => n \in {0, 1, 2}
        OBVIOUS
      <3>2. QED
        BY <2>2, <2>3, <3>1, Zenon
    <2> HIDE DEF b1, b2
    <2>5. Len(b.expected) \in Nat /\ Len(b1.expected) \in Nat /\ Len(b2.expected) \in Nat
      BY <1>1, <2>1, Zenon
    <2>6. QED
      BY <2>4, <2>5
  <1>3. CASE Len(r) = 0
    <2>1. b1 = b /\ b2 = b
      BY <1>3 DEF HandOver
    <2>2. QED
      BY <1>2, <1>3, <2>1
  <1>4. CASE Len(r) = 1
    <2>1. b1 = Compare(b, r[1]) /\ b2 = b1
      BY <1>4 DEF HandOver
    <2>2. b.errors = 0 /\ Len(b1.expected) + 1 = Len(b.expected)
      BY <2>1, CleanPops
    <2>3. QED
      BY <1>2, <1>4, <2>1, <2>2
  <1>5. CASE Len(r) = 2
    <2>1. b1 = Compare(b, r[1]) /\ b2 = Compare(b1, r[2]) /\ b2.errors = 0
      BY <1>5 DEF HandOver
    <2> HIDE DEF b1, b2
    <2>2. b1.errors = 0 /\ Len(b2.expected) + 1 = Len(b1.expected)
      BY <1>1, <2>1, CleanPops
    <2>3. b.errors = 0 /\ Len(b1.expected) + 1 = Len(b.expected)
      BY <2>1, <2>2, CleanPops
    <2>4. QED
      BY <1>2, <1>5, <2>2, <2>3 DEF b1, b2
  <1>6. QED
    BY <1>2, <1>3, <1>4, <1>5

\* The queue is loaded with what the model committed, and every tick keeps the balance.
LEMMA CountsStep ==
    ASSUME BenchInv, CountsTell, [Next]_vars
    PROVE  CountsTell'
  <1> USE DEF CountsTell
  <1>1. Counters(sb, CommitRecord) /\ seq_commits \in Nat /\ ref.commits \in Seq(CommitRecord)
    BY DEF BenchInv, BenchTypeOK, TypeOK
  <1>2. CASE StartSequence \/ RunReference \/ CheckCounts
    BY <1>2 DEF StartSequence, RunReference, CheckCounts
  <1>3. CASE Prepare
    <2>1. sb'.expected = ref.commits /\ seq_commits' = 0 /\ ref' = ref
      BY <1>3 DEF Prepare, LoadExpected
    <2>2. QED
      BY <1>1, <2>1
  <1>4. CASE RunTick \/ DrainTick
    <2>1. Edge /\ Observe /\ phase \in {"run", "drain"} /\ ref' = ref
      BY <1>4, EdgeState DEF BenchInv, RunTick, DrainTick
    <2>2. reported' \in Seq(CommitRecord) /\ Len(reported') <= 2
      BY <2>1, ClockBlocks, ReportType, ReportLength DEF BenchInv, RefinementInv
    <2> DEFINE r == reported'
    <2>3. sb' = HandOver(HandOver(sb, r, 1), r, 2) /\ seq_commits' = seq_commits + Len(r)
      BY <2>1 DEF Observe
    <2>4. r \in Seq(CommitRecord) /\ Len(r) <= 2 /\ Len(r) \in Nat
      BY <2>2
    <2> HIDE DEF r
    <2>5. ASSUME sb'.errors = 0
          PROVE  sb.errors = 0 /\ Len(sb'.expected) + Len(r) = Len(sb.expected)
      BY <1>1, <2>3, <2>4, <2>5, CleanTickPops
    <2>6. Counters(sb', CommitRecord)
      BY <1>1, <2>3, HandOverType
    <2>7. Len(sb.expected) \in Nat /\ Len(sb'.expected) \in Nat
      BY <1>1, <2>6 DEF Counters
    <2>8. /\ phase \in {"reset", "run", "drain", "check"} /\ ref' = ref
          /\ seq_commits' = seq_commits + Len(r) /\ seq_commits \in Nat
      BY <1>1, <2>1, <2>3
    <2>9. ASSUME sb'.errors = 0 PROVE Len(sb'.expected) + seq_commits' = Len(ref'.commits)
      <3>1. Len(sb.expected) + seq_commits = Len(ref.commits)
        BY <2>5, <2>8, <2>9
      <3>2. Len(sb'.expected) + Len(r) = Len(sb.expected)
        BY <2>5, <2>9
      <3>3. Len(ref.commits) \in Nat
        BY <1>1
      <3> DEFINE y == Len(sb.expected)
                 x == Len(sb'.expected)
                 l == Len(r)
                 t == Len(ref.commits)
      <3>4. /\ x \in Nat /\ y \in Nat /\ l \in Nat /\ t \in Nat
            /\ y + seq_commits = t /\ x + l = y
        BY <2>4, <2>7, <3>1, <3>2, <3>3
      <3> HIDE DEF x, y, l, t
      <3>5. x + (seq_commits + l) = t
        BY <2>8, <3>4
      <3>6. QED
        BY <2>8, <3>5, Zenon DEF x, l, t
    <2>10. QED
      BY <2>9
  <1>5. CASE HoldReset \/ EndReset \/ OutOfBudget \/ Drained \/ UNCHANGED vars
    <2>1. /\ UNCHANGED <<sb, seq_commits, ref>>
          /\ phase' \in {"reset", "run", "drain", "check"} =>
                phase \in {"reset", "run", "drain", "check"}
      BY <1>5 DEF HoldReset, EndReset, OutOfBudget, Drained, vars, env_vars
    <2>2. QED
      BY <2>1
  <1>6. QED
    BY <1>2, <1>3, <1>4, <1>5 DEF Next

-----------------------------------------------------------------------------
(* The theorems                                                            *)

\* Every state of a batch is well typed; rst is high exactly between a program's load
\* and its first clock.
THEOREM BenchIsTyped == Spec => []TypeOK
  <1>1. BenchInv => TypeOK
    BY DEF BenchInv, BenchTypeOK
  <1>2. QED
    BY <1>1, AlwaysBench, PTL

\* The scoreboard never objects to this pipeline, in no sequence of any batch and at no
\* moment: what post_posedge hands it, tick by tick, is what the reference model left in
\* the queue, whether a sequence is run to its end or abandoned by its clock budget.
THEOREM NeverAFalseAlarm == Spec => []NoFalseAlarm
  <1>1. BenchInv => NoFalseAlarm
    BY DEF BenchInv, IdleIsClean, FollowsReference, Follows, NoFalseAlarm
  <1>2. QED
    BY <1>1, AlwaysBench, PTL

\* Once the queue is empty the whole sequence has been checked, also what no commit
\* carries: the environment's count agrees, and the pipeline's register file and data
\* memory are the reference model's.
MatchedRunsAgree ==
    phase \notin {"idle", "reference"} /\ ~OutOfMemory(ref.pc) /\ AllMatched(sb) =>
        /\ sb.errors = 0 /\ Delta = 0
        /\ regs = ref.regs /\ data_mem = ref.dmem

\* With no commit in flight the abstract state has reached the register file and the memory.
LEMMA NothingLeft ==
    ASSUME RefinementInv, InFlight = <<>>
    PROVE  ArchRegs = regs /\ ArchDmem = data_mem
  <1>1. InFlight = AboutToCommit \o RegCommits
    BY DEF InFlight, RegCommits
  <1>2. AboutToCommit \in Seq(CommitRecord) /\ RegCommits \in Seq(CommitRecord)
    BY ReportType, CommitsType DEF RefinementInv, CommitsTyped
  <1>3. AboutToCommit = <<>> /\ RegCommits = <<>>
    <2> DEFINE a == AboutToCommit
               r == RegCommits
    <2>1. a \in Seq(CommitRecord) /\ r \in Seq(CommitRecord) /\ a \o r = <<>>
      BY <1>1, <1>2
    <2> HIDE DEF a, r
    <2>2. a = <<>> /\ r = <<>>
      BY <2>1, ConcatProperties
    <2>3. QED
      BY <2>2 DEF a, r
  <1>4. ~(ex_mem.reg_write /\ ex_mem.rd # 0)
    BY <1>3 DEF RegCommits
  <1>5. ~(mem_wb.reg_write /\ mem_wb.rd # 0) /\ ~ex_mem.mem_write
    BY <1>3 DEF AboutToCommit
  <1>6. QED
    BY <1>4, <1>5 DEF ArchRegs, AfterWb, ArchDmem

\* A sequence the scoreboard calls done has left exactly the reference model's state
\* behind, commits or not.
THEOREM MatchedMeansEqual == Spec => []MatchedRunsAgree
  <1>1. BenchInv => MatchedRunsAgree
    <2> SUFFICES ASSUME BenchInv, phase \notin {"idle", "reference"}, ~OutOfMemory(ref.pc),
                        AllMatched(sb)
                 PROVE  /\ sb.errors = 0 /\ Delta = 0
                        /\ regs = ref.regs /\ data_mem = ref.dmem
      BY DEF MatchedRunsAgree
    <2>1. PICK past, todo, n :
                /\ Trace(past, todo, program, preload, ref)
                /\ n \in 0 .. ref.steps /\ Follows(past, todo, n)
      BY DEF BenchInv, FollowsReference
    <2>2. /\ todo[n] \in Seq(CommitRecord) /\ InFlight \in Seq(CommitRecord)
          /\ todo[n] = <<>> => past[n].regs = ref.regs /\ past[n].dmem = ref.dmem
      BY <2>1, InFlightType DEF Trace, BenchInv, RefinementInv, InFlightTyped
    <2>3. /\ InFlight \o todo[n] = <<>> /\ sb.errors = 0 /\ StandsAt(past, n)
          /\ seq_commits + Len(<<>>) = Len(ref.commits)
      BY <2>1 DEF Follows, AllMatched
    <2>4. InFlight = <<>> /\ todo[n] = <<>>
      <3> DEFINE a == InFlight
                 t == todo[n]
      <3>1. a \in Seq(CommitRecord) /\ t \in Seq(CommitRecord) /\ a \o t = <<>>
        BY <2>2, <2>3
      <3> HIDE DEF a, t
      <3>2. a = <<>> /\ t = <<>>
        BY <3>1, ConcatProperties
      <3>3. QED
        BY <3>2 DEF a, t
    <2>5. regs = ref.regs /\ data_mem = ref.dmem
      BY <2>2, <2>3, <2>4, NothingLeft DEF BenchInv, StandsAt
    <2>6. Delta = 0
      <3>1. seq_commits \in Nat /\ Len(<<>>) = 0
        BY DEF BenchInv, BenchTypeOK, TypeOK
      <3>2. QED
        BY <2>3, <3>1 DEF Delta
    <2>7. QED
      BY <2>3, <2>5, <2>6
  <1>2. QED
    BY <1>1, AlwaysBench, PTL

\* A sequence whose program halts is judged to the end if its budget has three clocks for
\* every instruction and two more: every expected commit was seen, nothing came after,
\* and registers and memory agree.
THEOREM HaltedRunsAreJudged == Spec => [](BudgetSuffices => HaltedRunsAgree)
  <1>1. BenchInv => DrainsWhenMatched
    BY DEF BenchInv
  <1>2. DrainsWhenMatched /\ MatchedRunsAgree => (BudgetSuffices => HaltedRunsAgree)
    BY DEF DrainsWhenMatched, MatchedRunsAgree, HaltedRunsAgree, Halted
  <1>3. QED
    BY <1>1, <1>2, AlwaysBench, MatchedMeansEqual, PTL

\* A sequence given up before its queue was empty is counted as an error by the
\* environment, by the scoreboard's verdict or by the number of commits, whatever the
\* program, the budget and the sequences before: none passes in silence.
THEOREM TimeoutsAreErrors == Spec => []TimeoutIsAnError
  <1>1. Init => CountsTell
    BY DEF Init, CountsTell
  <1>2. BenchInv /\ CountsTell => TimeoutIsAnError
    <2> SUFFICES ASSUME BenchInv, CountsTell, phase = "check", ~AllMatched(sb), sb.errors = 0
                 PROVE  Delta # 0
      BY DEF TimeoutIsAnError, BenchInv, BenchTypeOK, Counters
    <2>1. sb.expected \in Seq(CommitRecord) /\ sb.expected # <<>>
      BY DEF AllMatched, BenchInv, BenchTypeOK, TypeOK
    <2>2. Len(sb.expected) \in Nat /\ Len(sb.expected) # 0
      BY <2>1, EmptySeq
    <2>3. seq_commits \in Nat /\ Len(sb.expected) + seq_commits = Len(ref.commits)
      BY DEF CountsTell, BenchInv, BenchTypeOK, TypeOK
    <2>4. QED
      BY <2>2, <2>3 DEF Delta
  <1>3. BenchInv /\ CountsTell /\ [Next]_vars => CountsTell'
    BY CountsStep
  <1>4. QED
    BY <1>1, <1>2, <1>3, AlwaysBench, PTL DEF Spec
=============================================================================
