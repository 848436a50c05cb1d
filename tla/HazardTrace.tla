----------------------------- MODULE HazardTrace -----------------------------
(***************************************************************************)
(* The hazards the reference model annotates on its trace                  *)
(* (annotate_hazards, which the coverage bins are filled from) beside the  *)
(* hazards the pipeline meets.  Instructions pass EX in program order, so  *)
(* the annotation of the instruction in EX is computed as it gets there.   *)
(* Every sequence has a trace of its own.                                  *)
(***************************************************************************)
EXTENDS PipelineIsa

VARIABLES
    back1, back2,   \* the last two steps, as annotate_hazards looks at them
    executed,       \* steps before the one in EX
    ldu_cnt_,       \* of these, the ones annotated load-use
    ctl_cnt_        \* of these, the control transfers

trace_vars == <<vars, back1, back2, executed, ldu_cnt_, ctl_cnt_>>

\* annotate_hazards for the instruction in EX.
Annotated == Annotation(id_ex.instr, back1, back2)

TraceInit == /\ Init
             /\ back1 = NoWriter /\ back2 = NoWriter
             /\ executed = 0 /\ ldu_cnt_ = 0 /\ ctl_cnt_ = 0

TraceBegin == /\ Begin
              /\ back1' = NoWriter /\ back2' = NoWriter
              /\ executed' = 0 /\ ldu_cnt_' = 0 /\ ctl_cnt_' = 0

TraceReset == InReset /\ UNCHANGED <<back1, back2, executed, ldu_cnt_, ctl_cnt_>>

\* That instruction leads elsewhere than to the next: execute_one jumps, or decides to
\* branch, by the registers as they are after the step before.
Transfers ==
    \/ id_ex.instr.opcode = JAL
    \/ /\ id_ex.instr.opcode = BRANCH
       /\ BranchDecision(id_ex.instr, ArchRegs[id_ex.instr.rs1], ArchRegs[id_ex.instr.rs2])

\* The instruction in EX becomes a step of the trace.
TraceStep ==
    /\ Clock /\ vEX
    /\ back1' = Writer(id_ex.instr) /\ back2' = back1
    /\ executed' = executed + 1
    /\ ldu_cnt_' = ldu_cnt_ + Flag(Annotated = "load_use")
    /\ ctl_cnt_' = ctl_cnt_ + Flag(Transfers)

\* EX holds a bubble.
TraceBubble ==
    /\ Clock /\ ~vEX
    /\ UNCHANGED <<back1, back2, executed, ldu_cnt_, ctl_cnt_>>

TraceNext == TraceBegin \/ TraceReset \/ TraceStep \/ TraceBubble

TraceSpec == TraceInit /\ [][TraceNext]_trace_vars
-----------------------------------------------------------------------------
\* What the pipeline costs, to the cycle: two clocks to fill, one per instruction,
\* one more exactly where the reference model annotates a load-use hazard, two more
\* per control transfer.  No stall is missed and none is added, on any path.
CycleAccount ==
    vEX => cycle_ = 2 + executed + 2 * ctl_cnt_
                      + ldu_cnt_ + Flag(Annotated = "load_use")

\* Every forward the pipeline makes is annotated: the coverage model overlooks no
\* hazard the hardware meets.
ForwardsAreAnnotated ==
    vEX /\ (forward_a # "RF" \/ forward_b # "RF") => Annotated # "none"

\* reference_model.h 16-19 and pipe_transaction.h 76: an instruction annotated with
\* a RAW hazard uses a forwarded result.
AnnotatedRawIsForwarded ==
    vEX /\ Annotated = "raw" => forward_a # "RF" \/ forward_b # "RF"
=============================================================================
