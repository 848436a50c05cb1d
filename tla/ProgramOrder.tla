---------------------------- MODULE ProgramOrder ----------------------------
(***************************************************************************)
(* What a processor promises, without a pipeline: instructions execute one *)
(* at a time, each completely, in the order the instruction set defines,   *)
(* and the commits they leave are reported in that order, each once, pos-  *)
(* sibly later.  The instruction set is a parameter.  Where it stops,      *)
(* nothing is promised.                                                    *)
(***************************************************************************)
EXTENDS Integers, Sequences

CONSTANTS
    Execute1(_, _, _, _),   \* (pc, regs, dmem, instr): the state after one instruction
    Stopped(_),             \* the pcs at which the reference model gives up
    Programs, Preloads,     \* images instruction and data memory may start from
    ClearRegs

VARIABLES
    imem_,       \* the loaded program
    pc_, regs_, dmem_,
    pending,     \* commits made and not yet reported
    reported     \* commits reported by the last step

order_vars == <<imem_, pc_, regs_, dmem_, pending, reported>>

Init == /\ imem_ \in Programs /\ dmem_ \in Preloads
        /\ pc_ = 0 /\ regs_ = ClearRegs
        /\ pending = <<>> /\ reported = <<>>

\* A freshly constructed reference model, for the next program.
Start == /\ imem_' \in Programs /\ dmem_' \in Preloads
         /\ pc_' = 0 /\ regs_' = ClearRegs
         /\ pending' = <<>> /\ reported' = <<>>

\* One instruction.
Execute ==
    LET e == Execute1(pc_, regs_, dmem_, imem_[pc_ \div 4])
    IN  /\ ~Stopped(pc_)
        /\ pc_' = e.pc /\ regs_' = e.regs /\ dmem_' = e.dmem
        /\ reported' \o pending' = pending \o e.commits
        /\ UNCHANGED imem_

\* No instruction completes; earlier commits may still be reported.
Wait ==
    /\ reported' \o pending' = pending
    /\ UNCHANGED <<imem_, pc_, regs_, dmem_>>

Next == Execute \/ Wait \/ Stopped(pc_) \/ Start

Spec == Init /\ [][Next]_order_vars
=============================================================================
