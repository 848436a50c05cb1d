---------------------------- MODULE PipelineIsa ----------------------------
(***************************************************************************)
(* The pipeline under its driver, and what it has to do with the reference *)
(* model: sequence after sequence is loaded, clocked and abandoned.        *)
(***************************************************************************)
EXTENDS ArchState

CONSTANTS
    MAX_CYCLES,    \* the driver's cycle budget for a sequence
    SEQUENCES      \* bound on the sequences run on one pipeline

VARIABLE started   \* sequences begun

vars == <<state_vars, started>>
-----------------------------------------------------------------------------
Init ==
    /\ instr_mem \in ImemImages /\ data_mem \in DmemImages
    /\ rst = TRUE
    /\ Cleared
    /\ started = 1

\* The agent begins the next sequence at any point of the previous one: that
\* one may have timed out with instructions in flight.
Begin ==
    /\ ~rst
    /\ started < SEQUENCES
    /\ started' = started + 1
    /\ Restart

InReset == (KeepReset \/ LeaveReset) /\ UNCHANGED started

Clock == Advance(MAX_CYCLES) /\ UNCHANGED started

Next == Begin \/ InReset \/ Clock

Spec == Init /\ [][Next]_vars
-----------------------------------------------------------------------------
TypeOK == StateTypeOK /\ started \in Nat

\* The pipeline is indistinguishable from one that executes a whole instruction
\* at a time: every clock either completes exactly the reference model's next
\* instruction or none, and the monitor sees the reference model's commits in
\* program order, none twice, none missing, none from a flushed instruction.
ExecutesInOrder == Order!Spec

\* The last word of the address space is fetched or waits in ID: a program that jumps
\* there, backwards from word 0, comes back to 0 by counting.
WrapsAround == pc_plus4 = 0 \/ (vID /\ if_id.pc_plus4 = 0)

\* A1-A8 of pipe_driver.h: a redirect comes from one instruction of the right kind and
\* lands on its target even against a stall, no bubble can commit or redirect, and
\* nothing but a redirect leads back to 0.  The last (A6) does not think of the wrap-
\* around, which would abort the test of a program that jumps backwards from word 0.
AssertionsHold ==
    [][Clock => check_redirect /\ check_bubble /\ (WrapsAround \/ check_assertions)]_vars
=============================================================================
