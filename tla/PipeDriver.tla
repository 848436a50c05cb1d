----------------------------- MODULE PipeDriver -----------------------------
(***************************************************************************)
(* cpp_tb/pipeline/pipe_driver.h and pipe_monitor.h around the pipeline:   *)
(* how the testbench clocks, resets and loads it, and which commits it     *)
(* reads off the pipeline registers on every clock.                        *)
(***************************************************************************)
EXTENDS Pipeline, ReferenceModel

VARIABLES
    cycle_,     \* clocks since the last reset
    reported    \* the commits the monitor passed on in the last tick, in order

driver_vars == <<cycle_, reported>>

\* load_program, preload_dmem and the start of reset(): the testbench writes the
\* memories behind the pipeline's back and raises rst.  No clock edge lies
\* between, but whatever the previous sequence left in flight is still there
\* when the memories are written.
LoadAndReset ==
    /\ instr_mem' \in ImemImages
    /\ data_mem' \in DmemImages
    /\ RstRise
    /\ reported' = <<>>
    /\ UNCHANGED cycle_

\* One of reset()'s clocks with rst high.
ResetClock ==
    /\ rst
    /\ Posedge
    /\ UNCHANGED driver_vars

\* Faulty: rst is never lowered.
ReleaseReset_Held == rst /\ cycle_' = 0 /\ UNCHANGED <<dut_vars, reported>>

\* The end of reset().
ReleaseReset ==
    /\ rst
    /\ RstFall
    /\ cycle_' = 0
    /\ UNCHANGED reported

\* Faulty: the younger store is reported before the older register write.
AboutToCommit_MemFirst ==
    (IF ex_mem.mem_write
     THEN <<MemCommit(ex_mem.alu_result \div 4, ex_mem.rs2_data)>> ELSE <<>>)
    \o
    (IF mem_wb.reg_write /\ mem_wb.rd # 0
     THEN <<RegCommit(mem_wb.rd, wb_write_data)>> ELSE <<>>)

\* pre_posedge samples the registers, post_posedge reports: the register write
\* in WB first, then the store in MEM, although the store is the younger.
AboutToCommit ==
    (IF mem_wb.reg_write /\ mem_wb.rd # 0
     THEN <<RegCommit(mem_wb.rd, wb_write_data)>> ELSE <<>>)
    \o
    (IF ex_mem.mem_write
     THEN <<MemCommit(ex_mem.alu_result \div 4, ex_mem.rs2_data)>> ELSE <<>>)

\* Where tick(max_cycles) returns false; 0 stands for no limit.
LimitReached(max_cycles) == max_cycles > 0 /\ cycle_ >= max_cycles

Tick(max_cycles) ==
    /\ ~rst
    /\ ~LimitReached(max_cycles)
    /\ Posedge
    /\ reported' = AboutToCommit
    /\ cycle_' = cycle_ + 1
=============================================================================
