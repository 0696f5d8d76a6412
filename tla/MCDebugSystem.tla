---------------------------- MODULE MCDebugSystem ----------------------------
(* A small instance of DebugSystem.                                        *)
EXTENDS DebugRefinement

MCAddress == {0, START_PC, START_PC + 4} \cup DebugAddress
MCValue == 0..511 \cup MCAddress
MCInst == {}

Transfer(regno, write, postexec) ==
    [ access_register |-> TRUE, aarsize32 |-> TRUE, transfer |-> TRUE,
      write |-> write, postexec |-> postexec, regno |-> regno ]

\* The program writes s0 and jumps back, or hits a breakpoint.
MCProgramInst ==
    { [op |-> "set", reg |-> "s0", val |-> 8, len |-> 4],
      [op |-> "jump", to |-> START_PC],
      [op |-> "ebreak"] }

\* Transfers: the program's s0 is read and written, a written s0 is followed
\* by a program buffer that ends or faults, and dpc is read.
TransferCommand ==
    { Transfer("s0", FALSE, FALSE), Transfer("s0", TRUE, TRUE), Transfer("dpc", FALSE, FALSE) }
TransferProgBufWord == { ebreak }
TransferData == {9}
TransferAuto == {}
TransferLines == {{"ndmreset"}}

\* Stepping, custom registers and autoexecution: 7 in dcsr is `step, resume
\* at machine level'; touching the data register or the buffer
\* repeats the last command.
StepCommand ==
    { Transfer("dcsr", TRUE, FALSE), Transfer("custom", FALSE, FALSE), Transfer("none", FALSE, FALSE) }
StepProgBufWord == { [op |-> "fault", code |-> EXC_II] }
StepData == {7}
StepAuto == { [data |-> TRUE, progbuf |-> {1}] }
StepLines == {{"hartreset"}}

\* Liveness: one transfer with a program buffer run that may fault.
LiveCommand == { Transfer("s0", TRUE, TRUE) }
LiveData == {8}

NoLiberties == {}

\* The hypotheses of the theorems about s0 and about transfers hold in every
\* run: the invariants they were proved for are the ones checked here.
ASSUME MCKeeps == KeepsProgramS0 /\ KeepsTransferred

\* What the words of a debugger mean, whatever the state: LayoutProofs.
ASSUME MCLayouts ==
    Dmi!ControlReadsBack /\ Dmi!SbcsReadsBack /\ Dmi!DcsrAgrees /\ Dmi!TransportAgrees

\* The liberty of the run that shows where the module departs from the
\* description of its registers.
HaltOnReset == {"halt_on_reset"}
=============================================================================
