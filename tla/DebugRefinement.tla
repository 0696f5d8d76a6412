--------------------------- MODULE DebugRefinement ---------------------------
(***************************************************************************)
(* The debug system as the debug target it implements: where the ROM and   *)
(* the code of a command have put what the program owns, and how far the   *)
(* command is, by the address the hart is at.                              *)
(***************************************************************************)
EXTENDS DebugSystem

-----------------------------------------------------------------------------
(* Where the hart is in a session, by what it does there.                  *)

Entering  == {2048, 2060, 2064}
ParkLoop  == {2068, 2072, 2076, 2080, 2084, 2088, 2092, 2096, 2100, 2104, 2108}
Exception == {2056, 2112, 2116, 2120}
Launching == {2124, 2128}
Leading   == {2132, 2136, 2140, 2144, 768}
Leaving   == {2148, 2152}
Left      == {2156, 2160}
CodeAddress(code) == { debug_abstract_start + 4 * i : i \in 0 .. Len(code) - 1 }
Assembled == CodeAddress(dm.debug_abstract)
Buffered  == ProgBufAddress \cup {debug_progbuf_start + 4 * ProgBufSize}
Code      == Assembled \cup Buffered

Going    == "GO" \in dm.debug_rom_flags
Resuming == "RESUME" \in dm.debug_rom_flags

WritesS0 == ghost.command.transfer /\ ghost.command.write /\ ghost.command.regno = "s0"
MovesCsr == ghost.command.transfer /\ ghost.command.regno \in CsrRegno

\* dscratch0 holds the program's s0.
InScratch ==
    \/ cpu.pc \in ParkLoop \cup Exception \cup Launching \cup Leading \cup Leaving \cup Left
    \/ cpu.pc \in Buffered
    \/ cpu.pc \in Assembled /\ (WritesS0 => cpu.pc # 792)

\* The code of the command has not yet moved the word.
Moving == cpu.pc \in IF MovesCsr THEN {788, 792, 796} ELSE {788}

-----------------------------------------------------------------------------
(* The debug target.                                                       *)

\* A hart that a reset has taken out of debug mode is halted all the same: the
\* next step takes it back.
TargetMode ==
    IF dm.halted THEN "halted"
    ELSE IF ~cpu.debug_mode THEN "running"
    ELSE IF cpu.pc \in Left THEN "leaving"
    ELSE "stopping"

TargetHart ==
    [ pc    |-> IF cpu.debug_mode THEN cpu.dpc ELSE cpu.pc,
      prv   |-> IF cpu.debug_mode THEN cpu.dcsr.prv ELSE cpu.privilege,
      s0    |-> IF cpu.debug_mode /\ InScratch THEN cpu.dscratch0 ELSE cpu.regs["s0"],
      s1    |-> cpu.regs["s1"],
      cause |-> IF dm.halted /\ ~cpu.debug_mode THEN DCSR_CAUSE_DEBUGINT ELSE cpu.dcsr.cause,
      step  |-> cpu.dcsr.step ]

TargetDue == cpu.single_step = 1 /\ ~dm.halted

TargetJob ==
    IF ~dm.busy THEN "none"
    ELSE IF dm.completed THEN "reported"
    ELSE IF Going \/ cpu.pc \in Leading \/ Moving THEN "accepted"
    ELSE IF cpu.pc \in {2056, 2112, 2116} THEN "faulted"
    ELSE IF cpu.pc \in Code /\ ghost.command.postexec THEN "executing"
    ELSE "ended"

HartAtReset ==
    [ pc |-> START_PC, prv |-> PRV_M, s0 |-> 0, s1 |-> 0, cause |-> 0, step |-> FALSE ]

\* The words a program buffer may hold: what the debugger writes, and the words
\* around them that no one has written.
Unwritten  == [op |-> "fault", code |-> EXC_II]
BufferWord == ProgBufWord \cup {Unwritten}

Target == INSTANCE DebugTarget WITH
    BufferInst <- BufferWord,
    AtReset    <- HartAtReset,
    mode       <- TargetMode,
    hart       <- TargetHart,
    due        <- TargetDue,
    request    <- cpu.halt_request,
    asked      <- Resuming,
    job        <- TargetJob,
    command    <- ghost.command,
    data       <- dm.dmdata,
    error      <- dm.cmderr

\* The debugger, the module, the ROM and the hart together are a debug target: no
\* interleaving of the park loop with accesses shows a debugger a command half
\* done, a register of the program displaced, or a halt that is not one.
ImplementsTarget == Target!Spec
=============================================================================
