----------------------------- MODULE DebugSystem -----------------------------
(***************************************************************************)
(* A debugger, the debug module and the hart, put together the way         *)
(* Core::step does: one CPU::step, then one tick of the bus, in which the  *)
(* JTAG transport may carry one DMI access to the module and clock any     *)
(* number of Run-Test/Idle cycles.                                         *)
(*                                                                         *)
(* The hart runs the program, or the module's ROM, the code assembled for  *)
(* the current abstract command and the program buffer.  The debugger is   *)
(* any client that follows the rules of the section "The debugger";        *)
(* Liberties names the rules it may break.                                 *)
(*                                                                         *)
(* `accessed' says which registers the access since the last step was to,  *)
(* the abstract command interface or the others.                           *)
(*                                                                         *)
(* `ghost' records what an observer who sees the hart from inside knows:   *)
(* what the program left in s0, the command in progress, how often its     *)
(* code was entered and whether it faulted, whether a resume of the halted *)
(* hart is outstanding, and how many instructions the program has executed *)
(* since it was resumed.                                                   *)
(***************************************************************************)
EXTENDS DebugModule

CONSTANTS
    ProgramInst,    \* the instructions of the program
    ProgBufWord,    \* the words the debugger puts in the program buffer
    Data,           \* the words it writes to the data register
    AutoMask,       \* the values it writes to abstractauto
    ResetLines,     \* the reset lines of dmcontrol it uses, as sets
    Liberties       \* the rules it does not follow

VARIABLES accessed, ghost

vars == <<cpu, dm, accessed, ghost>>

LibertyName == {"halt_on_reset"}

\* The addresses of debug_module_t, where no program lies.
DebugMemory == 0..4095

\* A word that stays in the program buffer until it ends or faults, and raises
\* no interrupt.
Confined(word) ==
    \/ word.op \in {"alu", "set"} /\ word.len = 4
    \/ word.op = "csr" /\ word.csr # "mip"
    \/ word.op = "jump" /\ word.to \in ProgBufAddress
    \/ word.op \in {"ebreak", "fault"}

\* Registers hold words: addresses, debug memory's included, and dcsr are among
\* them, and where dpc is written every word is taken for an address.
ASSUME DebugSystemAssumption ==
    /\ DebugAddress \subseteq Address
    /\ Value \subseteq Nat /\ Address \subseteq Value /\ 0..511 \subseteq Value
    /\ \A cmd \in Command : cmd.write /\ cmd.regno = "dpc" => Value \subseteq Address
    /\ ProgramInst \subseteq [op : {"alu"}, len : {4}]
                       \cup [op : {"set"}, reg : Reg, val : Value, len : {4}]
                       \cup [op : {"jump"}, to : Address \ DebugMemory]
                       \cup [op : {"ebreak"}]
    /\ ProgBufWord \subseteq { word \in Instruction : Confined(word) }
    /\ Data \subseteq Value
    /\ AutoMask \subseteq [data : BOOLEAN, progbuf : SUBSET (1..ProgBufSize)]
    /\ ResetLines \subseteq {{"hartreset"}, {"ndmreset"}}
    /\ Liberties \subseteq LibertyName

-----------------------------------------------------------------------------
(* The observer.                                                           *)

\* The step in which the module reports that the command is done.
Completes == dm.busy /\ ~dm'.busy

\* A resume with dcsr.step set leaves one instruction due; anything else
\* leaves the program free.
Ghost == [ s0 : Value, command : Command \cup {NoCommand}, entered : 0..2,
           faulted : BOOLEAN, resuming : BOOLEAN,
           stepping : {"free", "due", "ran_one", "ran_more"} ]

InitGhost == [ s0 |-> 0, command |-> NoCommand, entered |-> 0,
               faulted |-> FALSE, resuming |-> FALSE, stepping |-> "free" ]

\* The account of the single step after an instruction executed in state c.
Stepped(c, inst) ==
    CASE inst.op = "dret" -> IF c.dcsr.step THEN "due" ELSE "free"
      [] inst.op # "dret" /\ c.debug_mode -> IF cpu.debug_mode THEN "free" ELSE ghost.stepping
      [] inst.op # "dret" /\ ~c.debug_mode ->
           IF ghost.stepping = "free" THEN "free"
           ELSE IF ghost.stepping = "due" THEN "ran_one" ELSE "ran_more"

\* The observer's account of a CPU::step that executes `word'.
ObserveStep(word) ==
    LET c    == BeginStep(cpu)
        inst == Resolve(word, c, dm)
        writesUserS0 ==
            /\ inst.op = "set"
            /\ inst.reg = "s0"
            /\ ~c.debug_mode \/ (word.op = "lw_data" /\ ghost.command.regno = "s0")
        entersCode == c.debug_mode /\ c.pc = DEBUG_ROM_WHERETO
    IN  ghost' = [ghost EXCEPT
            !.s0       = IF writesUserS0 THEN inst.val ELSE @,
            !.entered  = IF entersCode /\ @ < 2 THEN @ + 1 ELSE @,
            !.faulted  = @ \/ (c.debug_mode /\ Faults(c, inst)),
            !.resuming = @ /\ word # store("RESUMING"),
            !.stepping = Stepped(c, inst)]

\* A command's account is opened when an access launches it, and closed when
\* the module reports it complete.
Opened(g, command) == [g EXCEPT !.command = command, !.entered = 0, !.faulted = FALSE]

ObserveAccess == ghost' = IF dm'.busy /\ ~dm.busy THEN Opened(ghost, dm'.command) ELSE ghost

ObserveIdle == ghost' = IF Completes THEN Opened(ghost, NoCommand) ELSE ghost

-----------------------------------------------------------------------------
(* The hart.                                                               *)

\* In debug mode the hart executes the module's memory, else the program.
Fetched(c) == IF c.pc \in DebugAddress THEN {FetchDebug(c, dm)} ELSE ProgramInst

\* cpu.step() in Core::step; the next tick may carry another access.
CoreStep ==
    /\ \E word \in Fetched(BeginStep(cpu)) :
          /\ Fetchable(BeginStep(cpu), Resolve(word, BeginStep(cpu), dm))
          /\ HartStep(word)
          /\ ObserveStep(word)
    /\ accessed' = "none"

-----------------------------------------------------------------------------
(* The debugger.  It                                                       *)
(*   - activates the module before it uses it,                             *)
(*   - asks only a halted hart to resume, at an address of the program,    *)
(*     and until the acknowledgement only polls or requests a halt,        *)
(*   - resumes or resets the hart, clears cmderr and deactivates the       *)
(*     module only when it has seen busy clear,                            *)
(*   - raises one reset line at a time, without a halt request,            *)
(*   - fills the program buffer with words that stay in it.                *)
(* It does use the command, data and program buffer registers while a      *)
(* command executes.                                                       *)

May(liberty) == liberty \in Liberties

Acknowledged == "RESUME" \notin dm.debug_rom_flags
Idle == Acknowledged /\ ~dm.busy

\* At most one DMI access reaches the module between two CPU steps.
Access(registers, op) == accessed = "none" /\ op /\ accessed' = registers

Quiescent == [ dmactive |-> TRUE, haltreq |-> FALSE, resumereq |-> FALSE,
               hartreset |-> FALSE, ndmreset |-> FALSE, ackhavereset |-> FALSE ]

Activate ==
    /\ ~dm.dmactive
    /\ Access("control", WriteDmcontrol(Quiescent))
    /\ UNCHANGED ghost

Deactivate ==
    /\ dm.dmactive
    /\ Idle
    /\ Access("control", WriteDmcontrol([Quiescent EXCEPT !.dmactive = FALSE]))
    /\ UNCHANGED ghost

RequestHalt(on) ==
    /\ dm.dmactive
    /\ Access("control", WriteDmcontrol([Quiescent EXCEPT !.haltreq = on]))
    /\ UNCHANGED ghost

RequestResume ==
    /\ dm.dmactive
    /\ Idle
    /\ dm.halted
    /\ cpu.dpc \notin DebugMemory
    /\ Access("control", WriteDmcontrol([Quiescent EXCEPT !.resumereq = TRUE]))
    /\ ghost' = [ghost EXCEPT !.resuming = TRUE]

ResetLine(lines, halt) ==
    /\ dm.dmactive
    /\ Idle
    /\ halt => May("halt_on_reset")
    /\ Access("control",
              WriteDmcontrol([Quiescent EXCEPT !.hartreset = "hartreset" \in lines,
                                               !.ndmreset  = "ndmreset" \in lines,
                                               !.haltreq   = halt]))
    /\ ghost' = [ghost EXCEPT !.s0 = 0, !.stepping = "free"]

IssueCommand(cmd) ==
    /\ dm.dmactive
    /\ Acknowledged
    /\ Access("abstract", WriteCommand(cmd))
    /\ ObserveAccess

UseData ==
    /\ dm.dmactive
    /\ Acknowledged
    /\ Access("abstract", ReadData \/ \E v \in Data : WriteData(v))
    /\ ObserveAccess

UseProgBuf ==
    /\ dm.dmactive
    /\ Acknowledged
    /\ Access("abstract", \E i \in 1..ProgBufSize :
                 ReadProgBuf(i) \/ \E word \in ProgBufWord : WriteProgBuf(i, word))
    /\ ObserveAccess

ClearCmderr == dm.dmactive /\ Idle /\ Access("control", WriteAbstractcs) /\ UNCHANGED ghost

SetAuto(auto) ==
    /\ dm.dmactive
    /\ Acknowledged
    /\ dm.command # NoCommand
    /\ Access("control", WriteAbstractauto(auto.data, auto.progbuf))
    /\ UNCHANGED ghost

\* The transport clocks the TAP in Run-Test/Idle.
RunTestIdle == run_test_idle /\ ObserveIdle /\ UNCHANGED accessed

-----------------------------------------------------------------------------
Debugger ==
    \/ Activate
    \/ Deactivate
    \/ \E on \in BOOLEAN : RequestHalt(on)
    \/ RequestResume
    \/ \E lines \in ResetLines, halt \in BOOLEAN : ResetLine(lines, halt)
    \/ \E cmd \in Command : IssueCommand(cmd)
    \/ UseData
    \/ UseProgBuf
    \/ ClearCmderr
    \/ \E auto \in AutoMask : SetAuto(auto)

SystemInit ==
    /\ Init
    /\ dm = InitModule
    /\ accessed = "none"
    /\ ghost = InitGhost

SystemNext == CoreStep \/ RunTestIdle \/ Debugger

SystemSpec == SystemInit /\ [][SystemNext]_vars

\* The main loop never stops calling Core::step, and a debugger that waits
\* for the module keeps clocking the transport.
FairSystemSpec == SystemSpec /\ WF_vars(CoreStep) /\ WF_vars(RunTestIdle)

-----------------------------------------------------------------------------
(* Types.                                                                  *)

ModuleState ==
    [ dmactive : BOOLEAN, haltreq : BOOLEAN,
      busy : BOOLEAN, cmderr : 0..4,
      autoexecdata : BOOLEAN, autoexecprogbuf : SUBSET (1..ProgBufSize),
      halted : BOOLEAN, resumeack : BOOLEAN, havereset : BOOLEAN,
      debug_rom_flags : SUBSET {"GO", "RESUME"},
      dmdata : Value, custom_base : Value,
      program_buffer : [1..ProgBufSize -> Instruction],
      debug_abstract : {<<>>} \cup { AbstractCode(cmd) : cmd \in Command },
      command : Command \cup {NoCommand},
      completed : BOOLEAN, rti_remaining : 0..AbstractRti ]

\* The type invariant.  Because the ROM, the abstract code and the program
\* buffer are fetched at the addresses they hold, it also says that the hart
\* never fetches a word of debug memory that no command assembled.
SystemTypeOK ==
    /\ TypeOK
    /\ dm \in ModuleState
    /\ accessed \in {"none", "abstract", "control"}
    /\ ghost \in Ghost

-----------------------------------------------------------------------------
(* Safety.                                                                 *)

\* The program finds its s0 as it left it, or as the debugger last wrote it,
\* whenever it runs: the ROM and the abstract commands borrow s0, and save it
\* in dscratch0 on every path, the one through an exception included.
ProgramS0Preserved == ~cpu.debug_mode => cpu.regs["s0"] = ghost.s0

\* What a debugger leaves alone if it wants the program to keep its s0: the
\* program buffer does not write s0 or dscratch0, no command writes dscratch0.
KeepsProgramS0 ==
    /\ \A word \in ProgBufWord : /\ ~(word.op = "set" /\ word.reg = "s0")
                                /\ ~(word.op = "csr" /\ word.csr = "dscratch0")
    /\ \A cmd \in Command : ~(cmd.transfer /\ cmd.write /\ cmd.regno = "dscratch0")

\* An accepted command enters the code assembled for it exactly once: the GO
\* flag is neither lost between the two reads of the park loop nor seen twice,
\* and busy does not clear before it was seen.
CommandRunsOnce ==
    [][ghost.entered <= 1 /\ (Completes => ghost.entered = 1)]_vars

\* While the hart executes the debugger's code the module reports busy, so a
\* debugger that waits never rewrites code or data under the hart.
BusyWhileExecuting ==
    cpu.debug_mode /\ cpu.pc \notin RomAddress => dm.busy

\* What dmstatus tells at the next access: a hart reported halted is in debug
\* mode, resets included, so a command it is given will be executed.
HaltedIsTruthful == dm.halted /\ accessed = "none" => cpu.debug_mode

\* When a register transfer has completed without an error, the data register
\* and the register it names agree; for s0 that is the program's s0, which the
\* ROM keeps in dscratch0 while it is parked.
Agrees(data, regno) ==
    CASE regno = "s0" -> data = ghost.s0
      [] regno = "s1" -> data = cpu.regs["s1"]
      [] regno \in CsrRegno -> CsrValue(regno, data) = cpu[regno]

TransferAgrees ==
    [][Completes /\ dm'.cmderr = CMDERR_NONE /\ ghost.command.transfer
        => Agrees(dm'.dmdata, ghost.command.regno)]_vars

\* A program buffer that runs after a transfer leaves its register alone.
KeepsTransferred ==
    \A cmd \in Command, word \in ProgBufWord :
        cmd.transfer /\ cmd.postexec =>
            /\ ~(word.op = "set" /\ word.reg = cmd.regno)
            /\ ~(word.op = "csr" /\ word.csr = cmd.regno)

\* A command whose code faulted is never reported as successful.
ExceptionIsReported == [][Completes /\ ghost.faulted => dm'.cmderr # CMDERR_NONE]_vars

\* A hart resumed with dcsr.step set executes one instruction of the program
\* before it is back in debug mode, and none only if a halt request came first.
SingleStepRunsOne ==
    ghost.stepping \in
        IF ~cpu.debug_mode THEN {"free", "due"}
        ELSE IF cpu.dcsr.cause = DCSR_CAUSE_DEBUGINT THEN {"free", "due"}
        ELSE {"free", "ran_one"}

\* While dmcontrol.haltreq reads 1 the halt request bit of a hart that runs is
\* set, so it will halt.
HaltRequestStands == dm.dmactive /\ dm.haltreq /\ ~cpu.debug_mode => cpu.halt_request

\* A hart resumes once for each resume request that found it halted: no stale
\* request throws the program past a breakpoint or a halt it has reached since.
ResumesOncePerRequest == [][dm.halted /\ ~dm'.halted => ghost.resuming]_vars

\* What a debugger polls is what the module holds: the words of dmstatus,
\* abstractcs and abstractauto decode to the state, whatever else their registers
\* tell at the time, and dcsr, which the hart keeps by bits.h, to its cause, step
\* and prv by debug_defines.h.
Dmi == INSTANCE DmiRegisters

RegistersTell ==
    LET halted    == Dmi!Flag(dm.halted)
        resumeack == Dmi!Flag(dm.resumeack)
        havereset == Dmi!Flag(dm.havereset)
        busy      == Dmi!Flag(dm.busy)
        cmderr    == Dmi!Bits(dm.cmderr)
        size      == Dmi!Bits(ProgBufSize)
        progbuf   == { i - 1 : i \in dm.autoexecprogbuf }
        auto      == Dmi!Flag(dm.autoexecdata)
        dcsr      == Dmi!enter_dcsr(Dmi!HartDcsr({}, Dmi!Flag(cpu.dcsr.step), {}),
                                    Dmi!Bits(cpu.dcsr.cause), Dmi!Bits(cpu.dcsr.prv))
    IN  /\ Dmi!Tells(Dmi!DMSTATUS, Dmi!read_dmstatus(halted, resumeack, havereset),
                     Dmi!StatusValues(halted, resumeack, havereset))
        /\ Dmi!Tells(Dmi!ABSTRACTCS, Dmi!read_abstractcs(busy, cmderr, size),
                     Dmi!AbstractcsValues(busy, cmderr, size))
        /\ Dmi!Tells(Dmi!ABSTRACTAUTO, Dmi!read_abstractauto(progbuf, auto),
                     [autoexecprogbuf |-> progbuf, autoexecdata |-> auto])
        /\ Dmi!get_field(dcsr, Dmi!DCSR.cause) = Dmi!Bits(cpu.dcsr.cause)
        /\ Dmi!get_field(dcsr, Dmi!DCSR.step)  = Dmi!Flag(cpu.dcsr.step)
        /\ Dmi!get_field(dcsr, Dmi!DCSR.prv)   = Dmi!Bits(cpu.dcsr.prv)

-----------------------------------------------------------------------------
(* Liveness.                                                               *)

\* busy always clears in the end.
CommandCompletes == dm.busy ~> ~dm.busy

\* A halt request that is not withdrawn halts the hart.
HaltRequestHonoured ==
    (dm.dmactive /\ dm.haltreq) ~> (dm.halted \/ ~dm.haltreq \/ ~dm.dmactive)

\* A resume request of a halted hart is acknowledged.
ResumeHonoured == ("RESUME" \in dm.debug_rom_flags) ~> dm.resumeack
=============================================================================
