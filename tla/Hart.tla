-------------------------------- MODULE Hart --------------------------------
(***************************************************************************)
(* The hart of the MLDR187 simulator (core/src/CPU.cpp): one CPU::step at  *)
(* a time, with the three mechanisms that divert it from the instruction   *)
(* stream, debug mode, traps and external interrupts.                      *)
(*                                                                         *)
(* The hart is one record, `cpu', and every function of CPU.cpp that       *)
(* changes it is an operator from records to records, composed in the      *)
(* order of the code's calls.  The same operators are used by the modules  *)
(* that put the hart together with the debug module and the interrupt      *)
(* controller.                                                             *)
(*                                                                         *)
(* What an instruction computes is abstracted: an instruction is a record  *)
(* that says how it leaves the sequential stream (it does not, it jumps,   *)
(* it faults, it is one of the system instructions) and which register or  *)
(* CSR the mechanisms below depend on it writes.                           *)
(***************************************************************************)
EXTENDS Integers

CONSTANTS
    Address,        \* addresses the program counter can hold
    Value,          \* contents of the general registers
    Inst            \* the instructions that memory may hold

VARIABLE cpu

-----------------------------------------------------------------------------
(* Addresses, privilege levels and causes.                                 *)

START_PC        == 268435456    \* 0x10000000
DEBUG_ROM_ENTRY == 2048         \* 0x800
DEBUG_ROM_TVEC  == 2056         \* 0x808

PRV_U == 0
PRV_S == 1
PRV_M == 3
Privilege == 0..3               \* dcsr.prv has two bits, so 2 can be installed

DCSR_CAUSE_SWBP     == 1
DCSR_CAUSE_DEBUGINT == 3
DCSR_CAUSE_STEP     == 4

IRQ_U_EXT == 8
IRQ_S_EXT == 9
IRQ_M_EXT == 11
Irq == 0..31                    \* bits of mip and mie

EXC_II == 2
ExceptionCode == 0..15

Reg == {"s0", "s1"}             \* s0, and s1 for every other register

-----------------------------------------------------------------------------
(* Types.  mstatus keeps the interrupt enables as the set of the levels    *)
(* whose bit is set.                                                       *)

MStatus == [ie : SUBSET {PRV_U, PRV_S, PRV_M}, pie : SUBSET {PRV_U, PRV_S, PRV_M}]
DCsr    == [cause : 0..7, prv : Privilege, step : BOOLEAN]
MCause  == [interrupt : BOOLEAN, code : Nat]

HartState ==
    [ halt_request : BOOLEAN,
      debug_mode   : BOOLEAN,
      single_step  : 0..2,
      privilege    : Privilege,
      pc           : Address,
      regs         : [Reg -> Value],
      mstatus      : MStatus,
      mtvec        : Address,
      mepc         : Address,
      mcause       : MCause,
      mie          : SUBSET Irq,
      mip          : SUBSET Irq,
      dcsr         : DCsr,
      dpc          : Address,
      dscratch0    : Value ]

\* A CSR instruction installs a value in one CSR: CSRRW any, the others a
\* value computed from the old one.
CsrWrite ==
         [op : {"csr"}, csr : {"mstatus"}, val : MStatus, len : {4}]
    \cup [op : {"csr"}, csr : {"mtvec", "mepc", "dpc"}, val : Address, len : {4}]
    \cup [op : {"csr"}, csr : {"mcause"}, val : MCause, len : {4}]
    \cup [op : {"csr"}, csr : {"mie", "mip"}, val : SUBSET Irq, len : {4}]
    \cup [op : {"csr"}, csr : {"dcsr"}, val : DCsr, len : {4}]
    \cup [op : {"csr"}, csr : {"dscratch0"}, val : Value, len : {4}]

\* "alu" stands for every instruction that falls through and writes nothing
\* modelled, "set" for one that puts a value in a register (arithmetic, a
\* load, a CSR read), "jump" for every taken branch or jump, "fault" for
\* every Exception of fetch, decode, memory access or ECALL.
Instruction ==
         [op : {"alu"}, len : {2, 4}]
    \cup [op : {"set"}, reg : Reg, val : Value, len : {2, 4}]
    \cup [op : {"jump"}, to : Address]
    \cup [op : {"fault"}, code : ExceptionCode]
    \cup [op : {"ebreak", "mret", "dret"}]
    \cup CsrWrite

ASSUME HartAssumption ==
    /\ Address \subseteq Nat
    /\ {0, START_PC, DEBUG_ROM_ENTRY, DEBUG_ROM_TVEC} \subseteq Address
    /\ 0 \in Value
    /\ Inst \subseteq Instruction

-----------------------------------------------------------------------------
(* Entering debug mode.                                                    *)

\* Mutant: the nested entry is not recognised and saves the context again.
EnterDebugMode_Resave(c, cause) ==
    [c EXCEPT !.debug_mode = TRUE,
              !.dcsr       = [@ EXCEPT !.cause = cause, !.prv = c.privilege],
              !.privilege  = PRV_M,
              !.dpc        = c.pc,
              !.pc         = DEBUG_ROM_ENTRY]

\* Mutant: the privilege level is saved and not raised.
EnterDebugMode_KeepPrivilege(c, cause) ==
    IF c.debug_mode
      THEN [c EXCEPT !.pc = DEBUG_ROM_ENTRY]
      ELSE [c EXCEPT !.debug_mode = TRUE,
                     !.dcsr       = [@ EXCEPT !.cause = cause, !.prv = c.privilege],
                     !.dpc        = c.pc,
                     !.pc         = DEBUG_ROM_ENTRY]

\* Mutant: debug mode is entered at the exception vector of the ROM.
EnterDebugMode_AtTvec(c, cause) ==
    IF c.debug_mode
      THEN [c EXCEPT !.pc = DEBUG_ROM_TVEC]
      ELSE [c EXCEPT !.debug_mode = TRUE,
                     !.dcsr       = [@ EXCEPT !.cause = cause, !.prv = c.privilege],
                     !.privilege  = PRV_M,
                     !.dpc        = c.pc,
                     !.pc         = DEBUG_ROM_TVEC]

\* A hart already in debug mode only goes back to the ROM's entry.
EnterDebugMode(c, cause) ==
    IF c.debug_mode
      THEN [c EXCEPT !.pc = DEBUG_ROM_ENTRY]
      ELSE [c EXCEPT !.debug_mode = TRUE,
                     !.dcsr       = [@ EXCEPT !.cause = cause, !.prv = c.privilege],
                     !.privilege  = PRV_M,
                     !.dpc        = c.pc,
                     !.pc         = DEBUG_ROM_ENTRY]

-----------------------------------------------------------------------------
(* Traps.                                                                  *)

\* The levels whose enable bits the current level selects: level 2 has none.
EnableMask(c) == {c.privilege} \cap {PRV_U, PRV_S, PRV_M}

\* The enable bit of the current level is moved to its previous-enable bit.
PushEnable(c) ==
    [ie  |-> c.mstatus.ie \ EnableMask(c),
     pie |-> (c.mstatus.pie \ EnableMask(c)) \cup (c.mstatus.ie \cap EnableMask(c))]

\* Mutant: the trap vector is indexed by the cause.
HandleException_Vectored(c, cause) ==
    [c EXCEPT !.mstatus = PushEnable(c),
              !.mepc    = c.pc,
              !.mcause  = cause,
              !.pc      = IF c.debug_mode THEN DEBUG_ROM_TVEC ELSE c.mtvec + 4 * cause.code]

\* In debug mode too the trap registers are overwritten; only the vector
\* differs.  The privilege level does not change.
HandleException(c, cause) ==
    [c EXCEPT !.mstatus = PushEnable(c),
              !.mepc    = c.pc,
              !.mcause  = cause,
              !.pc      = IF c.debug_mode THEN DEBUG_ROM_TVEC ELSE c.mtvec]

\* The lowest pending bit below 14; 0 when none of them is set.
SelectedInterrupt(mip) ==
    IF \E i \in mip : i < 14
      THEN CHOOSE i \in mip : \A j \in mip : i <= j
      ELSE 0

InterruptEnabled(c) ==
    /\ c.mip # {}
    /\ ~c.debug_mode
    /\ c.mstatus.ie \cap EnableMask(c) # {}

\* Mutant: the check for debug mode is missing.
TakeInterrupt_InDebug(c) ==
    IF c.mip # {} /\ c.mstatus.ie \cap EnableMask(c) # {}
      THEN [HandleException(c, [interrupt |-> TRUE, code |-> SelectedInterrupt(c.mip)])
              EXCEPT !.mip = {}]
      ELSE c

\* Mutant: the pending bits stay set.
TakeInterrupt_KeepPending(c) ==
    IF InterruptEnabled(c)
      THEN HandleException(c, [interrupt |-> TRUE, code |-> SelectedInterrupt(c.mip)])
      ELSE c

\* The interrupt is taken after an instruction that completes; every other
\* pending bit is dropped with it.
TakeInterrupt(c) ==
    IF InterruptEnabled(c)
      THEN [HandleException(c, [interrupt |-> TRUE, code |-> SelectedInterrupt(c.mip)])
              EXCEPT !.mip = {}]
      ELSE c

-----------------------------------------------------------------------------
(* Instructions.  The code subtracts the instruction's length in a handler *)
(* that sets pc and CPU::execute adds it back: here pc gets the result.    *)

\* Mutant: the step that executes the dret itself is counted.
ExecuteDRET_NoDelay(c) ==
    [c EXCEPT !.pc = c.dpc, !.privilege = c.dcsr.prv, !.debug_mode = FALSE,
              !.single_step = IF c.dcsr.step THEN 1 ELSE @]

ExecuteDRET(c) ==
    [c EXCEPT !.pc          = c.dpc,
              !.privilege   = c.dcsr.prv,
              !.debug_mode  = FALSE,
              !.single_step = IF c.dcsr.step THEN 2 ELSE @]

\* mpie is left as it is and the privilege level is not restored.
ExecuteMRET(c) ==
    [c EXCEPT !.pc      = c.mepc,
              !.mstatus = [@ EXCEPT !.ie = c.mstatus.ie \cup (c.mstatus.pie \cap EnableMask(c))]]

Faults(c, inst) == inst.op = "fault" \/ (inst.op = "dret" /\ ~c.debug_mode)
FaultCode(inst) == IF inst.op = "fault" THEN inst.code ELSE EXC_II

FallsThrough(inst) == inst.op \in {"alu", "set", "csr"}

\* The handlers of execute_op, and pc += 4 >> is_c_ext after them.
Execute(c, inst) ==
    CASE inst.op = "alu"    -> [c EXCEPT !.pc = @ + inst.len]
      [] inst.op = "set"    -> [c EXCEPT !.pc = @ + inst.len, !.regs[inst.reg] = inst.val]
      [] inst.op = "csr"    -> [c EXCEPT !.pc = @ + inst.len, ![inst.csr] = inst.val]
      [] inst.op = "jump"   -> [c EXCEPT !.pc = inst.to]
      [] inst.op = "ebreak" -> EnterDebugMode(c, DCSR_CAUSE_SWBP)
      [] inst.op = "mret"   -> ExecuteMRET(c)
      [] inst.op = "dret"   -> ExecuteDRET(c)

-----------------------------------------------------------------------------
(* CPU::step: honour a halt request, run one instruction, account for      *)
(* single stepping.                                                        *)

BeginStep(c) ==
    IF ~c.debug_mode /\ c.halt_request
      THEN EnterDebugMode(c, DCSR_CAUSE_DEBUGINT)
      ELSE c

RunInstruction(c, inst) ==
    IF Faults(c, inst)
      THEN HandleException(c, [interrupt |-> FALSE, code |-> FaultCode(inst)])
      ELSE TakeInterrupt(Execute(c, inst))

\* Mutant: single_step is not cleared when it expires.
EndStep_KeepArmed(c) ==
    IF c.single_step = 1
      THEN EnterDebugMode(c, DCSR_CAUSE_STEP)
      ELSE [c EXCEPT !.single_step = IF @ > 1 THEN @ - 1 ELSE @]

EndStep(c) ==
    IF c.single_step = 1
      THEN [EnterDebugMode(c, DCSR_CAUSE_STEP) EXCEPT !.single_step = 0]
      ELSE [c EXCEPT !.single_step = IF @ > 1 THEN @ - 1 ELSE @]

StepEffect(c, inst) == EndStep(RunInstruction(BeginStep(c), inst))

-----------------------------------------------------------------------------
(* CPU::reset and CPU::raise_ext_interrupt.                                *)

\* What CPU::reset and the calls in it install.
ResetState ==
    [ halt_request |-> FALSE,
      debug_mode   |-> FALSE,
      single_step  |-> 0,
      privilege    |-> PRV_M,
      pc           |-> START_PC,
      regs         |-> [r \in Reg |-> 0],
      mstatus      |-> [ie |-> {}, pie |-> {}],
      mtvec        |-> 0,
      mepc         |-> 0,
      mcause       |-> [interrupt |-> FALSE, code |-> 0],
      mie          |-> {},
      mip          |-> {},
      dcsr         |-> [cause |-> 0, prv |-> PRV_U, step |-> FALSE],
      dpc          |-> 0,
      dscratch0    |-> 0 ]

\* Mutant: a hart reset in debug mode starts to run.
ResetHart_NoRehalt(c) == ResetState

\* A hart reset out of debug mode comes back with a halt request.
ResetHart(c) == [ResetState EXCEPT !.halt_request = c.debug_mode]

\* Mutant: machine level gets the supervisor's interrupt.
ExternalIrq_Swapped(c) ==
    IF c.privilege = PRV_U THEN {IRQ_U_EXT} ELSE {IRQ_S_EXT}

\* The external interrupt of the current privilege level, if mie admits it.
ExternalIrq(c) ==
    CASE c.privilege = PRV_U -> {IRQ_U_EXT}
      [] c.privilege = PRV_S -> {IRQ_S_EXT}
      [] c.privilege = PRV_M -> {IRQ_M_EXT}
      [] OTHER               -> {}

RaiseExt(c) == [c EXCEPT !.mip = @ \cup (c.mie \cap ExternalIrq(c))]

-----------------------------------------------------------------------------
(* The hart in an environment that feeds it instructions, raises the       *)
(* external interrupt, requests halts and resets it.                       *)

\* Core::reset at start-up: the debug module's reset has cleared
\* halt_request, and debug_mode is still its initial false.
Init == cpu = ResetState

\* Bound: an instruction that would fall through to an address outside
\* Address is not fetched.
Fetchable(c, inst) == FallsThrough(inst) => c.pc + inst.len \in Address

Step(inst) ==
    /\ Fetchable(BeginStep(cpu), inst)
    /\ cpu' = StepEffect(cpu, inst)

RaiseExtInterrupt == cpu' = RaiseExt(cpu)

\* The debug module copies dmcontrol.haltreq.
SetHaltRequest(b) == cpu' = [cpu EXCEPT !.halt_request = b]

Reset == cpu' = ResetHart(cpu)

Next ==
    \/ \E inst \in Inst : Step(inst)
    \/ RaiseExtInterrupt
    \/ \E b \in BOOLEAN : SetHaltRequest(b)
    \/ Reset

Spec == Init /\ [][Next]_cpu

-----------------------------------------------------------------------------
(* Properties.                                                             *)

\* The type invariant.
TypeOK == cpu \in HartState

\* Between two calls of CPU::step an armed single step belongs to a hart that
\* runs the program: however the step that armed it, the halt request and the
\* ebreak that can race with its expiry fall, debug mode is never entered with
\* a step left over that would throw the ROM back to its entry later.
ArmedStepRunsProgram ==
    cpu.single_step # 0 => cpu.single_step = 1 /\ ~cpu.debug_mode

\* The debug ROM and the program buffer always run at machine level, whatever
\* the level that was interrupted and whichever way debug mode was entered.
DebugRunsInMachineMode == cpu.debug_mode => cpu.privilege = PRV_M

\* What the debugger reads of the interrupted program (dpc and dcsr.cause,
\* dcsr.prv) is saved once: no ebreak, exception, halt request or expiring
\* step inside the session overwrites it, only a CSR instruction that names
\* the register does.
SessionKeeps(field, csr) ==
    cpu.debug_mode /\ cpu'.debug_mode /\ cpu'[field] # cpu[field]
        => \E inst \in Inst : inst.op = "csr" /\ inst.csr = csr /\ Step(inst)

DebugContextSavedOnce == [][SessionKeeps("dpc", "dpc") /\ SessionKeeps("dcsr", "dcsr")]_cpu

\* An interrupt that becomes pending while the debugger has the hart is still
\* pending when the program resumes: within a session mip only grows, unless
\* a CSR instruction writes it.
PendingSurvivesSession ==
    [][cpu.debug_mode /\ cpu'.debug_mode /\ ~(cpu.mip \subseteq cpu'.mip)
        => \E inst \in Inst : inst.op = "csr" /\ inst.csr = "mip" /\ Step(inst)]_cpu
=============================================================================
