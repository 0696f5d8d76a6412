----------------------------- MODULE HartProofs -----------------------------
(***************************************************************************)
(* The invariants and action properties of Hart, proved for every program, *)
(* every set of addresses and every content of debug memory.               *)
(***************************************************************************)
EXTENDS Hart, TLAPS, WellFoundedInduction

\* The addresses the debug and trap mechanisms send the hart to exist.
LEMMA FixedAddresses ==
    /\ START_PC \in Address
    /\ DEBUG_ROM_ENTRY \in Address
    /\ DEBUG_ROM_TVEC \in Address
    /\ 0 \in Address
    /\ Address \subseteq Nat
  BY HartAssumption

-----------------------------------------------------------------------------
(* Each function of CPU.cpp keeps the hart's type.                         *)

LEMMA EnterDebugModeType ==
    ASSUME NEW c \in HartState, NEW cause \in 0..7
    PROVE  EnterDebugMode(c, cause) \in HartState
<1>1. PRV_M \in Privilege
  BY DEF PRV_M, Privilege
<1>2. [c.dcsr EXCEPT !.cause = cause, !.prv = c.privilege] \in DCsr
  <2>1. c.dcsr \in DCsr /\ c.privilege \in Privilege
    BY DEF HartState
  <2> QED
    BY <2>1 DEF DCsr
<1>3. CASE c.debug_mode
  BY <1>3, FixedAddresses DEF EnterDebugMode, HartState
<1>4. CASE ~c.debug_mode
  BY <1>1, <1>2, <1>4, FixedAddresses DEF EnterDebugMode, HartState
<1> QED
  BY <1>3, <1>4

LEMMA HandleExceptionType ==
    ASSUME NEW c \in HartState, NEW cause \in MCause
    PROVE  HandleException(c, cause) \in HartState
<1>1. PushEnable(c) \in MStatus
  <2>1. c.mstatus \in MStatus
    BY DEF HartState
  <2> QED
    BY <2>1 DEF PushEnable, EnableMask, MStatus
<1>2. CASE c.debug_mode
  BY <1>1, <1>2, FixedAddresses DEF HandleException, HartState
<1>3. CASE ~c.debug_mode
  BY <1>1, <1>3 DEF HandleException, HartState
<1> QED
  BY <1>2, <1>3

\* Every non-empty set of naturals has a least element.
LEMMA LeastElement ==
    ASSUME NEW S \in SUBSET Nat, S # {}
    PROVE  \E i \in S : \A j \in S : i <= j
<1> DEFINE R == OpToRel(<, Nat)
<1>1. IsWellFoundedOn(R, Nat)
  BY NatLessThanWellFounded
<1>2. ASSUME NEW x \in Nat, NEW y \in Nat, ~ (<<y, x>> \in R)
      PROVE  x <= y
  <2>1. CASE y < x
    BY <1>2, <2>1, Zenon DEF OpToRel
  <2>2. CASE ~(y < x)
    BY <2>2
  <2> QED
    BY <2>1, <2>2
<1> HIDE DEF R
<1>3. PICK x \in S : \A y \in S : ~ (<<y, x>> \in R)
  BY <1>1, WFMin
<1>4. \A y \in S : x <= y
  BY <1>2, <1>3
<1> QED
  BY <1>4

LEMMA SelectedInterruptType ==
    ASSUME NEW mip \in SUBSET Irq
    PROVE  SelectedInterrupt(mip) \in Nat
<1>1. mip \in SUBSET Nat
  BY DEF Irq
<1>2. CASE \E i \in mip : i < 14
  <2>1. \E i \in mip : \A j \in mip : i <= j
    BY <1>1, <1>2, LeastElement
  <2> QED
    BY <1>1, <1>2, <2>1 DEF SelectedInterrupt
<1>3. CASE ~ \E i \in mip : i < 14
  BY <1>3 DEF SelectedInterrupt
<1> QED
  BY <1>2, <1>3

LEMMA TakeInterruptType ==
    ASSUME NEW c \in HartState
    PROVE  TakeInterrupt(c) \in HartState
<1> DEFINE cause == [interrupt |-> TRUE, code |-> SelectedInterrupt(c.mip)]
<1>1. cause \in MCause
  BY SelectedInterruptType DEF HartState, MCause
<1>2. HandleException(c, cause) \in HartState
  BY <1>1, HandleExceptionType
<1> HIDE DEF cause
<1>3. [HandleException(c, cause) EXCEPT !.mip = {}] \in HartState
  BY <1>2 DEF HartState
<1> QED
  BY <1>3 DEF TakeInterrupt, cause

\* A CSR instruction installs a value of the CSR it names.
LEMMA WriteCsrType ==
    ASSUME NEW c \in HartState, NEW inst \in CsrWrite
    PROVE  [c EXCEPT ![inst.csr] = inst.val] \in HartState
<1>1. CASE inst.csr = "mstatus" /\ inst.val \in MStatus
  BY <1>1 DEF HartState
<1>2. CASE inst.csr = "mtvec" /\ inst.val \in Address
  BY <1>2 DEF HartState
<1>3. CASE inst.csr = "mepc" /\ inst.val \in Address
  BY <1>3 DEF HartState
<1>4. CASE inst.csr = "dpc" /\ inst.val \in Address
  BY <1>4 DEF HartState
<1>5. CASE inst.csr = "mcause" /\ inst.val \in MCause
  BY <1>5 DEF HartState
<1>6. CASE inst.csr = "mie" /\ inst.val \in SUBSET Irq
  BY <1>6 DEF HartState
<1>7. CASE inst.csr = "mip" /\ inst.val \in SUBSET Irq
  BY <1>7 DEF HartState
<1>8. CASE inst.csr = "dcsr" /\ inst.val \in DCsr
  BY <1>8 DEF HartState
<1>9. CASE inst.csr = "dscratch0" /\ inst.val \in Value
  BY <1>9 DEF HartState
<1> QED
  BY <1>1, <1>2, <1>3, <1>4, <1>5, <1>6, <1>7, <1>8, <1>9 DEF CsrWrite

\* The bound on Step keeps pc in Address; every other target is a register
\* or a constant of the debug mechanism.
LEMMA ExecuteType ==
    ASSUME NEW c \in HartState, NEW inst \in Instruction,
           ~Faults(c, inst), FallsThrough(inst) => c.pc + inst.len \in Address
    PROVE  Execute(c, inst) \in HartState
<1>1. CASE inst.op = "alu"
  BY <1>1 DEF Execute, FallsThrough, HartState
<1>2. CASE inst.op = "set"
  <2>1. inst.reg \in Reg /\ inst.val \in Value
    BY <1>2 DEF Instruction, CsrWrite
  <2>2. [c.regs EXCEPT ![inst.reg] = inst.val] \in [Reg -> Value]
    BY <2>1 DEF HartState
  <2>3. Execute(c, inst) = [c EXCEPT !.pc = c.pc + inst.len,
                                     !.regs = [c.regs EXCEPT ![inst.reg] = inst.val]]
    BY <1>2 DEF Execute
  <2> QED
    BY <1>2, <2>2, <2>3 DEF FallsThrough, HartState
<1>3. CASE inst.op = "csr"
  <2> DEFINE d == [c EXCEPT !.pc = c.pc + inst.len]
  <2>1. d \in HartState
    BY <1>3 DEF FallsThrough, HartState
  <2>2. inst \in CsrWrite
    BY <1>3 DEF Instruction
  <2>3. Execute(c, inst) = [d EXCEPT ![inst.csr] = inst.val]
    BY <1>3 DEF Execute
  <2> HIDE DEF d
  <2> QED
    BY <2>1, <2>2, <2>3, WriteCsrType
<1>4. CASE inst.op = "jump"
  <2>1. inst.to \in Address
    BY <1>4 DEF Instruction, CsrWrite
  <2> QED
    BY <1>4, <2>1 DEF Execute, HartState
<1>5. CASE inst.op = "ebreak"
  BY <1>5, EnterDebugModeType DEF Execute, DCSR_CAUSE_SWBP
<1>6. CASE inst.op = "mret"
  <2>1. c.mstatus \in MStatus /\ c.mepc \in Address
    BY DEF HartState
  <2>2. [c.mstatus EXCEPT !.ie = c.mstatus.ie \cup (c.mstatus.pie \cap EnableMask(c))] \in MStatus
    BY <2>1 DEF MStatus, EnableMask
  <2> QED
    BY <1>6, <2>1, <2>2 DEF Execute, ExecuteMRET, HartState
<1>7. CASE inst.op = "dret"
  <2>1. c.dcsr.prv \in Privilege /\ c.dpc \in Address
    BY DEF HartState, DCsr
  <2> DEFINE left == IF c.dcsr.step THEN 2 ELSE c.single_step
             prv == c.dcsr.prv
  <2>2. left \in 0..2 /\ prv \in Privilege
    BY <2>1 DEF HartState
  <2>3. Execute(c, inst) = [c EXCEPT !.pc = c.dpc, !.privilege = prv,
                                     !.debug_mode = FALSE, !.single_step = left]
    BY <1>7 DEF Execute, ExecuteDRET
  <2> HIDE DEF left, prv
  <2> QED
    BY <2>1, <2>2, <2>3 DEF HartState
<1> QED
  BY <1>1, <1>2, <1>3, <1>4, <1>5, <1>6, <1>7 DEF Instruction, CsrWrite, Faults

LEMMA BeginStepType ==
    ASSUME NEW c \in HartState
    PROVE  BeginStep(c) \in HartState
  BY EnterDebugModeType DEF BeginStep, DCSR_CAUSE_DEBUGINT

LEMMA RunInstructionType ==
    ASSUME NEW c \in HartState, NEW inst \in Instruction,
           FallsThrough(inst) => c.pc + inst.len \in Address
    PROVE  RunInstruction(c, inst) \in HartState
<1>1. CASE Faults(c, inst)
  <2>1. FaultCode(inst) \in Nat
    BY DEF FaultCode, EXC_II, Instruction, CsrWrite, ExceptionCode
  <2>2. [interrupt |-> FALSE, code |-> FaultCode(inst)] \in MCause
    BY <2>1 DEF MCause
  <2> QED
    BY <1>1, <2>2, HandleExceptionType DEF RunInstruction
<1>2. CASE ~Faults(c, inst)
  BY <1>2, ExecuteType, TakeInterruptType DEF RunInstruction
<1> QED
  BY <1>1, <1>2

LEMMA EndStepType ==
    ASSUME NEW c \in HartState
    PROVE  EndStep(c) \in HartState
<1>1. CASE c.single_step = 1
  <2> DEFINE d == EnterDebugMode(c, DCSR_CAUSE_STEP)
  <2>1. d \in HartState
    BY EnterDebugModeType DEF DCSR_CAUSE_STEP
  <2> HIDE DEF d
  <2>2. [d EXCEPT !.single_step = 0] \in HartState
    BY <2>1 DEF HartState
  <2> QED
    BY <1>1, <2>2 DEF EndStep, d
<1>2. CASE c.single_step # 1
  BY <1>2 DEF EndStep, HartState
<1> QED
  BY <1>1, <1>2

LEMMA StepEffectType ==
    ASSUME NEW c \in HartState, NEW inst \in Instruction, Fetchable(BeginStep(c), inst)
    PROVE  StepEffect(c, inst) \in HartState
  BY BeginStepType, RunInstructionType, EndStepType DEF StepEffect, Fetchable

LEMMA ResetStateType == ResetState \in HartState
<1>1. PRV_M \in Privilege /\ PRV_U \in Privilege
  BY DEF PRV_M, PRV_U, Privilege
<1>2. [ie |-> {}, pie |-> {}] \in MStatus
  BY DEF MStatus
<1>3. [interrupt |-> FALSE, code |-> 0] \in MCause
  BY DEF MCause
<1>4. [cause |-> 0, prv |-> PRV_U, step |-> FALSE] \in DCsr
  BY <1>1 DEF DCsr
<1>5. [r \in Reg |-> 0] \in [Reg -> Value] /\ 0 \in Value
  BY HartAssumption
<1> QED
  BY <1>1, <1>2, <1>3, <1>4, <1>5, FixedAddresses DEF ResetState, HartState

LEMMA ResetHartType ==
    ASSUME NEW c \in HartState
    PROVE  ResetHart(c) \in HartState
  BY ResetStateType DEF ResetHart, HartState

LEMMA RaiseExtType ==
    ASSUME NEW c \in HartState
    PROVE  RaiseExt(c) \in HartState
<1>1. c.mip \cup (c.mie \cap ExternalIrq(c)) \in SUBSET Irq
  BY DEF HartState
<1> QED
  BY <1>1 DEF RaiseExt, HartState

-----------------------------------------------------------------------------
(* What the pieces of a step leave alone.                                  *)

\* A trap changes neither the privilege level nor anything of debug mode.
LEMMA HandleExceptionFrame ==
    ASSUME NEW c \in HartState, NEW cause
    PROVE  LET t == HandleException(c, cause)
           IN  /\ t.debug_mode = c.debug_mode
               /\ t.single_step = c.single_step
               /\ t.privilege = c.privilege
               /\ t.dpc = c.dpc
               /\ t.dcsr = c.dcsr
               /\ t.mip = c.mip
  BY DEF HandleException, HartState

LEMMA TakeInterruptFrame ==
    ASSUME NEW c \in HartState
    PROVE  LET t == TakeInterrupt(c)
           IN  /\ t.debug_mode = c.debug_mode
               /\ t.single_step = c.single_step
               /\ t.privilege = c.privilege
               /\ t.dpc = c.dpc
               /\ t.dcsr = c.dcsr
               /\ c.debug_mode => t.mip = c.mip
<1> DEFINE h == HandleException(c, [interrupt |-> TRUE, code |-> SelectedInterrupt(c.mip)])
<1>1. h \in HartState
  <2>1. [interrupt |-> TRUE, code |-> SelectedInterrupt(c.mip)] \in MCause
    BY SelectedInterruptType DEF HartState, MCause
  <2> QED
    BY <2>1, HandleExceptionType
<1>2. /\ h.debug_mode = c.debug_mode
      /\ h.single_step = c.single_step
      /\ h.privilege = c.privilege
      /\ h.dpc = c.dpc
      /\ h.dcsr = c.dcsr
  BY HandleExceptionFrame
<1>3. TakeInterrupt(c) = IF InterruptEnabled(c) THEN [h EXCEPT !.mip = {}] ELSE c
  BY DEF TakeInterrupt
<1> HIDE DEF h
<1>4. CASE InterruptEnabled(c)
  BY <1>1, <1>2, <1>3, <1>4 DEF InterruptEnabled, HartState
<1>5. CASE ~InterruptEnabled(c)
  BY <1>3, <1>5
<1> QED
  BY <1>4, <1>5

LEMMA EnterDebugModeFrame ==
    ASSUME NEW c \in HartState, NEW cause
    PROVE  LET t == EnterDebugMode(c, cause)
           IN  /\ t.debug_mode
               /\ t.single_step = c.single_step
               /\ t.privilege = IF c.debug_mode THEN c.privilege ELSE PRV_M
               /\ t.mip = c.mip
               /\ c.debug_mode => t.dpc = c.dpc /\ t.dcsr = c.dcsr
  BY DEF EnterDebugMode, HartState

\* An instruction other than ebreak and dret changes nothing of debug mode but
\* the CSR it names.
LEMMA ExecuteFrame ==
    ASSUME NEW c \in HartState, NEW inst \in Instruction,
           ~Faults(c, inst), inst.op \notin {"ebreak", "dret"}
    PROVE  LET t == Execute(c, inst)
           IN  /\ t.debug_mode = c.debug_mode
               /\ t.single_step = c.single_step
               /\ t.privilege = c.privilege
               /\ ~(inst.op = "csr" /\ inst.csr = "dpc") => t.dpc = c.dpc
               /\ ~(inst.op = "csr" /\ inst.csr = "dcsr") => t.dcsr = c.dcsr
               /\ ~(inst.op = "csr" /\ inst.csr = "mip") => t.mip = c.mip
<1>1. CASE inst.op = "alu"
  BY <1>1 DEF Execute, HartState
<1>2. CASE inst.op = "set"
  <2>1. Execute(c, inst) = [c EXCEPT !.pc = c.pc + inst.len,
                                     !.regs = [c.regs EXCEPT ![inst.reg] = inst.val]]
    BY <1>2 DEF Execute
  <2> QED
    BY <2>1 DEF HartState
<1>3. CASE inst.op = "csr"
  <2>1. inst \in CsrWrite
    BY <1>3 DEF Instruction
  <2>2. inst.csr \notin {"debug_mode", "single_step", "privilege"}
    BY <2>1 DEF CsrWrite
  <2>3. Execute(c, inst) = [c EXCEPT !.pc = c.pc + inst.len, ![inst.csr] = inst.val]
    BY <1>3 DEF Execute
  <2> QED
    BY <1>3, <2>2, <2>3 DEF HartState
<1>4. CASE inst.op = "jump"
  BY <1>4 DEF Execute, HartState
<1>5. CASE inst.op = "mret"
  <2> DEFINE m == [c.mstatus EXCEPT !.ie = c.mstatus.ie \cup (c.mstatus.pie \cap EnableMask(c))]
  <2>1. Execute(c, inst) = [c EXCEPT !.pc = c.mepc, !.mstatus = m]
    BY <1>5 DEF Execute, ExecuteMRET
  <2> HIDE DEF m
  <2> QED
    BY <2>1 DEF HartState
<1> QED
  BY <1>1, <1>2, <1>3, <1>4, <1>5 DEF Instruction, CsrWrite, Faults

LEMMA ExecuteDRETFrame ==
    ASSUME NEW c \in HartState
    PROVE  LET t == ExecuteDRET(c)
           IN  /\ ~t.debug_mode
               /\ t.single_step \in {2, c.single_step}
<1> DEFINE left == IF c.dcsr.step THEN 2 ELSE c.single_step
           prv == c.dcsr.prv
<1>1. ExecuteDRET(c) = [c EXCEPT !.pc = c.dpc, !.privilege = prv,
                                 !.debug_mode = FALSE, !.single_step = left]
  BY DEF ExecuteDRET
<1>2. left \in {2, c.single_step}
  OBVIOUS
<1> HIDE DEF left, prv
<1> QED
  BY <1>1, <1>2 DEF HartState

\* An instruction that completes in debug mode stays there, or leaves by dret;
\* one outside enters it by ebreak only.  A step is armed by dret only.
LEMMA RunInstructionArms ==
    ASSUME NEW c \in HartState, c.single_step \in {0, 1}, c.debug_mode => c.privilege = PRV_M,
           NEW inst \in Instruction, FallsThrough(inst) => c.pc + inst.len \in Address
    PROVE  LET t == RunInstruction(c, inst)
           IN  /\ t.single_step \in {2, c.single_step}
               /\ t.single_step = 2 => ~t.debug_mode
               /\ t.debug_mode => t.privilege = PRV_M
<1> DEFINE e == Execute(c, inst)
           P(t) == /\ t.single_step \in {2, c.single_step}
                   /\ t.single_step = 2 => ~t.debug_mode
                   /\ t.debug_mode => t.privilege = PRV_M
<1>1. CASE Faults(c, inst)
  BY <1>1, HandleExceptionFrame DEF RunInstruction
<1>2. CASE ~Faults(c, inst)
  <2>1. e \in HartState
    BY <1>2, ExecuteType
  <2>2. P(e)
    <3>1. CASE inst.op = "ebreak"
      <4>1. e = EnterDebugMode(c, DCSR_CAUSE_SWBP)
        BY <3>1 DEF Execute
      <4> QED
        BY <4>1, EnterDebugModeFrame
    <3>2. CASE inst.op = "dret"
      <4>1. e = ExecuteDRET(c)
        BY <3>2 DEF Execute
      <4> HIDE DEF e
      <4> QED
        BY <4>1, ExecuteDRETFrame
    <3>3. CASE inst.op \notin {"ebreak", "dret"}
      BY <1>2, <3>3, ExecuteFrame
    <3> QED
      BY <3>1, <3>2, <3>3
  <2>3. RunInstruction(c, inst) = TakeInterrupt(e)
    BY <1>2 DEF RunInstruction
  <2> HIDE DEF e
  <2> QED
    BY <2>1, <2>2, <2>3, TakeInterruptFrame
<1> QED
  BY <1>1, <1>2

-----------------------------------------------------------------------------
(* The inductive invariant.  The type and the two invariants of Hart are    *)
(* inductive only together: an armed step is harmless because the step that *)
(* expires it finds the hart running, and the privilege level in debug mode *)
(* is kept only by steps that cannot leave and enter it at once.            *)

IInv == TypeOK /\ ArmedStepRunsProgram /\ DebugRunsInMachineMode

LEMMA IInvInit == Init => IInv
<1>1. SUFFICES ASSUME Init
               PROVE  IInv
  OBVIOUS
<1>2. TypeOK
  BY <1>1, ResetStateType DEF Init, TypeOK
<1>3. cpu.single_step = 0 /\ ~cpu.debug_mode
  BY <1>1 DEF Init, ResetState
<1> QED
  BY <1>2, <1>3 DEF IInv, ArmedStepRunsProgram, DebugRunsInMachineMode

\* One CPU::step: the type, the step that is armed, the privilege level.
LEMMA IInvStep ==
    ASSUME IInv, NEW inst \in Inst, Step(inst)
    PROVE  IInv'
<1> DEFINE b == BeginStep(cpu)
           r == RunInstruction(b, inst)
<1>1. cpu \in HartState /\ inst \in Instruction
  BY HartAssumption DEF IInv, TypeOK
<1>2. FallsThrough(inst) => b.pc + inst.len \in Address
  BY DEF Step, Fetchable
<1>3. b \in HartState
  BY <1>1, BeginStepType
<1>4. b.single_step \in {0, 1} /\ (b.debug_mode => b.privilege = PRV_M)
  <2>1. cpu.single_step \in {0, 1} /\ (cpu.debug_mode => cpu.privilege = PRV_M)
    BY <1>1 DEF IInv, ArmedStepRunsProgram, DebugRunsInMachineMode, HartState
  <2>2. CASE ~cpu.debug_mode /\ cpu.halt_request
    <3>1. b = EnterDebugMode(cpu, DCSR_CAUSE_DEBUGINT)
      BY <2>2 DEF BeginStep
    <3> QED
      BY <1>1, <2>1, <2>2, <3>1, EnterDebugModeFrame
  <2>3. CASE ~(~cpu.debug_mode /\ cpu.halt_request)
    BY <2>1, <2>3 DEF BeginStep
  <2> QED
    BY <2>2, <2>3
<1> HIDE DEF b
<1>5. r \in HartState
  BY <1>1, <1>2, <1>3, RunInstructionType
<1>6. /\ r.single_step \in {0, 1, 2}
      /\ r.single_step = 2 => ~r.debug_mode
      /\ r.debug_mode => r.privilege = PRV_M
  BY <1>1, <1>2, <1>3, <1>4, RunInstructionArms
<1>7. cpu' = EndStep(r)
  BY DEF Step, StepEffect, b
<1> HIDE DEF r
<1>8. TypeOK'
  BY <1>5, <1>7, EndStepType DEF TypeOK
<1>9. (cpu'.single_step # 0 => cpu'.single_step = 1 /\ ~cpu'.debug_mode)
      /\ (cpu'.debug_mode => cpu'.privilege = PRV_M)
  <2>1. CASE r.single_step = 1
    <3> DEFINE d == EnterDebugMode(r, DCSR_CAUSE_STEP)
    <3>1. d \in HartState
      BY <1>5, EnterDebugModeType DEF DCSR_CAUSE_STEP
    <3>2. d.debug_mode /\ d.privilege = PRV_M
      BY <1>5, <1>6, EnterDebugModeFrame
    <3>3. cpu' = [d EXCEPT !.single_step = 0]
      BY <1>7, <2>1 DEF EndStep
    <3> HIDE DEF d
    <3> QED
      BY <3>1, <3>2, <3>3 DEF HartState
  <2>2. CASE r.single_step = 2
    <3>1. cpu' = [r EXCEPT !.single_step = 1]
      BY <1>7, <2>2 DEF EndStep
    <3> QED
      BY <1>5, <1>6, <2>2, <3>1 DEF HartState
  <2>3. CASE r.single_step = 0
    <3>1. cpu' = [r EXCEPT !.single_step = 0]
      BY <1>7, <2>3 DEF EndStep
    <3> QED
      BY <1>5, <1>6, <2>3, <3>1 DEF HartState
  <2> QED
    BY <1>6, <2>1, <2>2, <2>3
<1> QED
  BY <1>8, <1>9 DEF IInv, ArmedStepRunsProgram, DebugRunsInMachineMode

LEMMA IInvNext == IInv /\ [Next]_cpu => IInv'
<1> SUFFICES ASSUME IInv, [Next]_cpu
             PROVE  IInv'
  OBVIOUS
<1>1. cpu \in HartState
  BY DEF IInv, TypeOK
<1>2. CASE \E inst \in Inst : Step(inst)
  BY <1>2, IInvStep
<1>3. CASE RaiseExtInterrupt
  <2>1. cpu' \in HartState
    BY <1>1, <1>3, RaiseExtType DEF RaiseExtInterrupt
  <2>2. /\ cpu'.debug_mode = cpu.debug_mode
        /\ cpu'.single_step = cpu.single_step
        /\ cpu'.privilege = cpu.privilege
    BY <1>1, <1>3 DEF RaiseExtInterrupt, RaiseExt, HartState
  <2> QED
    BY <2>1, <2>2 DEF IInv, TypeOK, ArmedStepRunsProgram, DebugRunsInMachineMode
<1>4. CASE \E b \in BOOLEAN : SetHaltRequest(b)
  <2>1. PICK b \in BOOLEAN : cpu' = [cpu EXCEPT !.halt_request = b]
    BY <1>4 DEF SetHaltRequest
  <2>2. cpu' \in HartState
    BY <1>1, <2>1 DEF HartState
  <2>3. /\ cpu'.debug_mode = cpu.debug_mode
        /\ cpu'.single_step = cpu.single_step
        /\ cpu'.privilege = cpu.privilege
    BY <1>1, <2>1 DEF HartState
  <2> QED
    BY <2>2, <2>3 DEF IInv, TypeOK, ArmedStepRunsProgram, DebugRunsInMachineMode
<1>5. CASE Reset
  <2>1. cpu' \in HartState
    BY <1>1, <1>5, ResetHartType DEF Reset
  <2>2. cpu'.single_step = 0 /\ ~cpu'.debug_mode
    BY <1>5 DEF Reset, ResetHart, ResetState
  <2> QED
    BY <2>1, <2>2 DEF IInv, TypeOK, ArmedStepRunsProgram, DebugRunsInMachineMode
<1>6. CASE UNCHANGED cpu
  BY <1>6 DEF IInv, TypeOK, ArmedStepRunsProgram, DebugRunsInMachineMode
<1> QED
  BY <1>2, <1>3, <1>4, <1>5, <1>6 DEF Next

-----------------------------------------------------------------------------
(* Theorems.                                                               *)

THEOREM Invariant == Spec => []IInv
<1> QED
  BY IInvInit, IInvNext, PTL DEF Spec

\* The registers of CPU.h keep their types in every behaviour of CPU.cpp.
THEOREM TypeCorrect == Spec => []TypeOK
  BY Invariant, PTL DEF IInv

\* Whatever program runs and whenever halts are requested, a single step that
\* is still armed between two steps belongs to a running hart (CPU::step,
\* CPU::enter_debug_mode, CPU::execute_DRET).
THEOREM ArmedStep == Spec => []ArmedStepRunsProgram
  BY Invariant, PTL DEF IInv

\* Debug mode implies machine level (CPU::enter_debug_mode, CPU::step).
THEOREM DebugPrivilege == Spec => []DebugRunsInMachineMode
  BY Invariant, PTL DEF IInv

-----------------------------------------------------------------------------
(* The action properties: what a step that begins and ends in debug mode   *)
(* leaves alone.                                                           *)

\* Such a step executed no dret: after one, the hart is out of debug mode and
\* no single step is about to expire that would put it back.
LEMMA SessionStep ==
    ASSUME IInv, NEW inst \in Inst, Step(inst), cpu.debug_mode, cpu'.debug_mode
    PROVE  /\ ~(inst.op = "csr" /\ inst.csr = "dpc") => cpu'.dpc = cpu.dpc
           /\ ~(inst.op = "csr" /\ inst.csr = "dcsr") => cpu'.dcsr = cpu.dcsr
           /\ ~(inst.op = "csr" /\ inst.csr = "mip") => cpu'.mip = cpu.mip
<1> DEFINE e == Execute(cpu, inst)
           r == RunInstruction(cpu, inst)
           Keeps(t) ==
               /\ ~(inst.op = "csr" /\ inst.csr = "dpc") => t.dpc = cpu.dpc
               /\ ~(inst.op = "csr" /\ inst.csr = "dcsr") => t.dcsr = cpu.dcsr
               /\ ~(inst.op = "csr" /\ inst.csr = "mip") => t.mip = cpu.mip
<1>1. cpu \in HartState /\ inst \in Instruction /\ cpu.single_step = 0
  BY HartAssumption DEF IInv, TypeOK, ArmedStepRunsProgram
<1>2. BeginStep(cpu) = cpu
  BY DEF BeginStep
<1>3. FallsThrough(inst) => cpu.pc + inst.len \in Address
  BY <1>2 DEF Step, Fetchable
<1>4. r \in HartState
  BY <1>1, <1>3, RunInstructionType
<1>5. cpu' = EndStep(r)
  BY <1>2 DEF Step, StepEffect
<1>6. CASE Faults(cpu, inst)
  <2>1. Keeps(r) /\ r.single_step = 0
    BY <1>1, <1>6, HandleExceptionFrame DEF RunInstruction
  <2> HIDE DEF r
  <2>2. cpu' = [r EXCEPT !.single_step = 0]
    BY <1>5, <2>1 DEF EndStep
  <2> QED
    BY <1>4, <2>1, <2>2 DEF HartState
<1>7. CASE ~Faults(cpu, inst) /\ inst.op = "dret"
  <2>1. e \in HartState
    BY <1>1, <1>3, <1>7, ExecuteType
  <2>2. e = ExecuteDRET(cpu)
    BY <1>7 DEF Execute
  <2>3. r = TakeInterrupt(e)
    BY <1>7 DEF RunInstruction
  <2> HIDE DEF e, r
  <2>4. ~e.debug_mode /\ e.single_step \in {0, 2}
    BY <1>1, <2>2, ExecuteDRETFrame
  <2>5. ~r.debug_mode /\ r.single_step \in {0, 2}
    BY <2>1, <2>3, <2>4, TakeInterruptFrame
  <2>6. \E n \in 0..2 : cpu' = [r EXCEPT !.single_step = n]
    <3>1. CASE r.single_step = 0
      BY <1>5, <3>1 DEF EndStep
    <3>2. CASE r.single_step = 2
      BY <1>5, <3>2 DEF EndStep
    <3> QED
      BY <2>5, <3>1, <3>2
  <2> QED
    BY <1>4, <2>5, <2>6 DEF HartState
<1>8. CASE ~Faults(cpu, inst) /\ inst.op # "dret"
  <2>1. e \in HartState
    BY <1>1, <1>3, <1>8, ExecuteType
  <2>2. Keeps(e) /\ e.debug_mode /\ e.single_step = 0
    <3>1. CASE inst.op = "ebreak"
      <4>1. e = EnterDebugMode(cpu, DCSR_CAUSE_SWBP)
        BY <3>1 DEF Execute
      <4> HIDE DEF e
      <4> QED
        BY <1>1, <4>1, EnterDebugModeFrame
    <3>2. CASE inst.op # "ebreak"
      BY <1>1, <1>8, <3>2, ExecuteFrame
    <3> QED
      BY <3>1, <3>2
  <2>3. r = TakeInterrupt(e)
    BY <1>8 DEF RunInstruction
  <2> HIDE DEF e, r
  <2>4. Keeps(r) /\ r.single_step = 0
    BY <2>1, <2>2, <2>3, TakeInterruptFrame
  <2>5. cpu' = [r EXCEPT !.single_step = 0]
    BY <1>5, <2>4 DEF EndStep
  <2> QED
    BY <1>4, <2>4, <2>5 DEF HartState
<1> QED
  BY <1>6, <1>7, <1>8

\* The other actions of Next keep the three registers, or leave debug mode.
LEMMA SessionOther ==
    ASSUME IInv, RaiseExtInterrupt \/ (\E b \in BOOLEAN : SetHaltRequest(b)) \/ Reset,
           cpu.debug_mode, cpu'.debug_mode
    PROVE  cpu'.dpc = cpu.dpc /\ cpu'.dcsr = cpu.dcsr /\ cpu.mip \subseteq cpu'.mip
<1>1. cpu \in HartState
  BY DEF IInv, TypeOK
<1>2. CASE RaiseExtInterrupt
  BY <1>1, <1>2 DEF RaiseExtInterrupt, RaiseExt, HartState
<1>3. CASE \E b \in BOOLEAN : SetHaltRequest(b)
  BY <1>1, <1>3 DEF SetHaltRequest, HartState
<1>4. CASE Reset
  BY <1>4 DEF Reset, ResetHart, ResetState
<1> QED
  BY <1>2, <1>3, <1>4

\* No event inside a debug session overwrites dpc or dcsr (CPU::enter_debug_mode).
THEOREM ContextSavedOnce == Spec => DebugContextSavedOnce
<1>1. IInv /\ Next => SessionKeeps("dpc", "dpc") /\ SessionKeeps("dcsr", "dcsr")
  <2> SUFFICES ASSUME IInv, Next, cpu.debug_mode, cpu'.debug_mode
               PROVE  /\ cpu'.dpc # cpu.dpc =>
                             \E inst \in Inst : inst.op = "csr" /\ inst.csr = "dpc" /\ Step(inst)
                      /\ cpu'.dcsr # cpu.dcsr =>
                             \E inst \in Inst : inst.op = "csr" /\ inst.csr = "dcsr" /\ Step(inst)
    BY DEF SessionKeeps
  <2>1. CASE \E inst \in Inst : Step(inst)
    BY <2>1, SessionStep
  <2>2. CASE RaiseExtInterrupt \/ (\E b \in BOOLEAN : SetHaltRequest(b)) \/ Reset
    BY <2>2, SessionOther
  <2> QED
    BY <2>1, <2>2 DEF Next
<1> QED
  BY <1>1, Invariant, PTL DEF Spec, DebugContextSavedOnce

\* No interrupt is lost to a debug session (CPU::take_interrupt).
THEOREM PendingSurvives == Spec => PendingSurvivesSession
<1> DEFINE Kept == cpu.debug_mode /\ cpu'.debug_mode /\ ~(cpu.mip \subseteq cpu'.mip)
                     => \E inst \in Inst : inst.op = "csr" /\ inst.csr = "mip" /\ Step(inst)
<1>1. IInv /\ Next => Kept
  <2> SUFFICES ASSUME IInv, Next, cpu.debug_mode, cpu'.debug_mode, ~(cpu.mip \subseteq cpu'.mip)
               PROVE  \E inst \in Inst : inst.op = "csr" /\ inst.csr = "mip" /\ Step(inst)
    OBVIOUS
  <2>1. CASE \E inst \in Inst : Step(inst)
    BY <2>1, SessionStep
  <2>2. CASE RaiseExtInterrupt \/ (\E b \in BOOLEAN : SetHaltRequest(b)) \/ Reset
    BY <2>2, SessionOther
  <2> QED
    BY <2>1, <2>2 DEF Next
<1> QED
  BY <1>1, Invariant, PTL DEF Spec, PendingSurvivesSession
=============================================================================
