-------------------------- MODULE InterruptsProofs --------------------------
(***************************************************************************)
(* Proofs about the path of an interrupt request: whatever the program     *)
(* does with the devices and however many bytes arrive, no request is lost *)
(* or outlives its cause between two ticks, and no byte is counted that    *)
(* did not arrive; and whatever a disciplined firmware computes, no        *)
(* interrupt that finds nothing to claim is followed by another.           *)
(***************************************************************************)
EXTENDS Interrupts, HartProofs

Plic  == [priority : [Line -> 0..7], pending : SUBSET Line, enable : SUBSET Line, threshold : 0..7]
Timer == [CNT : 0..MaxArr, ARR : 0..MaxArr, STATUS : BOOLEAN, IE : BOOLEAN]
Uart  == [available : 0..MaxBytes, stored : 0..FifoSize, IMSC : SUBSET UartIt]

-----------------------------------------------------------------------------
(* The PLIC.                                                               *)

\* The PLIC answers with a line that waits and is enabled; with 0, which is no
\* line, only when there is none.
LEMMA Taken ==
    ASSUME NEW p \in Plic
    PROVE  /\ take_interrupt(p) \in Candidates(p) \cup {0}
           /\ take_interrupt(p) = 0 <=> Candidates(p) = {}
<1>1. Candidates(p) \subseteq {24, 28}
  BY DEF Candidates, Plic, Line, UART3, TIM4
<1>2. CASE Candidates(p) # {}
  <2>1. \E x \in Candidates(p) : \A y \in Candidates(p) : x >= y
    <3>1. CASE 28 \in Candidates(p)
      BY <1>1, <3>1
    <3>2. CASE 28 \notin Candidates(p)
      BY <1>1, <1>2, <3>2
    <3> QED
      BY <3>1, <3>2
  <2>2. Max(Candidates(p)) \in Candidates(p)
    BY <2>1 DEF Max
  <2> QED
    BY <1>1, <1>2, <2>2 DEF take_interrupt
<1>3. CASE Candidates(p) = {}
  BY <1>3 DEF take_interrupt
<1> QED
  BY <1>2, <1>3

\* A read of ICC puts a line or 0 in the register.
LEMMA ReadIccType ==
    ASSUME NEW word \in [inst : Instruction, access : Access], plic \in Plic
    PROVE  ReadIcc(word) \in Instruction
<1>1. take_interrupt(plic) \in Value
  BY Taken, HartAssumption, InterruptsAssumption DEF Candidates, Plic
<1> QED
  BY <1>1 DEF ReadIcc, Instruction, Reg

LEMMA PlicType ==
    ASSUME NEW p \in Plic, NEW a \in Access, NEW c
    PROVE  AccessPlic(a, c, p) \in Plic
<1>1. CASE a.reg = "ICC_write"
  BY <1>1 DEF AccessPlic, Plic
<1>2. CASE a.reg = "PRI"
  <2>1. a.line \in Line /\ a.val \in 0..7
    BY <1>2 DEF Access
  <2>2. [p.priority EXCEPT ![a.line] = a.val] \in [Line -> 0..7]
    BY <2>1 DEF Plic
  <2> QED
    BY <1>2, <2>2 DEF AccessPlic, Plic
<1>3. CASE a.reg = "IEM"
  <2>1. a.val \in SUBSET Line
    BY <1>3 DEF Access
  <2> QED
    BY <1>3, <2>1 DEF AccessPlic, Plic
<1>4. CASE a.reg = "THR"
  <2>1. a.val \in 0..7
    BY <1>4 DEF Access
  <2> QED
    BY <1>4, <2>1 DEF AccessPlic, Plic
<1>5. CASE a.reg \notin {"ICC_write", "PRI", "IEM", "THR"}
  BY <1>5 DEF AccessPlic
<1> QED
  BY <1>1, <1>2, <1>3, <1>4, <1>5

-----------------------------------------------------------------------------
(* The timer and the UART.                                                 *)

LEMMA TimerType ==
    ASSUME NEW t \in Timer, NEW a \in Access, NEW c
    PROVE  AccessTimer(a, c, t) \in Timer /\ TickTimer(AccessTimer(a, c, t)) \in Timer
<1> DEFINE u == AccessTimer(a, c, t)
<1>1. u \in Timer
  <2>1. CASE a.reg = "ARR"
    <3>1. a.val \in 0..MaxArr
      BY <2>1 DEF Access
    <3> QED
      BY <2>1, <3>1 DEF AccessTimer, Timer
  <2>2. CASE a.reg = "IE"
    <3>1. a.val \in BOOLEAN
      BY <2>2 DEF Access
    <3> QED
      BY <2>2, <3>1 DEF AccessTimer, Timer
  <2>3. CASE a.reg = "service" /\ c.regs["s1"] = TIM4
    BY <2>3 DEF AccessTimer, Timer
  <2>4. CASE a.reg \notin {"ARR", "IE"} /\ ~(a.reg = "service" /\ c.regs["s1"] = TIM4)
    BY <2>4 DEF AccessTimer
  <2> QED
    BY <2>1, <2>2, <2>3, <2>4
<1> HIDE DEF u
<1>2. TickTimer(u) \in Timer
  <2>1. u.CNT \in 0..MaxArr /\ u.ARR \in 0..MaxArr /\ MaxArr \in Nat
    BY <1>1, InterruptsAssumption DEF Timer
  <2>2. CASE u.CNT + 1 >= u.ARR
    <3>1. TickTimer(u) = [u EXCEPT !.CNT = 0, !.STATUS = TRUE]
      BY <2>2 DEF TickTimer
    <3>2. 0 \in 0..MaxArr /\ TRUE \in BOOLEAN
      BY <2>1
    <3> QED
      BY <1>1, <3>1, <3>2 DEF Timer
  <2>3. CASE ~(u.CNT + 1 >= u.ARR)
    <3>1. u.CNT + 1 \in 0..MaxArr
      BY <2>1, <2>3
    <3> QED
      BY <1>1, <2>3, <3>1 DEF TickTimer, Timer
  <2> QED
    BY <2>2, <2>3
<1> QED
  BY <1>1, <1>2 DEF u

\* UART_module::tick moves bytes from the socket to the buffer and loses none.
LEMMA ReceiveMoves ==
    ASSUME NEW u \in Uart
    PROVE  /\ Receive(u) \in Uart
           /\ Receive(u).available + Receive(u).stored = u.available + u.stored
<1>1. u.available \in 0..MaxBytes /\ u.stored \in 0..FifoSize /\ MaxBytes \in Nat /\ FifoSize \in Nat
  BY InterruptsAssumption DEF Uart
<1> DEFINE room == FifoSize - u.stored
           n == Min({u.available, room})
<1>2. n \in Nat /\ n <= u.available /\ n <= room
  <2>1. \E x \in {u.available, room} : \A y \in {u.available, room} : x <= y
    BY <1>1
  <2>2. n \in {u.available, room} /\ \A y \in {u.available, room} : n <= y
    BY <2>1 DEF Min
  <2> QED
    BY <1>1, <2>2
<1>3. Receive(u) = [u EXCEPT !.available = @ - n, !.stored = @ + n]
  BY DEF Receive
<1> HIDE DEF n
<1>4. u.available - n \in 0..MaxBytes /\ u.stored + n \in 0..FifoSize
  BY <1>1, <1>2
<1>5. Receive(u).available = u.available - n /\ Receive(u).stored = u.stored + n
  BY <1>3 DEF Uart
<1>6. Receive(u) \in Uart
  BY <1>3, <1>4 DEF Uart
<1> QED
  BY <1>1, <1>2, <1>5, <1>6

LEMMA UartType ==
    ASSUME NEW u \in Uart, NEW a \in Access, NEW c
    PROVE  /\ AccessUart(a, c, u) \in Uart
           /\ AccessUart(a, c, u).available = u.available
           /\ AccessUart(a, c, u).stored <= u.stored
<1>1. u.stored \in 0..FifoSize /\ FifoSize \in Nat
  BY InterruptsAssumption DEF Uart
<1>2. CASE a.reg = "IMSC"
  <2>1. a.val \in SUBSET UartIt
    BY <1>2 DEF Access
  <2> QED
    BY <1>1, <1>2, <2>1 DEF AccessUart, Uart
<1>3. CASE a.reg = "service" /\ c.regs["s1"] = UART3 /\ u.stored > 0
  <2>1. u.stored - 1 \in 0..FifoSize
    BY <1>1, <1>3
  <2> QED
    BY <1>1, <1>3, <2>1 DEF AccessUart, Uart
<1>4. CASE a.reg # "IMSC" /\ ~(a.reg = "service" /\ c.regs["s1"] = UART3 /\ u.stored > 0)
  BY <1>1, <1>4 DEF AccessUart
<1> QED
  BY <1>2, <1>3, <1>4

-----------------------------------------------------------------------------
(* The inductive invariant.                                                *)

\* Every byte that waits, at the socket or in the buffer, has arrived.
BytesInv == uart.available + uart.stored <= arrived

InterruptsInv == SystemTypeOK /\ BytesInv /\ RequestsAreCurrent

LEMMA InterruptsInit == SystemInit => InterruptsInv
<1> SUFFICES ASSUME SystemInit
             PROVE  InterruptsInv
  OBVIOUS
<1>1. TypeOK
  BY ResetStateType DEF SystemInit, Init, TypeOK
<1>2. FifoSize \in Nat \ {0} /\ MaxArr \in Nat /\ MaxBytes \in Nat
  BY InterruptsAssumption
<1>3. plic \in Plic /\ timer \in Timer /\ uart \in Uart
  <2>1. [l \in Line |-> 0] \in [Line -> 0..7]
    OBVIOUS
  <2> QED
    BY <1>2, <2>1 DEF SystemInit, Plic, Timer, Uart
<1>4. SystemTypeOK
  BY <1>1, <1>2, <1>3 DEF SystemInit, SystemTypeOK, Plic, Timer, Uart, Line
<1>5. BytesInv
  BY DEF SystemInit, BytesInv
<1>6. RequestsAreCurrent
  BY DEF SystemInit, RequestsAreCurrent, Requests
<1> QED
  BY <1>4, <1>5, <1>6 DEF InterruptsInv

\* One Core::step.
LEMMA CoreStepKeeps ==
    ASSUME InterruptsInv, CoreStep
    PROVE  InterruptsInv'
<1>1. /\ cpu \in HartState /\ plic \in Plic /\ timer \in Timer /\ uart \in Uart
      /\ pending_peripheral_interrupts \subseteq Line
      /\ arrived \in 0..MaxBytes /\ claims \in (Line \cup {0}) \X (Line \cup {0})
      /\ BytesInv
  BY DEF InterruptsInv, SystemTypeOK, TypeOK, Plic, Timer, Uart
<1>2. PICK word \in Program[cpu.pc] :
        LET a == word.access
            c == StepEffect(cpu, ReadIcc(word))
            p == TickPlic(AccessPlic(a, cpu, plic), pending_peripheral_interrupts)
            t == AccessTimer(a, cpu, timer)
            u == AccessUart(a, cpu, uart)
        IN  /\ Fetchable(BeginStep(cpu), ReadIcc(word))
            /\ plic' = p
            /\ cpu' = IF take_interrupt(p) # 0 THEN RaiseExt(c) ELSE c
            /\ uart' = Receive(u)
            /\ timer' = TickTimer(t)
            /\ pending_peripheral_interrupts' = TickRequests(t, u)
            /\ claims' = IF a.reg = "ICC_read" THEN <<claims[2], take_interrupt(plic)>> ELSE claims
            /\ UNCHANGED arrived
  BY DEF CoreStep
<1>3. word \in [inst : Instruction, access : Access] /\ word.access \in Access
  BY <1>1, InterruptsAssumption DEF HartState
<1>4. cpu' \in HartState
  <2> DEFINE inst == ReadIcc(word)
             c == StepEffect(cpu, inst)
  <2>1. inst \in Instruction /\ Fetchable(BeginStep(cpu), inst)
    BY <1>1, <1>2, <1>3, ReadIccType
  <2> HIDE DEF inst
  <2>2. c \in HartState
    BY <1>1, <2>1, StepEffectType
  <2>3. cpu' \in {c, RaiseExt(c)}
    BY <1>2 DEF inst
  <2> QED
    BY <2>2, <2>3, RaiseExtType
<1>5. plic' \in Plic
  <2> DEFINE q == AccessPlic(word.access, cpu, plic)
  <2>1. q \in Plic
    BY <1>1, <1>3, PlicType
  <2>2. plic' = [q EXCEPT !.pending = pending_peripheral_interrupts]
    BY <1>2 DEF TickPlic
  <2> HIDE DEF q
  <2> QED
    BY <1>1, <2>1, <2>2 DEF Plic
<1>6. timer' \in Timer /\ timer' = TickTimer(AccessTimer(word.access, cpu, timer))
  BY <1>1, <1>2, <1>3, TimerType
<1> DEFINE u == AccessUart(word.access, cpu, uart)
<1>7. u \in Uart /\ u.available = uart.available /\ u.stored <= uart.stored
  BY <1>1, <1>3, UartType
<1>8. uart' = Receive(u) /\ uart' \in Uart /\ arrived' = arrived
  BY <1>2, <1>7, ReceiveMoves
<1>9. pending_peripheral_interrupts' = Requests(timer', uart')
  BY <1>2, <1>6, <1>8 DEF TickRequests
<1> HIDE DEF u
<1>10. BytesInv'
  <2>1. uart'.available + uart'.stored = u.available + u.stored
    BY <1>7, <1>8, ReceiveMoves
  <2>2. /\ u.available \in Nat /\ u.stored \in Nat /\ uart.available \in Nat /\ uart.stored \in Nat
        /\ arrived \in Nat
    BY <1>1, <1>7, InterruptsAssumption DEF Uart
  <2> QED
    BY <1>1, <1>7, <1>8, <2>1, <2>2 DEF BytesInv
<1>11. claims' \in (Line \cup {0}) \X (Line \cup {0})
  <2>1. take_interrupt(plic) \in Line \cup {0}
    BY <1>1, Taken DEF Candidates, Plic
  <2> QED
    BY <1>1, <1>2, <2>1
<1>12. pending_peripheral_interrupts' \subseteq Line
  BY <1>9 DEF Requests, Line
<1> QED
  BY <1>1, <1>4, <1>5, <1>6, <1>8, <1>9, <1>10, <1>11, <1>12
     DEF InterruptsInv, SystemTypeOK, TypeOK, RequestsAreCurrent, Plic, Timer, Uart

\* A byte comes to the socket: the flags do not see it yet.
LEMMA ByteArrivesKeeps ==
    ASSUME InterruptsInv, ByteArrives
    PROVE  InterruptsInv'
<1>1. /\ uart \in Uart /\ arrived \in 0..MaxBytes /\ arrived' = arrived + 1 /\ arrived < MaxBytes
      /\ MaxBytes \in Nat /\ FifoSize \in Nat
      /\ uart.available + uart.stored <= arrived
  BY InterruptsAssumption DEF InterruptsInv, SystemTypeOK, Uart, BytesInv, ByteArrives
<1>2. uart' = [uart EXCEPT !.available = @ + 1]
  BY DEF ByteArrives
<1>3. uart.available \in 0..MaxBytes /\ uart.stored \in 0..FifoSize /\ uart.available <= arrived
  BY <1>1 DEF Uart
<1>4. /\ uart'.available = uart.available + 1 /\ uart'.stored = uart.stored
      /\ uart'.IMSC = uart.IMSC /\ uart' \in Uart
  <2>1. uart.available + 1 \in 0..MaxBytes
    BY <1>1, <1>3
  <2> QED
    BY <1>1, <1>2, <2>1 DEF Uart
<1>5. BytesInv'
  BY <1>1, <1>3, <1>4 DEF BytesInv
<1>6. /\ cpu' = cpu /\ plic' = plic /\ timer' = timer /\ claims' = claims
      /\ pending_peripheral_interrupts' = pending_peripheral_interrupts
  BY DEF ByteArrives
<1>7. RequestsAreCurrent'
  BY <1>4, <1>6 DEF InterruptsInv, RequestsAreCurrent, Requests, get_interrupt_flags
<1>8. SystemTypeOK'
  <2>1. arrived' \in 0..MaxBytes
    BY <1>1
  <2> QED
    BY <1>4, <1>6, <2>1 DEF InterruptsInv, SystemTypeOK, TypeOK, Uart
<1> QED
  BY <1>5, <1>7, <1>8 DEF InterruptsInv

\* The inductive invariant of the interrupt path.
THEOREM InterruptsInvariant == SystemSpec => []InterruptsInv
<1>1. InterruptsInv /\ [SystemNext]_systemVars => InterruptsInv'
  <2> SUFFICES ASSUME InterruptsInv, [SystemNext]_systemVars
               PROVE  InterruptsInv'
    OBVIOUS
  <2>1. ASSUME UNCHANGED systemVars
        PROVE  InterruptsInv'
    BY <2>1
       DEF systemVars, InterruptsInv, SystemTypeOK, TypeOK, BytesInv, RequestsAreCurrent
  <2> QED
    BY <2>1, CoreStepKeeps, ByteArrivesKeeps DEF SystemNext
<1> QED
  BY <1>1, InterruptsInit, PTL DEF SystemSpec

\* The hart and the devices keep their types: in particular the UART's buffer
\* never holds more than it has room for.
THEOREM InterruptsTypeCorrect == SystemSpec => []SystemTypeOK
<1>1. InterruptsInv => SystemTypeOK
  BY DEF InterruptsInv
<1> QED
  BY <1>1, InterruptsInvariant, PTL

\* The requests that wait between two ticks are those of the devices that ask
\* for service.
THEOREM CurrentRequests == SystemSpec => []RequestsAreCurrent
<1>1. InterruptsInv => RequestsAreCurrent
  BY DEF InterruptsInv
<1> QED
  BY <1>1, InterruptsInvariant, PTL

-----------------------------------------------------------------------------
(* The hart of a disciplined firmware.                                     *)

\* What an instruction of the program writes of the state a trap depends on.
LEMMA ExecuteWrites ==
    ASSUME NEW c \in HartState, NEW inst \in Instruction,
           inst.op \in {"alu", "set", "csr", "jump", "mret"}
    PROVE  LET t == Execute(c, inst)
           IN  /\ t.halt_request = c.halt_request
               /\ FallsThrough(inst) => t.pc = c.pc + inst.len
               /\ inst.op = "jump" => t.pc = inst.to
               /\ inst.op = "mret" => t.pc = c.mepc
               /\ t.mtvec = IF inst.op = "csr" /\ inst.csr = "mtvec" THEN inst.val ELSE c.mtvec
               /\ t.mepc = IF inst.op = "csr" /\ inst.csr = "mepc" THEN inst.val ELSE c.mepc
               /\ inst.op # "mret" /\ ~(inst.op = "csr" /\ inst.csr = "mstatus")
                      => t.mstatus = c.mstatus
               /\ t.regs["s1"] = IF inst.op = "set" /\ inst.reg = "s1" THEN inst.val
                                                                     ELSE c.regs["s1"]
<1>1. CASE inst.op = "alu"
  BY <1>1 DEF Execute, HartState, FallsThrough
<1>2. CASE inst.op = "set"
  <2>1. inst.reg \in Reg
    BY <1>2 DEF Instruction, CsrWrite
  <2>2. Execute(c, inst) = [c EXCEPT !.pc = c.pc + inst.len,
                                    !.regs = [c.regs EXCEPT ![inst.reg] = inst.val]]
    BY <1>2 DEF Execute
  <2>3. [c.regs EXCEPT ![inst.reg] = inst.val]["s1"]
            = IF inst.reg = "s1" THEN inst.val ELSE c.regs["s1"]
    BY <2>1 DEF HartState, Reg
  <2> QED
    BY <1>2, <2>2, <2>3 DEF HartState, FallsThrough
<1>3. CASE inst.op = "csr"
  <2>1. inst.csr \in {"mstatus", "mtvec", "mepc", "dpc", "mcause", "mie", "mip", "dcsr", "dscratch0"}
    BY <1>3 DEF Instruction, CsrWrite
  <2>2. Execute(c, inst) = [c EXCEPT !.pc = c.pc + inst.len, ![inst.csr] = inst.val]
    BY <1>3 DEF Execute
  <2> QED
    BY <1>3, <2>1, <2>2 DEF HartState, FallsThrough
<1>4. CASE inst.op = "jump"
  BY <1>4 DEF Execute, HartState, FallsThrough
<1>5. CASE inst.op = "mret"
  BY <1>5 DEF Execute, ExecuteMRET, HartState, FallsThrough
<1> QED
  BY <1>1, <1>2, <1>3, <1>4, <1>5

\* A hart that nobody debugs runs the instruction and takes the interrupt.
LEMMA UndebuggedStep ==
    ASSUME NEW c \in HartState, NEW inst \in Instruction,
           inst.op \in {"alu", "set", "csr", "jump", "mret"}, Fetchable(c, inst),
           ~c.debug_mode, ~c.halt_request, c.single_step = 0
    PROVE  /\ Execute(c, inst) \in HartState
           /\ StepEffect(c, inst) = TakeInterrupt(Execute(c, inst))
<1> DEFINE e == Execute(c, inst)
           t == TakeInterrupt(e)
<1>1. BeginStep(c) = c /\ ~Faults(c, inst)
  BY DEF BeginStep, Faults
<1>2. e \in HartState /\ e.single_step = 0
  BY <1>1, ExecuteType, ExecuteFrame DEF Fetchable
<1> HIDE DEF e
<1>3. t \in HartState /\ t.single_step = 0
  BY <1>2, TakeInterruptType, TakeInterruptFrame
<1> HIDE DEF t
<1>4. EndStep(t) = t
  <2>1. EndStep(t) = [t EXCEPT !.single_step = 0]
    BY <1>3 DEF EndStep
  <2> QED
    BY <1>3, <2>1 DEF HartState
<1>5. StepEffect(c, inst) = EndStep(t)
  BY <1>1 DEF StepEffect, RunInstruction, e, t
<1> QED
  BY <1>2, <1>4, <1>5 DEF e, t

\* At machine level an interrupt is taken when one is pending and the level's
\* bit is set; it goes to mtvec, keeps the return address and clears both.
LEMMA TakeInterruptMachine ==
    ASSUME NEW c \in HartState, ~c.debug_mode, c.privilege = PRV_M
    PROVE  LET t == TakeInterrupt(c)
           IN  /\ t.halt_request = c.halt_request /\ t.mtvec = c.mtvec /\ t.regs = c.regs
               /\ c.mip = {} \/ PRV_M \notin c.mstatus.ie => t = c
               /\ c.mip # {} /\ PRV_M \in c.mstatus.ie
                      => /\ t.pc = c.mtvec /\ t.mepc = c.pc /\ t.mip = {}
                         /\ PRV_M \notin t.mstatus.ie
<1>1. EnableMask(c) = {PRV_M}
  BY DEF EnableMask, PRV_M, PRV_S, PRV_U
<1>2. InterruptEnabled(c) <=> c.mip # {} /\ PRV_M \in c.mstatus.ie
  BY <1>1 DEF InterruptEnabled
<1>3. CASE ~InterruptEnabled(c)
  BY <1>2, <1>3 DEF TakeInterrupt
<1>4. CASE InterruptEnabled(c)
  <2> DEFINE cause == [interrupt |-> TRUE, code |-> SelectedInterrupt(c.mip)]
             m == PushEnable(c)
  <2>1. TakeInterrupt(c) = [c EXCEPT !.mstatus = m, !.mepc = c.pc, !.mcause = cause,
                                    !.pc = c.mtvec, !.mip = {}]
    BY <1>4 DEF TakeInterrupt, HandleException, HartState
  <2>2. PRV_M \notin m.ie
    BY <1>1 DEF PushEnable
  <2> HIDE DEF cause, m
  <2> QED
    BY <1>2, <1>4, <2>1, <2>2 DEF HartState
<1> QED
  BY <1>3, <1>4

\* Raising the interrupt writes mip only.
LEMMA RaiseExtFrame ==
    ASSUME NEW c \in HartState
    PROVE  LET t == RaiseExt(c)
           IN  /\ t.halt_request = c.halt_request /\ t.debug_mode = c.debug_mode
               /\ t.single_step = c.single_step /\ t.privilege = c.privilege
               /\ t.pc = c.pc /\ t.regs = c.regs /\ t.mstatus = c.mstatus
               /\ t.mtvec = c.mtvec /\ t.mepc = c.mepc
  BY DEF RaiseExt, HartState

-----------------------------------------------------------------------------
(* No spurious interrupt is followed by another.                           *)

\* The addresses of a firmware's parts; the entry of the handler is none of them.
Body(f) == f.setup \cup f.main \cup f.handler

\* Where the hart is, and what the part of the firmware it runs relies on: the
\* handler, that it is not interrupted, returns to the program and keeps what it
\* claimed; the program, that the set-up comes before the first claim.
RunsFirmware(f) ==
    /\ cpu.pc \in Body(f) \cup {f.entry}
    /\ ~cpu.debug_mode /\ ~cpu.halt_request /\ cpu.single_step = 0 /\ cpu.privilege = PRV_M
    /\ cpu.pc # START_PC => cpu.mtvec = f.entry
    /\ cpu.pc \in f.setup => PRV_M \notin cpu.mstatus.ie /\ claims[2] # 0
    /\ cpu.pc \in f.handler \cup {f.entry} => PRV_M \notin cpu.mstatus.ie /\ cpu.mepc \in f.main
    /\ cpu.pc \in f.handler => cpu.regs["s1"] = claims[2]

\* After a claim that found nothing no request goes away, so the latched
\* interrupt has a line to claim behind it; and a latch set since the trap has.
LatchHasLine(f) ==
    /\ claims[2] = 0 => plic.pending \subseteq pending_peripheral_interrupts
    /\ claims[2] = 0 \/ cpu.pc = f.entry => (cpu.mip # {} => Candidates(plic) # {})
    /\ claims[2] = 0 /\ cpu.pc = f.entry => Candidates(plic) # {}

FirmwareInv(f) == InterruptsInv /\ RunsFirmware(f) /\ LatchHasLine(f) /\ SpuriousNotRepeated

LEMMA FirmwareInit ==
    ASSUME NEW f, Disciplined(f), SystemInit
    PROVE  FirmwareInv(f)
<1>1. InterruptsInv
  BY InterruptsInit
<1>2. cpu = ResetState /\ claims = <<28, 28>> /\ plic.pending = {}
  BY DEF SystemInit, Init, TIM4
<1>3. /\ START_PC \in f.setup /\ START_PC \notin f.handler /\ START_PC # f.entry
  BY DEF Disciplined
<1>4. RunsFirmware(f)
  BY <1>2, <1>3 DEF RunsFirmware, Body, ResetState
<1>5. LatchHasLine(f) /\ SpuriousNotRepeated
  BY <1>2, <1>3 DEF LatchHasLine, SpuriousNotRepeated, ResetState
<1> QED
  BY <1>1, <1>4, <1>5 DEF FirmwareInv

\* The instruction the hart executes, and where it leaves the hart before the
\* interrupt is looked at: not at the entry, and with interrupts enabled only
\* in the program.
LEMMA FirmwareExecutes ==
    ASSUME NEW f, Disciplined(f), FirmwareInv(f), NEW word \in Program[cpu.pc],
           Fetchable(BeginStep(cpu), ReadIcc(word))
    PROVE  LET inst == ReadIcc(word)
               e    == Execute(cpu, inst)
           IN  /\ e \in HartState /\ StepEffect(cpu, inst) = TakeInterrupt(e)
               /\ ~e.debug_mode /\ ~e.halt_request /\ e.single_step = 0 /\ e.privilege = PRV_M
               /\ e.mip = cpu.mip /\ e.mtvec = f.entry /\ e.pc \in Body(f)
               /\ cpu.pc \in f.handler \cup {f.entry} => e.pc \notin f.setup
               /\ cpu.pc \in f.main => e.pc \in f.main
               /\ cpu.pc = f.entry => e.pc \in f.handler
               /\ e.pc \in f.setup => cpu.pc \in f.setup
               /\ e.pc \in f.setup \cup f.handler => PRV_M \notin e.mstatus.ie
               /\ e.pc \in f.handler => e.mepc \in f.main
               /\ e.pc \in f.handler => e.regs["s1"] = IF cpu.pc = f.entry THEN take_interrupt(plic)
                                                                          ELSE claims[2]
<1> DEFINE inst == ReadIcc(word)
           e    == Execute(cpu, inst)
<1>1. /\ cpu \in HartState /\ plic \in Plic /\ cpu.pc \in Address /\ f.entry \in Address
      /\ RunsFirmware(f) /\ Body(f) \subseteq Address
  BY DEF FirmwareInv, InterruptsInv, SystemTypeOK, TypeOK, Plic, HartState, Disciplined, Body
<1>2. word \in [inst : Instruction, access : Access]
  BY <1>1, InterruptsAssumption
<1>3. inst \in Instruction
  BY <1>1, <1>2, ReadIccType
<1>4. BeginStep(cpu) = cpu /\ Fetchable(cpu, inst)
  BY <1>1 DEF RunsFirmware, BeginStep
<1>5. CASE cpu.pc = f.entry
  <2>1. inst = [op |-> "set", reg |-> "s1", val |-> take_interrupt(plic), len |-> 4]
    BY <1>5 DEF Disciplined, ReadIcc
  <2>2. inst.op = "set" /\ inst.reg = "s1" /\ inst.val = take_interrupt(plic) /\ inst.len = 4
    BY <2>1
  <2> HIDE DEF inst
  <2>3. /\ f.entry # START_PC /\ f.entry \notin f.main /\ f.entry + 4 \in f.handler
        /\ f.handler \cap (f.setup \cup f.main) = {}
    BY DEF Disciplined
  <2>4. /\ e \in HartState /\ StepEffect(cpu, inst) = TakeInterrupt(e)
    BY <1>1, <1>3, <1>4, <2>2, UndebuggedStep DEF RunsFirmware
  <2>5. /\ ~e.debug_mode /\ e.single_step = 0 /\ e.privilege = PRV_M /\ e.mip = cpu.mip
    BY <1>1, <1>3, <2>2, ExecuteFrame DEF RunsFirmware, Faults
  <2>6. /\ ~e.halt_request /\ e.pc = f.entry + 4 /\ e.mtvec = f.entry /\ e.mepc = cpu.mepc
        /\ e.mstatus = cpu.mstatus /\ e.regs["s1"] = take_interrupt(plic)
    BY <1>1, <1>3, <1>5, <2>2, <2>3, ExecuteWrites DEF RunsFirmware, FallsThrough
  <2> HIDE DEF e
  <2>7. PRV_M \notin cpu.mstatus.ie /\ cpu.mepc \in f.main
    BY <1>1, <1>5 DEF RunsFirmware
  <2> QED
    BY <1>5, <2>3, <2>4, <2>5, <2>6, <2>7 DEF Body, inst, e
<1>6. CASE cpu.pc # f.entry
  <2>1. cpu.pc \in Body(f)
    BY <1>1, <1>6 DEF RunsFirmware
  <2>2. inst = word.inst /\ Obeys(f, cpu.pc, word)
    BY <2>1 DEF Disciplined, Confined, ReadIcc, Body
  <2>3. inst.op \in {"alu", "set", "csr", "jump", "mret"}
    BY <2>2 DEF Obeys
  <2>4. /\ f.handler \cap (f.setup \cup f.main) = {} /\ f.setup \cap f.main = {}
        /\ f.entry \notin Body(f)
    BY DEF Disciplined, Body
  <2>5. /\ e \in HartState /\ StepEffect(cpu, inst) = TakeInterrupt(e)
    BY <1>1, <1>3, <1>4, <2>3, UndebuggedStep DEF RunsFirmware
  <2>6. /\ ~e.debug_mode /\ e.single_step = 0 /\ e.privilege = PRV_M /\ e.mip = cpu.mip
    BY <1>1, <1>3, <2>2, <2>3, ExecuteFrame DEF RunsFirmware, Faults, Obeys, Writes
  <2>7. /\ ~e.halt_request
        /\ e.mtvec = f.entry
        /\ cpu.mepc \in f.main => e.mepc \in f.main
        /\ cpu.pc \in f.setup => e.mstatus = cpu.mstatus
        /\ cpu.pc \in f.handler => e.regs["s1"] = cpu.regs["s1"]
        /\ cpu.pc \in f.handler /\ inst.op # "mret" => e.mstatus = cpu.mstatus
    <3> DEFINE w(csr) == inst.op = "csr" /\ inst.csr = csr
    <3>1. /\ w("mtvec") => inst.val = f.entry
          /\ w("mepc") => inst.val \in f.main
          /\ w("mstatus") => cpu.pc \in f.main
          /\ inst.op = "mret" => cpu.pc \in f.handler
          /\ inst.op = "set" /\ inst.reg = "s1" => cpu.pc \notin f.handler
      BY <2>2 DEF Obeys, Writes
    <3>2. cpu.pc = START_PC => w("mtvec")
      BY <2>2 DEF Disciplined, Writes
    <3>3. cpu.pc # START_PC => cpu.mtvec = f.entry
      BY <1>1 DEF RunsFirmware
    <3>4. /\ e.halt_request = cpu.halt_request
          /\ e.mtvec = IF w("mtvec") THEN inst.val ELSE cpu.mtvec
          /\ e.mepc = IF w("mepc") THEN inst.val ELSE cpu.mepc
          /\ inst.op # "mret" /\ ~w("mstatus") => e.mstatus = cpu.mstatus
          /\ e.regs["s1"] = IF inst.op = "set" /\ inst.reg = "s1" THEN inst.val
                                                               ELSE cpu.regs["s1"]
      BY <1>1, <1>3, <2>3, ExecuteWrites
    <3> HIDE DEF inst, e, w
    <3>5. ~cpu.halt_request
      BY <1>1 DEF RunsFirmware
    <3>6. e.mtvec = f.entry
      BY <3>1, <3>2, <3>3, <3>4
    <3>7. cpu.mepc \in f.main => e.mepc \in f.main
      BY <3>1, <3>4
    <3>8. /\ cpu.pc \in f.setup => e.mstatus = cpu.mstatus
          /\ cpu.pc \in f.handler => e.regs["s1"] = cpu.regs["s1"]
          /\ cpu.pc \in f.handler /\ inst.op # "mret" => e.mstatus = cpu.mstatus
      BY <2>4, <3>1, <3>4
    <3> QED
      BY <3>4, <3>5, <3>6, <3>7, <3>8
  <2>8. /\ cpu.pc \in f.setup => e.pc \in f.setup \cup f.main
        /\ cpu.pc \in f.main => e.pc \in f.main
        /\ cpu.pc \in f.handler => e.pc \in IF inst.op = "mret" THEN f.main ELSE f.handler
    <3>1. /\ FallsThrough(inst) => e.pc = cpu.pc + inst.len
          /\ inst.op = "jump" => e.pc = inst.to
          /\ inst.op = "mret" => e.pc = cpu.mepc /\ cpu.mepc \in f.main /\ cpu.pc \in f.handler
      BY <1>1, <1>3, <2>2, <2>3, ExecuteWrites DEF Obeys, RunsFirmware
    <3>2. inst.op # "mret" => FallsThrough(inst) \/ inst.op = "jump"
      BY <2>3 DEF FallsThrough
    <3>3. ASSUME NEW from, NEW registers, NEW to, Confined(from, registers, to), cpu.pc \in from
          PROVE  /\ FallsThrough(inst) => cpu.pc + inst.len \in to
                 /\ inst.op = "jump" => inst.to \in to
      BY <2>2, <3>3 DEF Confined
    <3>4. /\ Confined(f.setup, {"none", "ICC_write", "service", "PRI", "IEM", "THR", "ARR", "IE",
                                "IMSC"}, f.setup \cup f.main)
          /\ Confined(f.main, {"none", "ARR", "ICC_write"}, f.main)
          /\ Confined(f.handler, {"none", "ARR", "ICC_write", "service"}, f.handler)
      BY DEF Disciplined
    <3> HIDE DEF inst, e
    <3>5. cpu.pc \in f.setup => e.pc \in f.setup \cup f.main
      BY <2>4, <3>1, <3>2, <3>3, <3>4
    <3>6. cpu.pc \in f.main => e.pc \in f.main
      BY <2>4, <3>1, <3>2, <3>3, <3>4
    <3>7. cpu.pc \in f.handler => e.pc \in IF inst.op = "mret" THEN f.main ELSE f.handler
      BY <3>1, <3>2, <3>3, <3>4
    <3> QED
      BY <3>5, <3>6, <3>7
  <2>9. /\ cpu.pc \in f.setup \cup f.handler => PRV_M \notin cpu.mstatus.ie
        /\ cpu.pc \in f.handler => cpu.mepc \in f.main /\ cpu.regs["s1"] = claims[2]
    BY <1>1 DEF RunsFirmware
  <2> HIDE DEF inst, e
  <2> QED
    BY <1>6, <2>1, <2>4, <2>5, <2>6, <2>7, <2>8, <2>9 DEF Body, inst, e
<1> QED
  BY <1>5, <1>6

\* While nothing is served, what the devices ask for only grows.
LEMMA RequestsGrow ==
    ASSUME NEW t \in Timer, NEW u \in Uart, NEW c, NEW a,
           a.reg \in {"none", "ARR", "ICC_write", "ICC_read"}
             \/ (a.reg = "service" /\ c.regs["s1"] = 0)
    PROVE  Requests(t, u) \subseteq TickRequests(AccessTimer(a, c, t), AccessUart(a, c, u))
<1> DEFINE s == AccessTimer(a, c, t)
           t2 == TickTimer(s)
           u2 == Receive(u)
<1>1. AccessUart(a, c, u) = u
  BY DEF AccessUart, UART3
<1>2. s.STATUS = t.STATUS /\ s.IE = t.IE
  <2>1. s = t \/ s = [t EXCEPT !.ARR = a.val]
    BY DEF AccessTimer, TIM4
  <2> QED
    BY <2>1 DEF Timer
<1>3. (s.STATUS => t2.STATUS) /\ t2.IE = s.IE
  <2>1. s = t \/ s = [t EXCEPT !.ARR = a.val]
    BY DEF AccessTimer, TIM4
  <2>2. \/ t2 = [s EXCEPT !.CNT = 0, !.STATUS = TRUE]
        \/ t2 = [s EXCEPT !.CNT = s.CNT + 1]
    BY DEF TickTimer
  <2>3. DOMAIN s = DOMAIN t /\ {"CNT", "STATUS", "IE"} \subseteq DOMAIN t
    BY <2>1 DEF Timer
  <2> HIDE DEF s
  <2> QED
    BY <2>2, <2>3
<1>4. u2 \in Uart /\ u2.IMSC = u.IMSC /\ u2.stored >= u.stored
  <2>1. u2 \in Uart
    BY ReceiveMoves
  <2> DEFINE n == Min({u.available, FifoSize - u.stored})
  <2>2. u.available \in Nat /\ u.stored \in 0..FifoSize /\ FifoSize \in Nat
    BY InterruptsAssumption DEF Uart
  <2>3. n \in Nat
    <3>1. \E x \in {u.available, FifoSize - u.stored} :
              \A y \in {u.available, FifoSize - u.stored} : x <= y
      BY <2>2
    <3>2. n \in {u.available, FifoSize - u.stored}
      BY <3>1 DEF Min
    <3> QED
      BY <2>2, <3>2
  <2>4. u2 = [u EXCEPT !.available = u.available - n, !.stored = u.stored + n]
    BY DEF Receive
  <2> HIDE DEF n
  <2> QED
    BY <2>1, <2>2, <2>3, <2>4 DEF Uart
<1>5. get_interrupt_flags(u) \subseteq get_interrupt_flags(u2)
  <2>1. u.stored \in 0..FifoSize /\ u2.stored \in 0..FifoSize /\ FifoSize \in Nat
    BY <1>4, InterruptsAssumption DEF Uart
  <2> QED
    BY <1>4, <2>1 DEF get_interrupt_flags
<1> HIDE DEF t2, u2
<1>6. Requests(t, u) \subseteq Requests(t2, u2)
  BY <1>2, <1>3, <1>4, <1>5 DEF Requests
<1> QED
  BY <1>1, <1>6 DEF TickRequests, t2, u2

\* Lines that are enabled wait on when more is pending.
LEMMA CandidatesGrow ==
    ASSUME NEW p \in Plic, NEW a, NEW c, NEW requests \in SUBSET Line,
           a.reg \in {"none", "ARR", "ICC_write", "ICC_read", "service"},
           p.pending \subseteq requests
    PROVE  Candidates(p) \subseteq Candidates(TickPlic(AccessPlic(a, c, p), requests))
<1> DEFINE q == AccessPlic(a, c, p)
<1>1. q = p \/ q = [p EXCEPT !.pending = p.pending \ {c.regs["s1"]}]
  BY DEF AccessPlic
<1>2. /\ TickPlic(q, requests).pending = requests
      /\ TickPlic(q, requests).enable = p.enable
      /\ TickPlic(q, requests).priority = p.priority
      /\ TickPlic(q, requests).threshold = p.threshold
  BY <1>1 DEF TickPlic, Plic
<1> QED
  BY <1>2 DEF Candidates

\* One Core::step of a disciplined firmware.
LEMMA FirmwareStep ==
    ASSUME NEW f, Disciplined(f), FirmwareInv(f), CoreStep
    PROVE  FirmwareInv(f)'
<1>1. /\ cpu \in HartState /\ plic \in Plic /\ timer \in Timer /\ uart \in Uart
      /\ pending_peripheral_interrupts \subseteq Line /\ claims \in (Line \cup {0}) \X (Line \cup {0})
      /\ pending_peripheral_interrupts = Requests(timer, uart)
      /\ RunsFirmware(f) /\ LatchHasLine(f) /\ claims # <<0, 0>>
  BY DEF FirmwareInv, InterruptsInv, SystemTypeOK, TypeOK, Plic, Timer, Uart, RequestsAreCurrent,
         SpuriousNotRepeated
<1>2. PICK word \in Program[cpu.pc] :
        LET a == word.access
            c == StepEffect(cpu, ReadIcc(word))
            p == TickPlic(AccessPlic(a, cpu, plic), pending_peripheral_interrupts)
            t == AccessTimer(a, cpu, timer)
            u == AccessUart(a, cpu, uart)
        IN  /\ Fetchable(BeginStep(cpu), ReadIcc(word))
            /\ plic' = p
            /\ cpu' = IF take_interrupt(p) # 0 THEN RaiseExt(c) ELSE c
            /\ uart' = Receive(u)
            /\ timer' = TickTimer(t)
            /\ pending_peripheral_interrupts' = TickRequests(t, u)
            /\ claims' = IF a.reg = "ICC_read" THEN <<claims[2], take_interrupt(plic)>> ELSE claims
            /\ UNCHANGED arrived
  BY DEF CoreStep
<1> DEFINE a == word.access
           e == Execute(cpu, ReadIcc(word))
           s == TakeInterrupt(e)
<1>3. InterruptsInv'
  BY CoreStepKeeps DEF FirmwareInv
<1>4. plic' \in Plic /\ claims' \in (Line \cup {0}) \X (Line \cup {0})
  BY <1>3 DEF InterruptsInv, SystemTypeOK, Plic
<1>5. /\ e \in HartState /\ StepEffect(cpu, ReadIcc(word)) = s
      /\ ~e.debug_mode /\ ~e.halt_request /\ e.single_step = 0 /\ e.privilege = PRV_M
      /\ e.mip = cpu.mip /\ e.mtvec = f.entry /\ e.pc \in Body(f)
      /\ cpu.pc \in f.handler \cup {f.entry} => e.pc \notin f.setup
      /\ cpu.pc \in f.main => e.pc \in f.main
      /\ cpu.pc = f.entry => e.pc \in f.handler
      /\ e.pc \in f.setup => cpu.pc \in f.setup
      /\ e.pc \in f.setup \cup f.handler => PRV_M \notin e.mstatus.ie
      /\ e.pc \in f.handler => e.mepc \in f.main
      /\ e.pc \in f.handler => e.regs["s1"] = IF cpu.pc = f.entry THEN take_interrupt(plic)
                                                                 ELSE claims[2]
  BY <1>2, FirmwareExecutes, Zenon
\* What the step does to the devices.
<1>6. /\ cpu' = IF Candidates(plic') # {} THEN RaiseExt(s) ELSE s
      /\ plic' = TickPlic(AccessPlic(a, cpu, plic), pending_peripheral_interrupts)
      /\ pending_peripheral_interrupts'
            = TickRequests(AccessTimer(a, cpu, timer), AccessUart(a, cpu, uart))
      /\ claims' = IF a.reg = "ICC_read" THEN <<claims[2], take_interrupt(plic)>> ELSE claims
  BY <1>2, <1>4, <1>5, Taken
<1>7. plic'.pending = pending_peripheral_interrupts
  BY <1>1, <1>6, <1>2, PlicType, InterruptsAssumption DEF TickPlic, Plic, HartState
<1>8. /\ f.setup \cap (f.main \cup f.handler) = {} /\ f.main \cap f.handler = {}
      /\ f.entry \notin Body(f) /\ START_PC \in f.setup
  BY DEF Disciplined, Body
<1>9. /\ cpu.pc = f.entry <=> a.reg = "ICC_read"
      /\ cpu.pc \in f.main => a.reg \in {"none", "ARR", "ICC_write"}
      /\ cpu.pc \in f.handler => a.reg \in {"none", "ARR", "ICC_write", "service"}
  BY <1>1, <1>8 DEF RunsFirmware, Disciplined, Confined, Body
<1>10. /\ cpu.pc \in f.setup => claims[2] # 0
       /\ cpu.pc \in f.handler => cpu.regs["s1"] = claims[2]
       /\ cpu.pc \in Body(f) \cup {f.entry}
  BY <1>1 DEF RunsFirmware
<1> HIDE DEF e, a
\* The interrupt is taken in the program only.
<1>11. /\ s \in HartState
       /\ ~s.debug_mode /\ ~s.halt_request /\ s.single_step = 0 /\ s.privilege = PRV_M
       /\ s.mtvec = f.entry /\ s.regs = e.regs
       /\ \/ s = e
          \/ /\ e.mip # {} /\ e.pc \in f.main /\ s.pc = f.entry /\ s.mepc = e.pc /\ s.mip = {}
             /\ PRV_M \notin s.mstatus.ie
  <2>1. s \in HartState /\ ~s.debug_mode /\ s.single_step = 0 /\ s.privilege = PRV_M
    BY <1>5, TakeInterruptType, TakeInterruptFrame
  <2>2. /\ s.halt_request = e.halt_request /\ s.mtvec = e.mtvec /\ s.regs = e.regs
        /\ e.mip = {} \/ PRV_M \notin e.mstatus.ie => s = e
        /\ e.mip # {} /\ PRV_M \in e.mstatus.ie
              => /\ s.pc = e.mtvec /\ s.mepc = e.pc /\ s.mip = {} /\ PRV_M \notin s.mstatus.ie
    BY <1>5, TakeInterruptMachine
  <2>3. PRV_M \in e.mstatus.ie => e.pc \in f.main
    BY <1>5 DEF Body
  <2> QED
    BY <1>5, <2>1, <2>2, <2>3
<1> HIDE DEF s
<1>12. /\ ~cpu'.debug_mode /\ ~cpu'.halt_request /\ cpu'.single_step = 0 /\ cpu'.privilege = PRV_M
       /\ cpu'.pc = s.pc /\ cpu'.regs = e.regs /\ cpu'.mtvec = f.entry
       /\ cpu'.mepc = s.mepc /\ cpu'.mstatus = s.mstatus
       /\ Candidates(plic') = {} => cpu'.mip = s.mip
  BY <1>6, <1>11, RaiseExtFrame
<1>13. /\ claims'[2] = IF cpu.pc = f.entry THEN take_interrupt(plic) ELSE claims[2]
       /\ cpu.pc # f.entry => claims' = claims
       /\ cpu.pc = f.entry => claims'[1] = claims[2]
  BY <1>6, <1>9
<1>14. RunsFirmware(f)'
  <2>1. cpu'.pc \in Body(f) \cup {f.entry}
    BY <1>5, <1>11, <1>12
  <2>2. cpu'.pc \in f.setup => PRV_M \notin cpu'.mstatus.ie /\ claims'[2] # 0
    BY <1>5, <1>8, <1>10, <1>11, <1>12, <1>13 DEF Body
  <2>3. cpu'.pc \in f.handler \cup {f.entry} => PRV_M \notin cpu'.mstatus.ie /\ cpu'.mepc \in f.main
    BY <1>5, <1>8, <1>11, <1>12 DEF Body
  <2>4. cpu'.pc \in f.handler => cpu'.regs["s1"] = claims'[2]
    BY <1>5, <1>8, <1>11, <1>12, <1>13 DEF Body
  <2> QED
    BY <1>12, <2>1, <2>2, <2>3, <2>4 DEF RunsFirmware, Body
\* After a spurious claim nothing was served in this step.
<1>15. claims'[2] = 0
           => /\ a.reg \in {"none", "ARR", "ICC_write", "ICC_read", "service"}
              /\ a.reg = "service" => cpu.regs["s1"] = 0
  BY <1>8, <1>9, <1>10, <1>13 DEF Body
<1>16. claims'[2] = 0 => plic'.pending \subseteq pending_peripheral_interrupts'
  <2> SUFFICES ASSUME claims'[2] = 0
               PROVE  plic'.pending \subseteq pending_peripheral_interrupts'
    OBVIOUS
  <2>1. \/ a.reg \in {"none", "ARR", "ICC_write", "ICC_read"}
        \/ a.reg = "service" /\ cpu.regs["s1"] = 0
    BY <1>15
  <2>2. Requests(timer, uart)
            \subseteq TickRequests(AccessTimer(a, cpu, timer), AccessUart(a, cpu, uart))
    BY <1>1, <2>1, RequestsGrow, SMT
  <2> QED
    BY <1>1, <1>6, <1>7, <2>2
\* The lines that waited before it still do.
<1>17. claims'[2] = 0 /\ claims[2] = 0 => Candidates(plic) \subseteq Candidates(plic')
  <2> SUFFICES ASSUME claims'[2] = 0, claims[2] = 0
               PROVE  Candidates(plic) \subseteq Candidates(plic')
    OBVIOUS
  <2>1. a.reg \in {"none", "ARR", "ICC_write", "ICC_read", "service"}
    BY <1>15
  <2>2. plic.pending \subseteq pending_peripheral_interrupts
    BY <1>1 DEF LatchHasLine
  <2>3. pending_peripheral_interrupts \in SUBSET Line
    BY <1>1
  <2> QED
    <3>1. Candidates(plic)
              \subseteq Candidates(TickPlic(AccessPlic(a, cpu, plic), pending_peripheral_interrupts))
      BY <1>1, <2>1, <2>2, <2>3, CandidatesGrow, SMT
    <3> QED
      BY <1>6, <3>1
<1>18. cpu.pc = f.entry /\ cpu.mip # {} => claims'[2] # 0
  BY <1>1, <1>13, Taken DEF LatchHasLine
<1>19. claims'[2] = 0 \/ cpu'.pc = f.entry => (cpu'.mip # {} => Candidates(plic') # {})
  <2> SUFFICES ASSUME claims'[2] = 0 \/ cpu'.pc = f.entry, cpu'.mip # {}, Candidates(plic') = {}
               PROVE  FALSE
    OBVIOUS
  <2>1. s.mip # {}
    BY <1>12
  <2>2. s = e /\ cpu'.pc # f.entry /\ cpu.mip # {}
    BY <1>5, <1>8, <1>11, <1>12, <2>1
  <2>3. claims'[2] = 0 /\ cpu.pc # f.entry /\ claims[2] = 0
    BY <1>13, <1>18, <2>2
  <2>4. Candidates(plic) # {}
    BY <1>1, <2>2, <2>3 DEF LatchHasLine
  <2> QED
    BY <1>17, <2>3, <2>4
<1>20. claims'[2] = 0 /\ cpu'.pc = f.entry => Candidates(plic') # {}
  <2> SUFFICES ASSUME claims'[2] = 0, cpu'.pc = f.entry
               PROVE  Candidates(plic') # {}
    OBVIOUS
  <2>1. e.mip # {} /\ cpu.mip # {} /\ cpu.pc # f.entry
    BY <1>5, <1>8, <1>11, <1>12
  <2>2. claims[2] = 0
    BY <1>13, <2>1
  <2>3. Candidates(plic) # {}
    BY <1>1, <2>1, <2>2 DEF LatchHasLine
  <2> QED
    BY <1>17, <2>2, <2>3
<1>21. claims' # <<0, 0>>
  <2>1. CASE cpu.pc = f.entry
    <3>1. claims[2] = 0 => take_interrupt(plic) # 0
      BY <1>1, <2>1, Taken DEF LatchHasLine
    <3>2. claims'[1] # 0 \/ claims'[2] # 0
      BY <1>13, <2>1, <3>1
    <3> QED
      BY <3>2
  <2>2. CASE cpu.pc # f.entry
    BY <1>1, <1>13, <2>2
  <2> QED
    BY <2>1, <2>2
<1> QED
  BY <1>3, <1>14, <1>16, <1>19, <1>20, <1>21 DEF FirmwareInv, LatchHasLine, SpuriousNotRepeated

\* The inductive invariant of a disciplined firmware.
THEOREM FirmwareInvariant ==
    ASSUME NEW CONSTANT f, Disciplined(f)
    PROVE  SystemSpec => []FirmwareInv(f)
<1>1. SystemInit => FirmwareInv(f)
  BY FirmwareInit
<1>2. FirmwareInv(f) /\ [SystemNext]_systemVars => FirmwareInv(f)'
  <2> SUFFICES ASSUME FirmwareInv(f), [SystemNext]_systemVars
               PROVE  FirmwareInv(f)'
    OBVIOUS
  <2>1. CASE CoreStep
    BY <2>1, FirmwareStep
  <2>2. ASSUME ByteArrives \/ UNCHANGED systemVars
        PROVE  FirmwareInv(f)'
    <3>1. /\ cpu' = cpu /\ plic' = plic /\ claims' = claims
          /\ pending_peripheral_interrupts' = pending_peripheral_interrupts
      BY <2>2 DEF ByteArrives, systemVars
    <3>2. InterruptsInv'
      <4>1. CASE ByteArrives
        BY <4>1, ByteArrivesKeeps DEF FirmwareInv
      <4>2. CASE UNCHANGED systemVars
        BY <4>2 DEF systemVars, FirmwareInv, InterruptsInv, SystemTypeOK, TypeOK, BytesInv,
                    RequestsAreCurrent
      <4> QED
        BY <2>2, <4>1, <4>2
    <3>3. RunsFirmware(f)' /\ LatchHasLine(f)' /\ SpuriousNotRepeated'
      BY <3>1 DEF FirmwareInv, RunsFirmware, LatchHasLine, SpuriousNotRepeated, Body
    <3> QED
      BY <3>2, <3>3 DEF FirmwareInv
  <2> QED
    BY <2>1, <2>2 DEF SystemNext
<1> QED
  BY <1>1, <1>2, PTL DEF SystemSpec

\* In a disciplined firmware an interrupt that finds nothing to claim, left in
\* the latch by a request served meanwhile, is never followed by another
\* (PLIC_module::take_interrupt, CPU::raise_ext_interrupt, CPU::take_interrupt),
\* whatever its program and handler compute and whenever bytes arrive.
THEOREM SpuriousOnce ==
    ASSUME NEW CONSTANT f, Disciplined(f)
    PROVE  SystemSpec => []SpuriousNotRepeated
<1>1. SystemSpec => []FirmwareInv(f)
  BY FirmwareInvariant
<1>2. FirmwareInv(f) => SpuriousNotRepeated
  BY DEF FirmwareInv
<1> QED
  BY <1>1, <1>2, PTL

\* Its handler is not interrupted, returns to the program it interrupted and
\* serves the line it has claimed, although the hart has no nesting and mret
\* restores no privilege level (CPU::take_interrupt, CPU::execute_MRET).
THEOREM HandlerRunsToReturn ==
    ASSUME NEW CONSTANT f, Disciplined(f)
    PROVE  SystemSpec => []RunsFirmware(f)
<1>1. SystemSpec => []FirmwareInv(f)
  BY FirmwareInvariant
<1>2. FirmwareInv(f) => RunsFirmware(f)
  BY DEF FirmwareInv
<1> QED
  BY <1>1, <1>2, PTL
=============================================================================
