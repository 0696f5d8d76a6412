----------------------------- MODULE Interrupts -----------------------------
(***************************************************************************)
(* The path of an interrupt request through the simulator: TIM4 and UART3  *)
(* (modules/timers, modules/uart), Core::raise_peripheral_interrupt, the   *)
(* PLIC (modules/plic) and the hart.                                       *)
(*                                                                         *)
(* One action is one Core::step: the hart executes one instruction of the  *)
(* program, which may access a device register, and then Bus::tick runs    *)
(* the tick of every device in the order main creates them, the PLIC       *)
(* before the two devices that raise interrupts.  Between two steps bytes  *)
(* may arrive at the UART's socket.                                        *)
(***************************************************************************)
EXTENDS Hart, FiniteSetsExt

CONSTANTS
    Program,        \* the words the program may execute at each address
    FifoSize,       \* elements of the UART's receive buffer (16 in uart.cpp)
    MaxArr,         \* largest value the program puts in the timer's ARR
    MaxBytes        \* bound: bytes that arrive at the socket

VARIABLES plic, timer, uart, pending_peripheral_interrupts, arrived, claims

systemVars == <<cpu, plic, timer, uart, pending_peripheral_interrupts, arrived, claims>>

\* A device's line is bit irqN + 1 of the PLIC's masks.
UART3 == 24
TIM4  == 28
Line  == {UART3, TIM4}

\* UART interrupt sources: the transmitter's (always raised), not empty, full.
UartIt == {"TX", "RNE", "RX"}

\* What an instruction of the program does to the devices; "service" stands for
\* the handler's code for the line in s1, which clears what it asked for.
Access ==
         [reg : {"none", "ICC_read", "ICC_write", "service"}]
    \cup [reg : {"PRI"}, line : Line, val : 0..7]
    \cup [reg : {"IEM"}, val : SUBSET Line]
    \cup [reg : {"THR"}, val : 0..7]
    \cup [reg : {"ARR"}, val : 0..MaxArr]
    \cup [reg : {"IE"}, val : BOOLEAN]
    \cup [reg : {"IMSC"}, val : SUBSET UartIt]

ASSUME InterruptsAssumption ==
    /\ \A a \in Address : Program[a] \subseteq [inst : Instruction, access : Access]
    /\ Line \subseteq Value
    /\ FifoSize \in Nat \ {0}
    /\ MaxArr \in Nat
    /\ MaxBytes \in Nat

-----------------------------------------------------------------------------
(* The PLIC.                                                               *)

Candidates(p) == { l \in p.pending \cap p.enable : p.priority[l] > p.threshold }

\* PLIC_module::take_interrupt: the line it finds last, 0 if there is none.
take_interrupt(p) == IF Candidates(p) = {} THEN 0 ELSE Max(Candidates(p))

\* PLIC_module::tick: the requests of the last tick replace the pending bits.
TickPlic(p, requests) == [p EXCEPT !.pending = requests]

-----------------------------------------------------------------------------
(* The timer and the UART.                                                 *)

\* Mutant: the count is not reset when it reaches ARR.
TickTimer_NoReload(t) ==
    IF t.CNT + 1 >= t.ARR
      THEN [t EXCEPT !.STATUS = TRUE]
      ELSE [t EXCEPT !.CNT = @ + 1]

TickTimer(t) ==
    IF t.CNT + 1 >= t.ARR
      THEN [t EXCEPT !.CNT = 0, !.STATUS = TRUE]
      ELSE [t EXCEPT !.CNT = @ + 1]

\* Mutant: one byte more than the buffer holds is taken from the socket.
Receive_Overfill(u) ==
    LET n == Min({u.available, FifoSize + 1 - u.stored})
    IN  [u EXCEPT !.available = @ - n, !.stored = @ + n]

\* UART_module::tick takes bytes from the socket while the buffer has room.
Receive(u) ==
    LET n == Min({u.available, FifoSize - u.stored})
    IN  [u EXCEPT !.available = @ - n, !.stored = @ + n]

\* Mutant: received bytes raise the interrupt only when the buffer is full.
get_interrupt_flags_FullOnly(u) ==
    {"TX"} \cup (IF u.stored = FifoSize THEN {"RNE", "RX"} ELSE {})

get_interrupt_flags(u) ==
    {"TX"} \cup (IF u.stored > 0 THEN {"RNE"} ELSE {})
           \cup (IF u.stored = FifoSize THEN {"RX"} ELSE {})

\* The lines the devices ask for.
Requests(t, u) ==
         (IF t.STATUS /\ t.IE THEN {TIM4} ELSE {})
    \cup (IF get_interrupt_flags(u) \cap u.IMSC # {} THEN {UART3} ELSE {})

\* Mutant: the timer raises its interrupt before it counts.
TickRequests_RaiseFirst(t, u) == Requests(t, Receive(u))

\* What the ticks of the UART and the timer raise.
TickRequests(t, u) == Requests(TickTimer(t), Receive(u))

-----------------------------------------------------------------------------
(* Device registers.                                                       *)

\* Writing ICC releases the line: its pending bit is cleared.
AccessPlic(a, c, p) ==
    CASE a.reg = "ICC_write" -> [p EXCEPT !.pending = @ \ {c.regs["s1"]}]
      [] a.reg = "PRI"       -> [p EXCEPT !.priority[a.line] = a.val]
      [] a.reg = "IEM"       -> [p EXCEPT !.enable = a.val]
      [] a.reg = "THR"       -> [p EXCEPT !.threshold = a.val]
      [] OTHER               -> p

AccessTimer(a, c, t) ==
    CASE a.reg = "ARR" -> [t EXCEPT !.ARR = a.val]
      [] a.reg = "IE"  -> [t EXCEPT !.IE = a.val]
      [] a.reg = "service" /\ c.regs["s1"] = TIM4 -> [t EXCEPT !.STATUS = FALSE]
      [] OTHER         -> t

\* Reading DR takes a byte from the buffer.
AccessUart(a, c, u) ==
    CASE a.reg = "IMSC" -> [u EXCEPT !.IMSC = a.val]
      [] a.reg = "service" /\ c.regs["s1"] = UART3 /\ u.stored > 0 -> [u EXCEPT !.stored = @ - 1]
      [] OTHER          -> u

\* Reading ICC answers with the line to serve, and changes nothing.
ReadIcc(word) ==
    IF word.access.reg = "ICC_read"
      THEN [op |-> "set", reg |-> "s1", val |-> take_interrupt(plic), len |-> 4]
      ELSE word.inst

-----------------------------------------------------------------------------
(* Core::step.                                                             *)

CoreStep ==
    \E word \in Program[cpu.pc] :
        LET a    == word.access
            c    == StepEffect(cpu, ReadIcc(word))
            p    == TickPlic(AccessPlic(a, cpu, plic), pending_peripheral_interrupts)
            t    == AccessTimer(a, cpu, timer)
            u    == AccessUart(a, cpu, uart)
        IN  /\ Fetchable(BeginStep(cpu), ReadIcc(word))
            /\ plic' = p
            /\ cpu' = IF take_interrupt(p) # 0 THEN RaiseExt(c) ELSE c
            /\ uart' = Receive(u)
            /\ timer' = TickTimer(t)
            /\ pending_peripheral_interrupts' = TickRequests(t, u)
            /\ claims' = IF a.reg = "ICC_read" THEN <<claims[2], take_interrupt(plic)>> ELSE claims
            /\ UNCHANGED arrived

ByteArrives ==
    /\ arrived < MaxBytes
    /\ arrived' = arrived + 1
    /\ uart' = [uart EXCEPT !.available = @ + 1]
    /\ UNCHANGED <<cpu, plic, timer, pending_peripheral_interrupts, claims>>

SystemInit ==
    /\ Init
    /\ plic = [priority |-> [l \in Line |-> 0], pending |-> {}, enable |-> {}, threshold |-> 0]
    /\ timer = [CNT |-> 0, ARR |-> 0, STATUS |-> FALSE, IE |-> FALSE]
    /\ uart = [available |-> 0, stored |-> 0, IMSC |-> {}]
    /\ pending_peripheral_interrupts = {}
    /\ arrived = 0
    /\ claims = <<TIM4, TIM4>>

SystemNext == CoreStep \/ ByteArrives

\* The main loop calls Core::step for ever.
SystemSpec == SystemInit /\ [][SystemNext]_systemVars /\ WF_systemVars(CoreStep)

-----------------------------------------------------------------------------
(* A firmware whose handler, reached through mtvec only, claims first,     *)
(* serves the claimed line and returns to a program that is set up once.   *)
(* f names its parts: the addresses of the set-up, of the main program and *)
(* of the handler after its entry, and the entry.                          *)

\* The words at these addresses use these device registers only, and control
\* goes from them to these addresses only.
Confined(addresses, registers, next) ==
    \A a \in addresses : \A word \in Program[a] :
        /\ word.access.reg \in registers
        /\ FallsThrough(word.inst) => a + word.inst.len \in next
        /\ word.inst.op = "jump" => word.inst.to \in next

Writes(word, csr) == word.inst.op = "csr" /\ word.inst.csr = csr

\* Interrupts are enabled by the main program only, never by the set-up or the
\* handler, and the handler does not overwrite the line it has claimed.
Obeys(f, a, word) ==
    /\ word.inst.op \in {"alu", "set", "csr", "jump", "mret"}
    /\ word.inst.op = "mret" => a \in f.handler
    /\ word.inst.op = "set" /\ word.inst.reg = "s1" => a \notin f.handler
    /\ Writes(word, "mtvec") => word.inst.val = f.entry
    /\ Writes(word, "mepc") => word.inst.val \in f.main
    /\ Writes(word, "mstatus") => a \in f.main
    /\ ~Writes(word, "mip")

Disciplined(f) ==
    /\ f.setup \cup f.main \cup f.handler \cup {f.entry} \subseteq Address
    /\ f.setup \cap (f.main \cup f.handler) = {} /\ f.main \cap f.handler = {}
    /\ f.entry \notin f.setup \cup f.main \cup f.handler
    /\ START_PC \in f.setup /\ f.entry + 4 \in f.handler
    /\ \A word \in Program[START_PC] : Writes(word, "mtvec")
    /\ \A word \in Program[f.entry] : word.access.reg = "ICC_read"
    /\ Confined(f.setup, {"none", "ICC_write", "service", "PRI", "IEM", "THR", "ARR", "IE", "IMSC"},
                f.setup \cup f.main)
    /\ Confined(f.main, {"none", "ARR", "ICC_write"}, f.main)
    /\ Confined(f.handler, {"none", "ARR", "ICC_write", "service"}, f.handler)
    /\ \A a \in f.setup \cup f.main \cup f.handler : \A word \in Program[a] : Obeys(f, a, word)

-----------------------------------------------------------------------------
(* Properties.                                                             *)

\* The type invariant: the UART's buffer never holds more than it has room for.
SystemTypeOK ==
    /\ TypeOK
    /\ plic \in [priority : [Line -> 0..7], pending : SUBSET Line, enable : SUBSET Line,
                 threshold : 0..7]
    /\ timer \in [CNT : 0..MaxArr, ARR : 0..MaxArr, STATUS : BOOLEAN, IE : BOOLEAN]
    /\ uart \in [available : 0..MaxBytes, stored : 0..FifoSize, IMSC : SUBSET UartIt]
    /\ pending_peripheral_interrupts \subseteq Line
    /\ arrived \in 0..MaxBytes
    /\ claims \in (Line \cup {0}) \X (Line \cup {0})

\* Between two ticks the requests that wait for the PLIC are those of the
\* devices that ask for service now: none is lost to the order of the ticks, and
\* none outlives its cause.
RequestsAreCurrent == pending_peripheral_interrupts = Requests(timer, uart)

\* mip is a latch, so a request that was served while the handler ran makes one
\* more interrupt that finds nothing to claim; it is never followed by another.
SpuriousNotRepeated == claims # <<0, 0>>

\* A claim answers with a line of the highest priority among those that wait.
ClaimsHighestPriority ==
    [][\A l \in Candidates(plic) :
           claims' # claims => plic.priority[l] <= plic.priority[claims'[2]]]_systemVars

\* An event of the timer is served.
TimerServed == (timer.STATUS /\ timer.IE) ~> ~timer.STATUS

\* The bytes that arrive at the socket reach the program, whatever the timer
\* does meanwhile.
BytesReachProgram == (uart.available + uart.stored > 0) ~> (uart.available + uart.stored = 0)

\* Requests that are served leave the program time to run: the program is not
\* in its handler for ever.
ProgramProceeds == []<>(PRV_M \in cpu.mstatus.ie)
=============================================================================
