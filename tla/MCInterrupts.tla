---------------------------- MODULE MCInterrupts ----------------------------
(* Interrupts with a firmware: it sets up the devices, the PLIC and the    *)
(* hart, then loops; its handler claims, serves, completes and returns.    *)
EXTENDS Interrupts

Main == START_PC + 36
Handler == START_PC + 100
MCAddress ==
    {0, DEBUG_ROM_ENTRY, DEBUG_ROM_TVEC}
        \cup { START_PC + 4 * i : i \in 0..9 } \cup { Handler + 4 * i : i \in 0..3 }
MCValue == {0} \cup Line

None == [reg |-> "none"]
Store(access) == { [inst |-> [op |-> "alu", len |-> 4], access |-> access] }
Run(inst) == { [inst |-> inst, access |-> None] }
Csr(name, v) == [op |-> "csr", csr |-> name, val |-> v, len |-> 4]

\* The priorities the firmware gives the two lines: the UART's above the timer's.
UartPriority == 7
TimerPriority == 1

Firmware ==
    [ a \in Address |->
        CASE a = START_PC      -> Run(Csr("mtvec", Handler))
          [] a = START_PC + 4  -> Store([reg |-> "PRI", line |-> UART3, val |-> UartPriority])
          [] a = START_PC + 8  -> Store([reg |-> "PRI", line |-> TIM4, val |-> TimerPriority])
          [] a = START_PC + 12 -> Store([reg |-> "IEM", val |-> Line])
          [] a = START_PC + 16 -> Store([reg |-> "IMSC", val |-> {"RNE"}])
          [] a = START_PC + 20 -> Store([reg |-> "ARR", val |-> MaxArr])
          [] a = START_PC + 24 -> Store([reg |-> "IE", val |-> TRUE])
          [] a = START_PC + 28 -> Run(Csr("mie", {IRQ_M_EXT}))
          [] a = START_PC + 32 -> Run(Csr("mstatus", [ie |-> {PRV_M}, pie |-> {}]))
          [] a = Main          -> Run([op |-> "jump", to |-> Main])
          [] a = Handler       -> Store([reg |-> "ICC_read"])
          [] a = Handler + 4   -> Store([reg |-> "service"])
          [] a = Handler + 8   -> Store([reg |-> "ICC_write"])
          [] a = Handler + 12  -> Run([op |-> "mret"])
          [] OTHER             -> {} ]

MCInst == {}

\* The firmware is one the theorems about disciplined firmware speak of.
FirmwareParts ==
    [ setup   |-> { START_PC + 4 * i : i \in 0..7 },
      main    |-> {START_PC + 32, Main},
      handler |-> { Handler + 4 * i : i \in 1..3 },
      entry   |-> Handler ]
ASSUME FirmwareDisciplined == Disciplined(FirmwareParts)
=============================================================================
