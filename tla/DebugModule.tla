----------------------------- MODULE DebugModule -----------------------------
(***************************************************************************)
(* The RISC-V debug module of the simulator                                *)
(* (modules/debug/src/debug_module.cpp): the registers the debugger        *)
(* reaches over the debug module interface (DMI), the abstract command     *)
(* protocol, and the memory through which the module and the hart's debug  *)
(* ROM talk.                                                               *)
(*                                                                         *)
(* Each DMI handler is an action that also takes the hart's record, which  *)
(* the module writes (halt_request, CPU::reset).  The words the module     *)
(* assembles into debug memory are kept as symbolic instructions; what     *)
(* they do to the hart and to the module is defined by Resolve and         *)
(* HartStore.  System bus access is modelled in SystemBus.                 *)
(***************************************************************************)
EXTENDS Hart, Sequences

CONSTANTS
    ProgBufSize,    \* words of the program buffer (config.progbufsize)
    AbstractRti,    \* config.abstract_rti
    Command,        \* the abstract commands the debugger issues
    NoCommand       \* the command register before its first write

VARIABLE dm

-----------------------------------------------------------------------------
(* Debug memory.                                                           *)

DEBUG_ROM_WHERETO    == 768     \* 0x300
debug_abstract_start == 788     \* 0x314
debug_progbuf_start  == 836     \* 0x344

CMDERR_NONE       == 0
CMDERR_BUSY       == 1
CMDERR_NOTSUP     == 2
CMDERR_EXCEPTION  == 3
CMDERR_HALTRESUME == 4

\* CSRs that abstract commands access: regno below 0x1000.
CsrRegno == {"dcsr", "dpc", "dscratch0"}

\* An abstract command: cmdtype is "access register" or not, aarsize is 32
\* bits or not, regno names a general register, a CSR, a custom register or
\* nothing that exists.
CommandType ==
    [access_register : BOOLEAN, aarsize32 : BOOLEAN,
     transfer : BOOLEAN, write : BOOLEAN, postexec : BOOLEAN,
     regno : Reg \cup CsrRegno \cup {"custom", "none"}]

ASSUME DebugModuleAssumption ==
    /\ ProgBufSize \in 1..15
    /\ AbstractRti \in Nat
    /\ Command \subseteq CommandType
    /\ NoCommand \notin CommandType

-----------------------------------------------------------------------------
(* The symbolic words of debug memory.                                     *)

nop            == [op |-> "alu", len |-> 4]
ebreak         == [op |-> "ebreak"]
jal(to)        == [op |-> "jump", to |-> to]
csrw_s0(csr)   == [op |-> "csrw_s0", csr |-> csr]
csrr_s0(csr)   == [op |-> "csrr_s0", csr |-> csr]
mhartid_s0     == [op |-> "mhartid_s0"]
lw_data(reg)   == [op |-> "lw_data", reg |-> reg]
sw_data(reg)   == [op |-> "sw_data", reg |-> reg]
store(where)   == [op |-> "store", where |-> where]
lbu_flags      == [op |-> "lbu_flags"]
andi_s0(flag)  == [op |-> "andi_s0", flag |-> flag]
bnez_s0(to)    == [op |-> "bnez_s0", to |-> to]

\* The program in debug_rom_raw, one instruction per word from 0x800.
Rom == <<
    jal(2060),                  \* 800 entry     -> 80c
    jal(2148),                  \* 804 resume    -> 864
    jal(2112),                  \* 808 exception -> 840
    nop,                        \* 80c fence
    csrw_s0("dscratch0"),       \* 810
    mhartid_s0,                 \* 814 park loop
    store("HALTED"),            \* 818
    lbu_flags,                  \* 81c
    andi_s0("GO"),              \* 820
    bnez_s0(2124),              \* 824           -> 84c
    mhartid_s0,                 \* 828
    lbu_flags,                  \* 82c
    andi_s0("RESUME"),          \* 830
    bnez_s0(2148),              \* 834           -> 864
    nop,                        \* 838 wfi
    jal(2068),                  \* 83c           -> 814
    csrr_s0("dscratch0"),       \* 840
    store("EXCEPTION"),         \* 844
    ebreak,                     \* 848
    mhartid_s0,                 \* 84c going
    store("GOING"),             \* 850
    csrr_s0("dscratch0"),       \* 854
    nop,                        \* 858 fence
    nop,                        \* 85c fence.i
    jal(DEBUG_ROM_WHERETO),     \* 860
    mhartid_s0,                 \* 864 resume
    store("RESUMING"),          \* 868
    csrr_s0("dscratch0"),       \* 86c
    [op |-> "dret"]             \* 870
  >>

RomAddress      == { DEBUG_ROM_ENTRY + 4 * i : i \in 0 .. Len(Rom) - 1 }
AbstractAddress == { debug_abstract_start + 4 * i : i \in 0 .. 11 }
ProgBufAddress  == { debug_progbuf_start + 4 * i : i \in 0 .. ProgBufSize - 1 }
\* The word after the buffer is the data area; see FetchDebug.
DebugAddress    == RomAddress \cup AbstractAddress \cup {DEBUG_ROM_WHERETO}
                    \cup ProgBufAddress \cup {debug_progbuf_start + 4 * ProgBufSize}

\* CSR contents as the 32-bit word a CSR instruction moves: dcsr is a record.
CsrWord(c, csr) ==
    IF csr = "dcsr"
      THEN c.dcsr.cause * 64 + (IF c.dcsr.step THEN 4 ELSE 0) + c.dcsr.prv
      ELSE c[csr]

CsrValue(csr, word) ==
    IF csr = "dcsr"
      THEN [cause |-> (word \div 64) % 8, step |-> (word \div 4) % 2 = 1, prv |-> word % 4]
      ELSE word

-----------------------------------------------------------------------------
(* The state of the debug module.                                          *)

\* debug_module_t::reset: the hart_state, the ROM flags, the data and the
\* code the hart may be executing are left alone.
ResetModule(d) ==
    [d EXCEPT !.dmactive = FALSE, !.haltreq = FALSE,
              !.busy = FALSE, !.cmderr = CMDERR_NONE,
              !.autoexecdata = FALSE, !.autoexecprogbuf = {}]

\* The constructor; the command register is not initialised, and
\* abstract_command_completed is read only after a command has set it.
\* custom_base is kept with the number of the custom register, 1, added.
InitModule ==
    [ dmactive |-> FALSE, haltreq |-> FALSE,
      busy |-> FALSE, cmderr |-> CMDERR_NONE,
      autoexecdata |-> FALSE, autoexecprogbuf |-> {},
      halted |-> FALSE, resumeack |-> FALSE, havereset |-> FALSE,
      debug_rom_flags |-> {},
      dmdata |-> 0, custom_base |-> 1,
      program_buffer |-> [i \in 1..ProgBufSize |-> [op |-> "fault", code |-> EXC_II]],
      debug_abstract |-> <<>>,
      command |-> NoCommand,
      completed |-> FALSE, rti_remaining |-> 0 ]

-----------------------------------------------------------------------------
(* perform_abstract_command.                                               *)

\* Mutant: a written s0 is not copied to dscratch0 for the exception handler.
TransferCode_NoCopy(cmd) ==
    IF cmd.regno \in CsrRegno
      THEN <<csrw_s0("dscratch0")>>
           \o (IF cmd.write THEN <<lw_data("s0"), csrw_s0(cmd.regno)>>
                            ELSE <<csrr_s0(cmd.regno), sw_data("s0")>>)
           \o <<csrr_s0("dscratch0")>>
      ELSE IF cmd.write THEN <<lw_data(cmd.regno)>> ELSE <<sw_data(cmd.regno)>>

\* Mutant: a transfer of a CSR leaves the word it moved in s0.
TransferCode_NoRestore(cmd) ==
    IF cmd.regno \in CsrRegno
      THEN <<csrw_s0("dscratch0")>>
           \o (IF cmd.write THEN <<lw_data("s0"), csrw_s0(cmd.regno)>>
                            ELSE <<csrr_s0(cmd.regno), sw_data("s0")>>)
      ELSE TransferCode_NoCopy(cmd)

TransferCode(cmd) ==
    IF cmd.regno \in CsrRegno
      THEN <<csrw_s0("dscratch0")>>
           \o (IF cmd.write THEN <<lw_data("s0"), csrw_s0(cmd.regno)>>
                            ELSE <<csrr_s0(cmd.regno), sw_data("s0")>>)
           \o <<csrr_s0("dscratch0")>>
      ELSE IF cmd.write
             THEN <<lw_data(cmd.regno)>>
                  \o (IF cmd.regno = "s0" THEN <<csrw_s0("dscratch0")>> ELSE <<>>)
             ELSE <<sw_data(cmd.regno)>>

\* Words left over from longer commands are dropped: the code ends with a jump.
AbstractCode(cmd) ==
    (IF cmd.transfer THEN TransferCode(cmd) ELSE <<>>)
    \o <<IF cmd.postexec THEN jal(debug_progbuf_start) ELSE ebreak>>

\* The early returns, in the code's order.
Refusal(d) ==
    IF d.busy THEN CMDERR_BUSY
    ELSE IF ~d.command.access_register THEN CMDERR_NOTSUP
    ELSE IF ~d.halted THEN CMDERR_HALTRESUME
    ELSE IF ~d.command.aarsize32 THEN CMDERR_NOTSUP
    ELSE IF d.command.transfer /\ d.command.regno = "none" THEN CMDERR_NOTSUP
    ELSE CMDERR_NONE

\* Mutant: the completion flag of the previous command is left standing.
Launch_KeepCompleted(d) ==
    [d EXCEPT !.debug_abstract = AbstractCode(d.command),
              !.debug_rom_flags = @ \cup {"GO"},
              !.rti_remaining = AbstractRti,
              !.busy = TRUE]

Launch(d) ==
    [d EXCEPT !.debug_abstract = AbstractCode(d.command),
              !.debug_rom_flags = @ \cup {"GO"},
              !.rti_remaining = AbstractRti,
              !.completed = FALSE,
              !.busy = TRUE]

\* Custom registers never reach the hart, and end the command at once.
AccessCustom(d) ==
    IF d.command.write THEN [d EXCEPT !.custom_base = d.dmdata]
                       ELSE [d EXCEPT !.dmdata = d.custom_base]

\* A command is accepted when perform_abstract_command hands it to the hart.
Accepted(d) ==
    /\ d.cmderr = CMDERR_NONE
    /\ Refusal(d) = CMDERR_NONE
    /\ ~(d.command.transfer /\ d.command.regno = "custom")

PerformAbstractCommand(d) ==
    IF d.cmderr # CMDERR_NONE THEN d
    ELSE IF Refusal(d) # CMDERR_NONE THEN [d EXCEPT !.cmderr = Refusal(d)]
    ELSE IF Accepted(d) THEN Launch(d)
    ELSE AccessCustom(d)

\* An access that finds the module busy is an error, unless one is recorded.
BusyError(d) == [d EXCEPT !.cmderr = IF d.busy /\ @ = CMDERR_NONE THEN CMDERR_BUSY ELSE @]

-----------------------------------------------------------------------------
(* DMI handlers.                                                           *)

\* The fields of a write to dmcontrol that the module acts on.
DmControl ==
    [dmactive : BOOLEAN, haltreq : BOOLEAN, resumereq : BOOLEAN,
     hartreset : BOOLEAN, ndmreset : BOOLEAN, ackhavereset : BOOLEAN]

\* The hart after a write to dmcontrol of an active module: the halt request
\* is copied first, and either reset may then overwrite it.
ControlHart(c, v) ==
    LET requested == [c EXCEPT !.halt_request = v.haltreq]
        once      == IF v.hartreset THEN ResetHart(requested) ELSE requested
    IN  IF v.ndmreset THEN ResetHart(once) ELSE once

ControlModule(d, v) ==
    [d EXCEPT !.dmactive  = TRUE,
              !.haltreq   = v.haltreq,
              !.havereset = @ /\ ~v.ackhavereset,
              !.debug_rom_flags = IF v.resumereq THEN @ \cup {"RESUME"} ELSE @,
              !.resumeack = @ /\ ~v.resumereq]

\* The first write that sets dmactive resets the module, halt request included.
WriteDmcontrol(v) ==
    LET activates == ~dm.dmactive /\ v.dmactive
        d == IF activates THEN ResetModule(dm) ELSE dm
        c == IF activates THEN [cpu EXCEPT !.halt_request = FALSE] ELSE cpu
    IN  IF v.dmactive
          THEN dm' = ControlModule(d, v) /\ cpu' = ControlHart(c, v)
          ELSE dm' = [d EXCEPT !.dmactive = FALSE] /\ cpu' = c

\* The command register is written even if the command is then refused.
WriteCommand(cmd) ==
    dm' = PerformAbstractCommand([dm EXCEPT !.command = cmd]) /\ UNCHANGED cpu

\* The access triggers the command left in the command register.
Autoexec(d, on) == IF ~dm.busy /\ on THEN PerformAbstractCommand(d) ELSE d

WriteData(v) ==
    LET d == BusyError(IF dm.busy THEN dm ELSE [dm EXCEPT !.dmdata = v])
    IN  dm' = Autoexec(d, dm.autoexecdata) /\ UNCHANGED cpu

ReadData ==
    dm' = Autoexec(BusyError(dm), dm.autoexecdata) /\ UNCHANGED cpu

\* Unlike the data registers, no error is recorded when the module is busy.
WriteProgBuf(i, word) ==
    LET d == IF dm.busy THEN dm ELSE [dm EXCEPT !.program_buffer[i] = word]
    IN  dm' = Autoexec(d, i \in dm.autoexecprogbuf) /\ UNCHANGED cpu

ReadProgBuf(i) ==
    dm' = Autoexec(dm, i \in dm.autoexecprogbuf) /\ UNCHANGED cpu

\* cmderr is cleared by writing ones to all its bits.
WriteAbstractcs == dm' = [dm EXCEPT !.cmderr = CMDERR_NONE] /\ UNCHANGED cpu

WriteAbstractauto(data, progbuf) ==
    /\ dm' = [dm EXCEPT !.autoexecdata = data, !.autoexecprogbuf = progbuf]
    /\ UNCHANGED cpu

\* Mutant: busy is cleared when the cycles have passed, completed or not.
TickRunTestIdle_NoWait(d) ==
    LET left == IF d.rti_remaining > 0 THEN d.rti_remaining - 1 ELSE 0
    IN  [d EXCEPT !.rti_remaining = left, !.busy = @ /\ left # 0]

\* Mutant: the count of cycles is not tested before it is decremented.
TickRunTestIdle_Underflow(d) ==
    [d EXCEPT !.rti_remaining = @ - 1, !.busy = @ /\ ~(d.rti_remaining <= 1 /\ d.completed)]

TickRunTestIdle(d) ==
    LET left == IF d.rti_remaining > 0 THEN d.rti_remaining - 1 ELSE 0
    IN  [d EXCEPT !.rti_remaining = left,
                  !.busy = @ /\ ~(left = 0 /\ d.completed)]

run_test_idle == dm' = TickRunTestIdle(dm) /\ UNCHANGED cpu

-----------------------------------------------------------------------------
(* The hart's side: debug memory as it is fetched, read and written.       *)

\* The word at an address of the module's memory.  A fetch past the program
\* buffer reads the data registers; it is taken to be an illegal word.
FetchDebug(c, d) ==
    IF c.pc \in RomAddress
      THEN Rom[(c.pc - DEBUG_ROM_ENTRY) \div 4 + 1]
    ELSE IF c.pc = DEBUG_ROM_WHERETO
      THEN jal(debug_abstract_start)
    ELSE IF c.pc \in AbstractAddress
      THEN d.debug_abstract[(c.pc - debug_abstract_start) \div 4 + 1]
    ELSE IF c.pc \in ProgBufAddress
      THEN d.program_buffer[(c.pc - debug_progbuf_start) \div 4 + 1]
    ELSE [op |-> "fault", code |-> EXC_II]

FlagsByte(d) == (IF "GO" \in d.debug_rom_flags THEN 1 ELSE 0)
              + (IF "RESUME" \in d.debug_rom_flags THEN 2 ELSE 0)

\* andi s0, s0, 1 << flag
FlagBit(byte, flag) == IF flag = "GO" THEN byte % 2 ELSE 2 * ((byte \div 2) % 2)

SetS0(v) == [op |-> "set", reg |-> "s0", val |-> v, len |-> 4]

\* A symbolic word as the instruction the hart executes in state c.
Resolve(word, c, d) ==
    CASE word.op = "csrw_s0" ->
           [op |-> "csr", csr |-> word.csr, val |-> CsrValue(word.csr, c.regs["s0"]), len |-> 4]
      [] word.op = "csrr_s0"    -> SetS0(CsrWord(c, word.csr))
      [] word.op = "mhartid_s0" -> SetS0(0)
      [] word.op = "lw_data"    -> [op |-> "set", reg |-> word.reg, val |-> d.dmdata, len |-> 4]
      [] word.op \in {"sw_data", "store"} -> nop
      [] word.op = "lbu_flags"  -> SetS0(FlagsByte(d))
      [] word.op = "andi_s0"    -> SetS0(FlagBit(c.regs["s0"], word.flag))
      [] word.op = "bnez_s0"    -> IF c.regs["s0"] # 0 THEN jal(word.to) ELSE nop
      [] OTHER -> word

\* Mutant: completion is noted only when the hart is newly halted.
NoteHalted_OnEntry(d) ==
    [d EXCEPT !.halted = TRUE,
              !.completed = @ \/ (~d.halted /\ "GO" \notin d.debug_rom_flags)]

NoteHalted(d) ==
    [d EXCEPT !.halted = TRUE, !.completed = @ \/ "GO" \notin d.debug_rom_flags]

\* Mutant: the GO flag is not taken back when the hart goes.
NoteGoing_KeepFlag(d) == d

NoteGoing(d) == [d EXCEPT !.debug_rom_flags = @ \ {"GO"}]

\* Mutant: the resume request is not taken back.
NoteResuming_KeepFlag(d) == [d EXCEPT !.halted = FALSE, !.resumeack = TRUE]

\* Mutant: the resume request is taken back and not acknowledged.
NoteResuming_NoAck(d) == [d EXCEPT !.halted = FALSE, !.debug_rom_flags = @ \ {"RESUME"}]

NoteResuming(d) ==
    [d EXCEPT !.halted = FALSE, !.resumeack = TRUE, !.debug_rom_flags = @ \ {"RESUME"}]

\* Mutant: the exception report is lost.
NoteException_Lost(d) == d

NoteException(d) ==
    [d EXCEPT !.cmderr = IF @ = CMDERR_NONE THEN CMDERR_EXCEPTION ELSE @]

\* debug_module_t::write: what a word executed in state c stores in the module.
HartStore(d, word, c) ==
    CASE word.op = "sw_data" -> [d EXCEPT !.dmdata = c.regs[word.reg]]
      [] word = store("HALTED")    -> NoteHalted(d)
      [] word = store("GOING")     -> NoteGoing(d)
      [] word = store("RESUMING")  -> NoteResuming(d)
      [] word = store("EXCEPTION") -> NoteException(d)
      [] OTHER -> d

\* One CPU::step that executes `word'.
HartStep(word) ==
    LET c == BeginStep(cpu)
    IN  /\ cpu' = StepEffect(cpu, Resolve(word, c, dm))
        /\ dm' = HartStore(dm, word, c)
=============================================================================
