# Formal models of the MLDR187 simulator

The simulator executes firmware of the MLDR187 microcontroller: a RISC-V hart
(RV32IMC, `core/`), memories and peripherals (`modules/`), and a RISC-V debug
module that OpenOCD reaches through a JTAG transport over a TCP socket. This
directory holds TLA+ models of the parts whose behaviour depends on the order of
events, TLC configurations that check them on small instances, and TLAPS proofs.

Paths below are relative to `src/`.

## 1. The system

One thread runs everything. `main` (`main.cpp`) builds a bus of devices and calls
`Core::step` for ever; a console thread only sets `stop_request`. `Core::step`
(`core/src/Core.cpp:8`) is one `CPU::step` and then `Bus::tick`, which ticks every
device in the order `main` created them.

| component | state | operations | what makes it correct |
|---|---|---|---|
| Hart (`core/src/CPU.cpp`) | pc, registers, CSRs, privilege, `debug_mode`, `single_step`, `halt_request`, mip/mie | `step`, `handle_exception`, `take_interrupt`, `enter_debug_mode`, DRET, MRET, EBREAK, CSR instructions, `reset`, `raise_ext_interrupt` | debug mode entered with its context saved once; a single step neither lost nor left over; interrupts kept while in debug mode |
| Debug module (`modules/debug/src/debug_module.cpp`) | dmcontrol, abstractcs, command, abstractauto, data and program buffer, `hart_state`, ROM flags, `abstract_command_completed`, `rti_remaining` | DMI reads and writes (debugger), memory reads and writes (hart), `run_test_idle` (transport) | commands run exactly once; busy and halted tell the truth; the interrupted program finds its registers unchanged; errors are reported |
| Debug ROM (`modules/debug/include/debug_rom.h`) | none | executed by the hart: entry, park loop, going, exception, resume | every path gives s0 back |
| JTAG transport (`jtag_dtm.cpp`) | TAP state, ir, dr, dmi, bypass, `busy_stuck`, `rti_remaining`, last pins | `set_pins`, `reset` | accesses are the words shifted in, spaced by idle cycles, refused while busy |
| Remote bitbang (`remote_bitbang.cpp`) | socket, command buffer | `tick`, `execute_commands` | a tick ends when the TAP enters Run-Test/Idle |
| PLIC (`modules/plic`) | pending, enable, priority, threshold | `tick`, claim (read ICC), complete (write ICC) | every request reaches the hart and is claimed once |
| Timer, UART (`modules/timers`, `modules/uart`) | CNT, ARR, STATUS, IE; receive buffer, IMSC | `tick`, register accesses | events are served, bytes are not lost |
| Receive buffer (`utils/src/FIFO.cpp`) | array, head, stored | `push`, `pop` | a queue that drops its oldest element |
| SPI controller, serial flash, GPIO (`modules/spi`, `modules/gpio`) | receive buffer; position in a command, command, address, memory; pin levels and callbacks | register accesses, chip select edges | the bytes between two edges are decoded as the driver meant them, the answers arrive in order, the memory changes only as commanded |
| Internal flash (`modules/flash`) | two banks, register file | program, erase | only the addressed word or page of the chosen bank changes |
| System bus access (`debug_module.cpp`) | sbcs, sbaddress, sbdata | DMI reads and writes | a block read delivers what memory held at consecutive addresses |
| Bus, memory, clock and backup registers | address ranges, bytes | `read`, `write`, `tick` | an access reaches the one device that owns the address |
| Decoder and arithmetic (`core/src/Instruction.cpp`, `CPU.cpp`) | pc and registers | decode, execute, encode | agree with the encoders, with `decode.h` and with the mathematical operations |
| Debug registers (`modules/debug/include/debug_defines.h`) | none | pack and unpack words | what a debugger reads decodes to what the module holds |

Interactions: the debugger's writes set flags in debug memory that the hart polls
from the ROM, and the hart's stores to debug memory set fields the debugger polls.
The debug module writes `cpu.halt_request` and calls `CPU::reset` directly. The
transport calls `dmi_read`, `dmi_write` and `run_test_idle`. Devices raise
interrupts into `Core::pending_peripheral_interrupts`, which the PLIC takes over at
its *next* tick and then latches into `mip`.

What is hard: the debugger, the hart inside debug mode and the transport's clock
interleave instruction by instruction; resets fall between any two steps; flags are
polled twice per turn of the park loop; halt requests, breakpoints and expiring
single steps coincide; interrupt requests pass through a one-tick pipeline and a
latch. `PROJECT.json` lists these hazards line by line with the properties aimed at
them.

## 2. Modules

| module | models | composes |
|---|---|---|
| `Hart` | the hart: `CPU::step`, traps, interrupts, debug mode, reset | |
| `HartProofs` | its invariants and action properties, proved | `Hart` |
| `DebugModule` | DMI handlers, the ROM word by word, abstract commands, the hart's accesses to debug memory | `Hart` |
| `DebugSystem` | debugger + debug module + hart under `Core::step` | `DebugModule` |
| `DebugTarget` | the abstract specification: what hart, ROM and module promise a debugger | |
| `DebugRefinement` | the debug system as a debug target: the refinement mapping | `DebugSystem`, `DebugTarget` |
| `DebugSystemProofs` | its safety and action properties and the refinement, proved | `DebugRefinement` |
| `JtagDtm` | the TAP and the DMI accesses of DBUS scans, as operators | |
| `DmiPort` | the abstract specification: what transport and server promise a scanning client | |
| `RemoteBitbang` | the ticks of the socket server and a scanning client; the refinement mapping | `JtagDtm`, `DmiPort` |
| `RemoteBitbangProofs` | its properties and the refinement, proved | `RemoteBitbang` |
| `Interrupts` | timer, UART, PLIC, pending requests, hart, firmware | `Hart` |
| `InterruptsProofs` | types, current requests and the spurious interrupts of a disciplined firmware, proved | `Interrupts`, `HartProofs` |
| `FIFO`, `LossyQueue` | the ring buffer, and the queue it implements | |
| `SerialFlash` | SPI controller, flash chip and select pin, and the firmware that drives them | `FIFO` |
| `SerialFlashProofs` | the refinement of the ring buffer, and the properties of the controller, proved | `SerialFlash` |
| `Words`, `Decoder`, `Encoding` | 32-bit words; `Instruction::decode`; the encoders and the accessors of `decode.h` | |
| `Instructions` | the instructions that compute, jump and branch, run one after the other | `Encoding` |
| `InstructionsProofs` | the decoder's agreement with `Encoding`, for every word, and the properties of execution, proved | `Instructions` |
| `SystemBus` | bus, memories, internal flash, system bus access, under debugger and program | |
| `SystemBusProofs` | its properties, proved | `SystemBus` |
| `DmiRegisters` | layouts and addresses of the debug registers, their words, the decoding of what is written | `Words` |
| `MemoryMap` | the address ranges of the devices of `main` | |
| `LayoutProofs` | words tell the state, every address has one owner, proved | `DmiRegisters`, `MemoryMap` |
| `MC...` | instances for TLC | |

The hart, the debug module, the PLIC, the devices, the flash chip and the TAP are records; each C++
member function that changes one is an operator from records to records with the
function's name (`EnterDebugMode` for `enter_debug_mode`), so that a caller is the
composition of its callees in the order of the code. The operators named
`X_Something` and marked "Mutant" are defects used to see that each property can
fail; no specification uses them.

### Hart
`cpu` is the `CPU` object. `StepEffect` is `CPU::step`: `BeginStep` (lines 108-110,
the halt request), `RunInstruction` (112-120, execution, the `catch`, and the
interrupt that only an instruction that completes lets in), `EndStep` (122-127). Instructions are
records that say how they leave the sequential stream, and which modelled register
or CSR they write. Init is the state after `Core::reset`; `ResetHart` is
`CPU::reset`, which turns a hart in debug mode into one with a halt request.

Abstracted: what arithmetic, loads and stores compute; general registers other than
s0 share the name s1; of dcsr the fields cause, prv and step; of mstatus the enable
and previous-enable bits. A CSR instruction writes only its CSR (the general
register it also writes is one whose value nothing here depends on). CSR reads in
`Resolve` give s0 its exact value.

### DebugModule and DebugSystem
`dm` is the module. Its memory is symbolic: `Rom` lists the 29 words of
`debug_rom_raw`, `TransferCode` and `AbstractCode` assemble what
`perform_abstract_command` assembles, and `Resolve` gives a word its meaning in the
hart's current state, so the ROM, the abstract code and the program buffer are
executed one word per `CPU::step`, at their real addresses. `HartStore` is the
module's `write`. `WriteDmcontrol`, `WriteCommand`, `WriteData`, `ReadData`,
`WriteProgBuf`, `ReadProgBuf`, `WriteAbstractcs`, `WriteAbstractauto` are the
branches of `dmi_write` and `dmi_read`; `run_test_idle` is itself.

`DebugSystem` adds the debugger, the observer's record `ghost` (which only
properties read), and the steps of the main loop: `CoreStep` (the hart),
accesses (at most one between two steps) and `RunTestIdle` (any number). That at
most one access falls between two steps is checked of the transport itself:
`OneAccessPerTick` of `RemoteBitbang`.

The debugger is any client that
 1. activates the module before using it;
 2. asks only a halted hart to resume, at an address outside debug memory, and until the
    acknowledgement only polls or requests a halt;
 3. resumes or resets the hart, clears cmderr and deactivates the module only when
    it has seen busy clear;
 4. raises one reset line at a time (`ResetLines` of the instances) and does not
    combine a reset with a halt request;
 5. puts words in the program buffer that stay in it until they end or fault, and that
    raise no interrupt (`Confined`).

Within these it does anything at any time, including using the command, data and
program buffer registers while a command executes. `Liberties` lifts the second half
of rule 4 for the run that shows what then happens (`halt_on_reset`). The hazards in
`PROJECT.json` say what goes wrong without the other rules.

The words of the registers are not part of the state: `RegistersTell` instantiates
`DmiRegisters` over the state of the module and of the hart.

System bus access does not touch any of this state and is in `SystemBus`. Left out:
authentication, halt groups, `data1` (registers are 32 bits), hart selection
(there is one hart, and `mhartid` is 0), `havereset` being set (`proc_reset`,
line 740, has no caller). Words that a longer abstract command left behind the
present one are dropped, since every code ends in a jump. Running off the end of the
program buffer reaches the data registers and is taken to be an illegal instruction
(`main` configures no implicit ebreak). The buffer starts at the address it has with
its 15 words, also in the instances with fewer. The program does not fault or
take interrupts in this composition; `Hart` alone does both.

### DebugTarget and DebugRefinement
`DebugTarget` is the system a debugger believes it talks to. Its hart has the program's pc,
privilege, s0 and s1 and dcsr's cause and step, and is `running`, `stopping` (in debug mode,
not yet reported), `halted` or `leaving` (resumption acknowledged, program not yet resumed).
Halted, it does one command at a time: `Start`, then `Move` in one step, then the program
buffer if the command says so (`RunBuffer`, `ReportException`), then `ReportEnd` and
`Complete`. There is no ROM, no flag, no polling and nothing is borrowed: each of these
actions leaves all other parts of the hart alone. `due` says that the next instruction is the
one of a single step. It is written from what the module answers a debugger, so it maps to no
lines of its own.

`DebugRefinement` says where the system keeps this state. Nearly everything depends on the
address at which the hart is: `TargetMode` tells a session that enters from one that leaves,
`TargetHart` finds s0 in the register or in dscratch0 (`InScratch`) and pc in dpc,
`TargetJob` tells how far a command is by the flag GO, the word of the code at hand
(`Moving`), the exception path and the completion flag, and `TargetDue` is a step still
armed. A hart that a reset took out of debug mode while it is reported halted counts as
halted, since its next step takes it back. `ImplementsTarget` is `Target!Spec`: the words of
code that borrow s0 to move a CSR are one `Move`, and the park loop is a stutter.

The target promises the debugger no more than the module keeps: an access to a busy module
may leave an error (`Intrude`) but need not, a reset forgets the step that was due, and
`dscratch0` names the program's s0.

### JtagDtm and RemoteBitbang
`tap` is `jtag_dtm_t` with shorter registers: 3 bits of instruction instead of 5, 3
bits of DBUS instead of 40, and of dtmcontrol the two bits a client writes. The
answer of the debug module is any. `set_pins` keeps the late sampling (the pins of
the *previous* call count at a rising edge) and that every call which is not a
rising edge, a repeated level included, takes the branch for falling edges. Init
leaves `ir`, `dr`, `rti_remaining` and `busy_stuck` arbitrary, because the
constructor does. A tick may end after any command (the code ends it when it finds
no more or has executed enough), and ends at once when the TAP enters
Run-Test/Idle.

The client holds TMS and TDI through the rising edge and repeats a low level only
where it lets the TAP rest (Test-Logic-Reset, Run-Test/Idle, the two pauses), as
OpenOCD's bitbang driver does. A client that repeated a level in Update-DR would
repeat the access (`jtag_dtm.cpp:101`).

`DmiPort` is the transport as that client sees it: a port that owes idle cycles (`owed`), refuses a
scan that begins too early (`RefuseScan`, until `Clear` or `HardReset`), collects the bits of
any other (`Shift`) and executes it once when it ends (`Execute`), with at most one call of the
debug module in a tick of the server. It has no TAP, no pins and no registers, is written from what a
client is answered, and maps to no lines of its own. `ImplementsPort` is the claim that transport and
server are such a port. Idle cycles owed are `rti_remaining` and a port that refuses is `busy_stuck`.
Whether a scan is open (`Open`) is read off the state of the TAP and the level of TCK, since both
capture and update happen at falling edges: it is open from the one to the other, if `ir` selects
DBUS and the capture was not refused. `word` is what the client has shifted since. An update of
dtmcontrol is `Clear` or `HardReset`; walks, pauses, repeated levels, idle cycles that nobody waits
for and scans of other registers are `Rest`. A pause does not close a scan.

### Interrupts
One action is `Core::step`: the instruction, whose access to a device register is
part of it, then the ticks of PLIC, UART and timer in the order of `main`.
`TickRequests` is what the devices raise in a tick and the PLIC takes over in the
next. The firmware is a small program of `MCInterrupts`: set-up code, a main loop,
and a handler that claims, serves, completes and returns. It is the environment, not
part of the simulator. `service` stands for the device access with which the handler
clears its cause: the timer's status, or one byte of the UART's data register.

The theorems hold for firmware in general. What some of them need of it is `Disciplined(f)`, where `f` names its
parts: the addresses of a set-up that runs first, of the main program, of the handler and the
handler's entry. The set-up configures devices and PLIC; the entry claims; the handler serves and
completes, keeps the line it has claimed, and alone returns; only the main program
enables interrupts, changes mepc only to an address of its own, and nothing writes mip. What the words
compute, how many there are and which of them run is open. `FirmwareDisciplined` states that the
firmware of `MCInterrupts` is one.

### FIFO
`Push` and `Pop` are `push` and `pop`; `popped` is the returned value. `LossyQueue`
is the abstract specification; `Contents` is the refinement mapping.

### SerialFlash
The receive buffer is the one of `FIFO`, so the refinement to `LossyQueue` is checked
and proved again with the SPI controller as its user. `flash` is the chip:
`cmd_offset`, `cmd`, `addr` and `data` of `JEDEC_SPI_Flash`. `SendNext` is a write of
the data register (`exchange_data`, then the push of its answer), `Receive` a read of
it, `Select` and `Deselect` the writes of SETTX and CLRTX that move the pin, with the
callback that ends a command (and erases). `OtherPin` writes pins which the callback
has to ignore. The firmware is the environment: it first raises the select pin and
empties the buffer, then selects, sends, reads, deselects, and reads what is left
(`RaiseSelect`, `Drain`, `Drained`). `Restart` puts the firmware back at its beginning between any two accesses. The members the constructor
leaves uninitialised hold any `Garbage`; `driver.known` tells the properties
that an edge has set them. The firmware may send when the status register says that the
buffer is full (`SendBlindly`), and then the oldest answer is dropped.

### Words, Decoder, Encoding, Instructions
A word is the set of its one bits: fields, shifts and sign extension are set
comprehensions, union is the `or` of the code, and all formats keep their 32 bits.
`Decoder` has one operator per `decode_type_...`. `Encoding` has the two other
readings of the same bits in the repository: `insn_t` of `decode.h`, and the encoders of
`Instruction.cpp` with which the debug module assembles code.

`Instructions` executes them. A register has `XLEN` bits, and shifts, products,
divisions, comparisons and jumps are computed at this width (numbers wrap at
`2^XLEN`): 32 in the code, 4 in the run; below 32 an immediate is cut to its low bits and its
sign. `RegOf` names the register of each of the 32 numbers: in the code all differ, in the run there is
x0, one register for the even numbers and one for the odd ones. What
loads and CSR reads answer is any value: `Hart` and `SystemBus` model where it comes from.

### SystemBus
`read`, `write`, `get_device` and `is_within` are the bus; `Written` dispatches a
store to a memory or to the flash controller, whose `write_reg` may erase a page or program a
word of the main or information bank. A byte has one bit; addresses, lengths, alignment and
the address wrap are those of the code. Two masters use it: the program stores, and
the debugger writes `sbcs`, `sbaddress0` and `sbdata0` and reads `sbdata0`.
`ended` is set when an exception leaves `sb_write`: nothing catches it, and the simulator
ends. `origin` is a history variable that only properties read. `SystemInit` leaves
the `clear_on_reset` of memories that own their bytes arbitrary, as their constructor does.

### DmiRegisters
A layout maps each field of a register to `<<offset, length>>`, as `debug_defines.h`
defines them; `Pack` and `Unpack` are the sequences of `set_field` and `get_field` in
`dmi_read` and `dmi_write`. `HART_DCSR` is the layout of `bits.h`, by which the hart
keeps the dcsr that a debugger reads by `debug_defines.h`. The DMI addresses, and
which are readable and writable, are there too.

### MemoryMap
The address ranges and priorities that the devices `main` creates report, computed from
the register files of `MLDR187.h`. It has no state and therefore no run: its theorems are
its point. `OneOwner` is why `SystemBus` may assume that two devices of one priority do not overlap.

## 3. Runs

Every run is `tlc -config X.cfg M`; `PROJECT.json` names the module, the properties
and one mutant per property.

| run | question | bounds | distinct states |
|---|---|---|---|
| `hart` | is debug mode entered and left cleanly, whatever is executed? | 13 instructions, 6 addresses | 223 000 |
| `debug_transfer` | do register transfers and the program buffer work under every interleaving, faults and system resets included? | 3 commands, 1 word of program buffer | 3.4 million |
| `debug_step` | single stepping, custom and unsupported registers, autoexecution, hart resets; do the registers tell the state, and is the whole a debug target? | 3 commands, autoexecution on the data register and the buffer | 950 000 |
| `debug_live` | do commands, halts and resumes always finish? | 1 command | 193 000 |
| `jtag` | does the transport deliver what was shifted, once, and spaced? | 3-bit instructions, 3-bit DBUS, 2 idle cycles | 2.1 million |
| `interrupts` | is every timer event and every byte served? | 5 bytes, buffer of 2, ARR 17 | 7 700 |
| `spi` | does the firmware read the answers to what it sent, and does the chip change only as told? | bytes of 3 bits, 2 sectors of 2 bytes, commands of up to 6 bytes, buffer of 2 | 324 000 |
| `instructions` | is every word decoded, and computed with, as it should be? | registers of 4 bits; 1st word: every opcode and funct3 with each other bit in turn set and clear; then 63 words | 145 000 |
| `sysbus` | do blocks arrive, and does flash change only as flash does? | one word of main bank, 2 pages of information bank, 16 bytes of memory, 2 stores | 216 000 |
| `halt_on_reset`, `plic_priority`, `erase_sector` | see section 4 | as above | |

Why the bounds suffice. The hart's behaviour depends on an instruction only through
its class, and `MCHart` has every class that touches a modelled mechanism, at
addresses of the program, of the trap handler and of the ROM. A debugger that may
issue the same command again at any time, over a ROM that loops, reaches every
interleaving with one or two outstanding things: the module has one command
register, one busy bit and two flags, so longer sequences revisit states (no
counter in these runs is unbounded; TLC explores the whole reachable space). One
word of program buffer is enough to end, to fault and to run off the end. `abstract_rti` is 1
instead of 5: a larger value only delays the test for completion, and RunTestIdle
may happen any number of times or not at all between two steps. For the TAP all
16 states with all pins are explored; two idle cycles distinguish none, too few and
enough. Five bytes overfill a buffer of two and its socket; ARR 17 leaves the program time for one
pass through the handler, which ARR below the handler's length would not (a timer
faster than its handler starves the program on the real part too). The first
`MaxBytes` bytes are the bound of `interrupts`.

In `spi`, six bytes are a command, its address and two bytes of data, so an answer can be
that of the wrong byte; four cells have a first and a second sector, and addresses
beyond the chip; a buffer of two wraps and overflows. In `instructions`, four
bits hold the most negative number, its division by -1 and shifts by the width; `FirstWords`
moves every bit of every format alone, which tells misplaced bits apart
(the proofs cover all words, and registers of 32 bits). In `sysbus`, `MaxStores` = 2 stores, of the program and the
debugger together, set the controller's address or data and start a command (the
registers start at 0), or erase and program; a block runs from the main bank through the
registers and the memory to the first address without a device, and one address is odd.

Deadlock is checked in all runs but `sysbus`: there the simulator really ends when an exception
leaves `sb_write`.

What the properties say, beside the types:

- `hart`: `ArmedStepRunsProgram`, `DebugRunsInMachineMode`, `DebugContextSavedOnce`,
  `PendingSurvivesSession`. Halt request, ebreak, exception, expiring step and
  interrupt can meet in one `CPU::step`; these say what the meeting may not destroy.
- `debug_transfer`: `ProgramS0Preserved` (s0 is borrowed by every path of the ROM),
  `BusyWhileExecuting`, `HaltedIsTruthful`, `CommandRunsOnce`, `TransferAgrees`,
  `ExceptionIsReported`. Together they are what a debugger relies on when it polls busy.
- `debug_step`: `SingleStepRunsOne`, `ResumesOncePerRequest`, and `RegistersTell`: the
  words of dmstatus, abstractcs, abstractauto and dcsr decode to the state, with two header
  files that lay out dcsr independently. What says nothing of the state (dmcontrol and sbcs
  read back, the layouts of dcsr and of the transport's word) is the assumption `MCLayouts`.
  `ImplementsTarget` says that all of this together is a `DebugTarget`: no interleaving shows a command half
  done, a register displaced or a halt that is not one.
- `debug_live`: `CommandCompletes`, `HaltRequestHonoured`, `ResumeHonoured`.
- `jtag` (its types are `TransportTypeCorrect`, proved and not checked here): `ImplementsPort`, the refinement, says that every walk of the
  TAP with every answer of the module is a port: a scan is executed whole and once, or refused. `FiveOnesReset`, `AccessIsAsShifted`, `AccessesAreSpaced`, `BusyIsObeyed`,
  `OneAccessPerTick`. The last justifies the granularity of `DebugSystem`: after an
  access `rti_remaining` is positive, the next scan is answered busy until idle cycles have
  been clocked, and clocking them means entering Run-Test/Idle, which ends the tick.
- `interrupts`: `RequestsAreCurrent`, `SpuriousNotRepeated` (the latch behind the
  PLIC causes at most one claim of nothing in a row), `TimerServed`,
  `BytesReachProgram`, `ProgramProceeds`.
- `spi`: `ReadsAreAnswers` (no read returns the answer to a byte of an earlier command, of an
  earlier life of the firmware, or of its neighbour), `ChangesAreCommanded` (no other pin, restart or
  leftover programs or erases), `IsLossyQueue` (the refinement).
- `instructions`: `ImmediatesAgree` and `CodeIsDecoded` compare the decoder with the
  repository's two other descriptions of the encoding; `DivisionsAreExact` and
  `TransfersLand` compare execution with the mathematical definitions.
- `sysbus`: `BlockReadDelivers` (sbdata is read ahead, and the address it was read from must
  keep pace with errors, writes and mode changes between) and `BackingMemoryKept` (the bank no
  address reaches, and memory hidden under registers).

Fairness. `WF(CoreStep)`: `main` calls `Core::step` until it is told to stop.
`WF(RunTestIdle)`: a debugger that waits for the module keeps clocking the TAP in
Run-Test/Idle, which is how OpenOCD polls. Nothing else is fair: no access of the
debugger, and no arrival of a byte, is assumed to happen.

## 4. Findings

1. **A halt request written together with a reset is lost** (`halt_on_reset`).
   `dmi_write` copies haltreq to the hart and then resets the hart, which overwrites it.
2. **The PLIC ignores priorities among waiting lines** (`plic_priority`):
   `max_priority` is never raised, so the highest line number wins.
3. **An erase command erases the first sector** (`erase_sector`), whatever its address.

Seen while modelling; the models contain each of them, or the environment's rules avoid
it, and no run is devoted to it:

- Debug module. A resume request of a running hart is kept and undoes the next halt; nor
  is resumereq ignored together with haltreq (`debug_defines.h:1576`). Accesses to a busy
  program buffer leave no error. A hartreset and an ndmreset in the same write reset the
  hart twice and forget that it was in debug mode. A command that writes dscratch0
  overwrites the program's s0; an exception in the program buffer overwrites the program's mepc and
  mcause. `hawindowsel` is read uninitialised. A failed DMI status is not sticky.
- System bus access. An exception in `sb_write` ends the simulator. After a failed read
  on a write of sbaddress0 the address is incremented all the same (`debug_module.cpp:689`). An
  unsupported size gives error 3 and bad alignment 2, where `debug_defines.h:2119-2138`
  numbers them 4 and 3.
- Bus and memory. A memory's constructor leaves `clear_on_reset` and its bytes
  uninitialised. `DEBUG_END` is 0xFFF and the range excludes its end, so the last byte of
  debug memory has no device.
- Decoder and arithmetic. The immediate of C.ANDI is not sign extended; the high half of
  signed products uses operands that were not sign extended; JALR does not clear bit
  0 of its target; reserved encodings of shifts are accepted; opcode 0x0f with funct3 of 2
  or more decodes as a CSR access.
- UART. `UART_Socket::read_byte` returns nothing after a successful `recv`.

## 5. Proofs

`HartProofs` proves, for every `Address`, `Value` and `Inst` that satisfy
`HartAssumption`:

- `TypeCorrect`, `ArmedStep`, `DebugPrivilege`: invariants. The inductive invariant is
  `IInv`, the conjunction of `TypeOK`, `ArmedStepRunsProgram` and
  `DebugRunsInMachineMode`. The middle one is needed because a step may begin armed at 1 and
  execute an ebreak that enters debug mode: only because the count is 1 does `EndStep`
  clear it in the same step, and only because DRET is the sole way to arm and leaves debug mode
  does 2 become 1 while the program runs. Each function of the hart has a lemma for
  its type and one for what it leaves alone (`...Frame`); `IInvStep` composes them
  as `CPU::step` does.
- `ContextSavedOnce` and `PendingSurvives`: action properties. `SessionStep` shows
  that a step that begins and ends in debug mode changes dpc, dcsr or mip only
  through a CSR instruction.

`DebugSystemProofs` proves all the properties of `debug_transfer` and
`debug_step`, the refinement included, for every program, every set of commands and program
buffer words, every size of the program buffer, every debugger and with or without the
liberty, under `DebugSystemAssumption`. The hart in a session is a program counter
in a ROM, and none of the properties is inductive without knowing where it is. `HandshakeInv` is
the inductive invariant. Its parts say

- `SessionInv`: a session runs in the ROM, in the code of the command or in the program buffer, with
  no step armed and no interrupt pending; the program runs outside debug memory;
- `HaltInv`: a hart called halted is in debug mode, or a reset has just cleared its debug
  mode and left a halt request that the next step takes (the one moment in which the module is
  ahead of the hart);
- `FlagsInv`: GO is up only for a command not yet launched, RESUME only for a hart that was
  asked to resume, and never while busy;
- `WhereInv`: what the module holds at each group of addresses. A hart in the code, at the
  launch or in the exception path has a command running; one that runs a command is at one
  of these places or in the entry that follows; one on its way out has been asked to;
- `ReadInv`: what the park loop has loaded from the flags into s0 and not yet acted on is
  still true. This is the race of the loop with the debugger, and the reason why
  the rules of the debugger forbid withdrawing what has been asked;
- `AccountInv`, `StepInv`: how often the command has been entered, whether its fault has
  reached cmderr, and what a single step still owes, as a function of the place of the hart;
- `AutoexecInv`: the command register, of which autoexecution makes a command, holds one.

The proof that a step keeps it splits `CoreStep` by the place of the hart: the program, each word
of the ROM (`RomStep`, one effect on pc, s0 and module per word), the code of the command
and the program buffer; and an access of the debugger by its effect on the module
(`AbstractEffect`, `ResumeEffect`, `ResetEffect`, ...). From it follow `SystemTypeCorrect`,
`ExecutesWhenBusy`, `HaltedTells`, `SingleStepTheorem`, `CommandOnce`, `ExceptionReported` and
`ResumesOnce`.

`ProgramKeepsS0` adds `S0Inv`: for each address of a session, whether the program's s0
is in s0 or in dscratch0 (`InRegister`, `InScratch`). It assumes `KeepsProgramS0`: the
debugger's own words do not write s0 or dscratch0 except through a transfer of s0; a debugger
that does so means to. `TransfersAgree` adds `TransferInv`: for each address of the
code, whether the word has been moved. It also assumes `KeepsTransferred`: a program buffer that runs
after the transfer leaves the transferred register alone. `MCKeeps` states that the runs satisfy both.

`DebugTargetImplemented` is the refinement, under `KeepsProgramS0` alone. Besides `HandshakeInv` and `S0Inv`
it needs `MoveInv`: a command enters the program buffer only if `postexec` says so, and between the
words of a CSR's move s0 holds the word on its way (dmdata when writing, the CSR when reading). `HartTold`
says what the target's hart is: the program's s0 is `ghost.s0` wherever it is kept, which is what `S0Inv` is for.
Then there is one lemma for each place of the hart (`RomTarget`, `EnterCodeTarget`, `CsrCodeTarget`, `RegCodeTarget`,
`PlainCodeTarget`, `BufferedTarget`, `LeaveTarget`, `HaltTarget`, `ProgramTarget`) and for each effect an access can
have (`AbstractTarget`, `UnnoticedTarget`, `ResumeTarget`, `ResetTarget`, `CompletionTarget`): the step is the named action of
the target, or a stutter. `AccessKinds` is what makes the list of effects complete.

`RegistersTold` needs only the types: `OneLayout` shows that the layouts of the instance `Dmi!` are those of
`LayoutProofs`, and `WordsTell` applies its theorems to the state of module and hart.

`RemoteBitbangProofs` proves all the properties of `jtag` for every register length and
number of idle cycles. The inductive invariant `TransportInv` adds to the types

- `ScanInv`: between capture and update of DBUS, the last bits the client shifted are the upper end of
  `dr`, so that at the update they are all of it (`AccessAsShifted`);
- `PathInv`: after n ones of TMS the TAP is within 5 - n steps of Test-Logic-Reset (`FiveOnesResetTap`);
- `IdleInv`: `rti_remaining` and the idle cycles since the last access make up at least what is required, and
  a scan that will not be refused began when none was left (`AccessesSpaced`). Neither half is inductive
  alone: an access needs only that its *capture* found no cycle left;
- `BusyInv`: a client told busy faces a transport whose `busy_stuck` is set (`BusyObeyed`);
- `TickInv`: after an access either the tick is over, or all idle cycles are still to come, or the TAP has been
  reset; in the last two cases another access takes a capture after a walk through Run-Test/Idle,
  where the tick ends (`OneAccess`).

`TransportImplementsPort` is the refinement. Besides `TransportInv` it needs `OpenOwesNothing`: no idle cycle is owed
while a scan is open, since the capture saw none and only a walk through Run-Test/Idle,
which ends the scan, changes that; without it an executed scan could be one that the port would
refuse. `LowImplements` goes through what a falling edge can be (the TAP rests, an idle
cycle, a capture of DBUS accepted or refused, an update of DBUS or of dtmcontrol, a reset), `HighImplements` through what a rising edge
can (a shift or a walk): each is the action of the port of that
name, or `Rest`. `ScanInv` says that the word of `Execute` ends with the bits shifted, and `TickInv`
that it is the only one of its tick.

`InterruptsProofs` proves `InterruptsTypeCorrect` and `CurrentRequests` for every firmware (a
word and a device access at every address) and every size of the buffer and limit of the timer. The types
need `BytesInv` (what waits in socket and buffer has arrived), since the bound on arrivals is
what keeps `available` in its range. The hart's part is `StepEffectType` and `RaiseExtType` of
`HartProofs`, whose variables are the same.

For every disciplined firmware it proves `SpuriousOnce` (`SpuriousNotRepeated`) and `HandlerRunsToReturn`
(`RunsFirmware`). The first is about two claims in a row that find nothing, with everything the
firmware, the devices and the latch do in between, and takes an invariant of three parts, `FirmwareInv`:

- `RunsFirmware(f)`: where the hart is and what that place relies on. A handler runs with interrupts disabled, returns
  to the main program and has in s1 the line it claimed; a set-up runs before the first claim, with
  interrupts disabled. `UndebuggedStep` shows that none of this meets debug mode, `TakeInterruptMachine` that a trap
  keeps it.
- `LatchHasLine(f)`: what a latched interrupt has behind it. After a claim of nothing no line that is pending
  goes away: the handler serves line 0, which is none; a write of ICC lasts only until the tick that takes the new
  requests over; and requests only grow while nothing is served (`RequestsGrow`, `CandidatesGrow`). And a trap clears mip, which
  the tick of the same step sets again only if it has found a line. Hence a trap that follows a
  claim of nothing finds a line, and its claim is not another.
- `SpuriousNotRepeated` and `InterruptsInv` themselves.

Some hypothesis of this kind is needed: a firmware that writes mip, for one, interrupts itself with no line
behind it as often as it likes.

`SerialFlashProofs` proves first, for every size and element set, `TypeCorrect` and `Refinement`
(`Spec => IsLossyQueue`) of the ring buffer: `HeldAppend` and `HeldTail` show that the refinement
mapping turns the modular index arithmetic into `Append` and `Tail`; a push into a
full ring is the composition of both.

It then proves `ReadsAnswered`, `ChangesCommanded` and
`BufferIsLossyQueue` for every size of chip, sector and buffer and every stream of bytes. Its
inductive invariant `SpiInvariant` adds to the types that, once an edge has been seen, the
chip's `cmd_offset`, `cmd` and `addr` are those of exactly the bytes sent since the last edge,
and that the buffer holds the answers to the bytes sent and not yet read: without the
first, nothing relates a data byte to the cell it changes, without the second a read tells
nothing. The lemmas about `Push` and `Pop` carry over, because the variables are the same.

`InstructionsProofs` proves `ImmediatesDecoded` and `CodeDecoded` for every one of the
`2^32` words: one lemma per format compares two sets of bit positions, and the theorem selects
the format. Then, for every set of words that may be fetched, registers of 2, 4, 8, 16 and 32 bits
and any naming of registers that keeps x0 apart, so for the 32 registers of 32 bits of the code,
it proves `InstrTypeCorrect`, `TransfersProved` and `DivisionsProved`: every operation stays in
a register (`OperationTyped`), and what each instruction writes and where it goes on
(`RegisterStep`, `JumpStep`, `BranchStep`, ...) is compared with the definitions. All that is needed of the
width is that a register holds the numbers below `2 H` for an `H` that is the immediate's sign
(`Widths`), so the arithmetic is that of wrapping at `2 H` for any `H` (`Wrapped`); only
`UnsignedRange`, which bounds the number that k bits make, looks at the widths one by one. `TruncDivExact` is the
core of the divisions: C's division, computed from magnitudes, leaves a remainder smaller than the
divisor with the sign of the dividend, and its quotient fits but for INT_MIN by -1. The type
invariant `InstrTypeOK` is inductive, and the only invariant the action properties need; no run
repeats it.

`SystemBusProofs` proves `BackingKept` and `BlockDelivers` for every layout of devices, size of
the flash and width of access. The inductive invariant is the types and
`AddressFollows`: while a word waits in sbdata, sbaddress is one access beyond (or at) the
address it came from. Without it nothing relates two consecutive reads.

`LayoutProofs` proves that the layouts do not overlap (`LayoutsDisjoint`), that the
words of dmstatus, abstractcs and sbcs decode to the state for every state, that debug mode entry
changes only cause and prv of a dcsr (`DcsrKept`), that dcsr means the same by the headers of hart and
debug module (`OneDcsr`) and that the masks of the transport are the fields of the standard (`OneTransport`), that
dmcontrol and sbcs written back as they were read change nothing but the error (`ControlKept`, `SbcsKept`), that a command
assembled from fields decodes to them, and that no DMI address names two registers, for every size of the program
buffer. Of `MemoryMap` it proves `OneOwner`, `AccessStaysInside` and `OthersAreMemory`, by
interval arithmetic on the ranges of all devices.

Assumptions, all of them evaluated by TLC in the runs:

- `HartAssumption`: the fixed addresses exist, 0 is a value, instructions are well formed.
- `DebugModuleAssumption` and `DebugSystemAssumption`: registers hold words, and addresses are words; a
  program of instructions that stay outside debug memory and do not fault (see section 2); program buffer words
  are `Confined`; the debugger writes values the registers have, and raises one reset line
  at a time.
- `JtagAssumption`: instruction codes are distinct and of one length, DBUS has at least one data bit, and at
  least one idle cycle is required (the code requires 5).
- `Disciplined(f)`, the hypothesis of `SpuriousOnce` and `HandlerRunsToReturn`; `FirmwareDisciplined` for the instance.
- `InterruptsAssumption`: a well formed firmware, a positive buffer, and interrupt numbers are values of
  registers, into which the claim reads them.
- `FIFOAssumption`: a positive size, 0 an element. `SerialFlashAssumption`: the three command bytes
  differ and are not 0.
- `InstructionsAssumption`: a width of 2, 4, 8, 16 or 32 (a power of two, because the code masks a shift
  amount with the width less one), and no number but that of x0 names its register.
- `SystemBusAssumption`: devices are aligned, have arrays of their own, and registers lie above memory.

Only model-checked is liveness: `CommandCompletes`, `HaltRequestHonoured`, `ResumeHonoured`, `TimerServed`,
`BytesReachProgram` and `ProgramProceeds`. Fairness is out of the prover's reach. Every invariant, action property
and refinement of a passing run is also a theorem.

## 6. Not modelled

- Authentication and halt groups, which `main` does not configure, and harts beyond the first.
- The reset values of BKP and RST_CLK registers (constants that answer the firmware's polling), and
  the bit constants of `MLDR187.h` and `debug_defines.h` that no code uses. These two
  headers are 7 300 of the implementation's 12 500 lines, nearly all of them constants without
  behaviour; only what the code uses of them is mapped.
- Files: loading and saving the internal and the serial flash. The content of the
  latter at the start is arbitrary.
- Sockets: accepting and losing clients, and the command buffer of `remote_bitbang`.
- The console thread, which stops the main loop.
- tdo; sign extension of LB and LH; `sbaddress1` to `3`, which nothing carries into.

## 7. Plan

What is left, in the order of what matters most:

1. The other rules of the debugger as liberties with runs of their own, where the
   repository's texts contradict the code.
2. `DmiPort` below `DebugSystem`: the port is stated and implemented; what is left is a composition in
   which its calls are the accesses of the debugger, and its ticks the steps of the hart.
