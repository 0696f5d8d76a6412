----------------------------- MODULE SerialFlash -----------------------------
(***************************************************************************)
(* The external flash: the SPI controller (modules/spi/src/spi.cpp), the   *)
(* chip behind it (JEDEC_SPI_Flash.cpp), and the port whose pin selects    *)
(* it (modules/gpio/src/GPIO.cpp), under the firmware that drives them.    *)
(*                                                                         *)
(* The variables of FIFO are the controller's receive buffer.  A command   *)
(* is a position in a stream of bytes: the chip starts a new one at every  *)
(* edge of its select pin, decodes bytes 1 to 4 as command and address,    *)
(* and answers every byte with one that waits in the receive buffer.       *)
(*                                                                         *)
(* The firmware (`driver') is the environment.  It selects the chip, sends *)
(* and reads, deselects, and reads what is left.  It may be reset between  *)
(* any two accesses; the devices are not.                                  *)
(***************************************************************************)
EXTENDS FIFO

CONSTANTS
    ByteBase,       \* 256 in the code
    MemSize,        \* bytes of the chip, `size'
    SectorSize,     \* 0x1000 in the code
    Code,           \* the command bytes of flash_command_e
    Pin, CsPin,     \* the pins of the port, and the one that selects the chip
    Stored,         \* what the save file may hold
    Garbage,        \* bytes an uninitialised member may hold
    Stream          \* Stream[i]: bytes the firmware may send as the i-th of a command

Byte == 0..ByteBase-1

ASSUME SerialFlashAssumption ==
    /\ ByteBase \in Nat \ {0}
    /\ Elem = Byte
    /\ MemSize \in Nat /\ SectorSize \in Nat \ {0}
    /\ Code \in [{"READ_DATA_SLOW", "PROGRAM_PAGE", "ERASE_SECTOR_4K"} -> Byte \ {0}]
    /\ Code["READ_DATA_SLOW"] # Code["PROGRAM_PAGE"]
    /\ Code["READ_DATA_SLOW"] # Code["ERASE_SECTOR_4K"]
    /\ Code["PROGRAM_PAGE"] # Code["ERASE_SECTOR_4K"]
    /\ CsPin \in Pin
    /\ Stored \subseteq [0..MemSize-1 -> Byte]
    /\ Garbage \subseteq Byte
    /\ Stream \in Seq(SUBSET Byte)

VARIABLES
    flash,          \* the chip: [cmd_offset, cmd, addr, data]
    pin_mask,       \* the levels of the port, as the set of pins that are high
    driver          \* the firmware: [phase, sent, read, known]

\* driver.sent: the bytes given to the chip since the last edge of its select pin;
\* driver.read: how many of their answers have left the receive buffer;
\* driver.known: the chip has seen an edge, so its state is no longer garbage.
spiVars == <<data, head, stored, popped, flash, pin_mask, driver>>

Phase == {"boot", "drain", "idle", "busy"}

\* The members of JEDEC_SPI_Flash.
ChipState == [ cmd_offset : Nat, cmd : Byte, addr : Nat, data : [0..MemSize-1 -> Byte] ]

Erased == ByteBase - 1

-----------------------------------------------------------------------------
(* JEDEC_SPI_Flash.                                                        *)

\* The byte at position cmd_offset of a command, shifted to its place in the address.
Shifted(byte, cmd_offset) ==
    IF cmd_offset = 1 THEN byte * (ByteBase * ByteBase)
    ELSE IF cmd_offset = 2 THEN byte * ByteBase
    ELSE byte

\* The cell that a data byte of a command belongs to.
Cell(f) == f.addr + (f.cmd_offset - 4)

\* Mutant: the answer to a data byte is that of the next one.
exchange_data_Early(f) ==
    IF /\ f.cmd_offset >= 4
       /\ f.cmd = Code["READ_DATA_SLOW"]
       /\ Cell(f) + 1 < MemSize
      THEN f.data[Cell(f) + 1]
      ELSE 0

\* The answer to a byte; the status register is always 0.
exchange_data(f) ==
    IF /\ f.cmd_offset >= 4
       /\ f.cmd = Code["READ_DATA_SLOW"]
       /\ Cell(f) < MemSize
      THEN f.data[Cell(f)]
      ELSE 0

\* The chip after a byte.
exchange_bytes(f, byte) ==
    IF f.cmd_offset = 0
      THEN [f EXCEPT !.cmd = byte, !.addr = 0, !.cmd_offset = 1]
    ELSE IF f.cmd_offset < 4
      THEN [f EXCEPT !.addr = f.addr + Shifted(byte, f.cmd_offset),
                     !.cmd_offset = f.cmd_offset + 1]
    ELSE IF f.cmd = Code["PROGRAM_PAGE"] /\ Cell(f) < MemSize
      THEN [f EXCEPT !.data = [f.data EXCEPT ![Cell(f)] = byte],
                     !.cmd_offset = f.cmd_offset + 1]
    ELSE [f EXCEPT !.cmd_offset = f.cmd_offset + 1]

\* The place erased is the first sector, whatever the address.
erase_page(f) ==
    IF (f.addr % SectorSize) + SectorSize > MemSize
      THEN f.data
      ELSE [c \in 0..MemSize-1 |-> IF c < SectorSize THEN Erased ELSE f.data[c]]

on_cs_fall(f) == [f EXCEPT !.cmd_offset = 0, !.cmd = 0, !.addr = 0]

on_cs_rise(f) ==
    [ cmd_offset |-> 0, cmd |-> 0, addr |-> 0,
      data |-> IF f.cmd = Code["ERASE_SECTOR_4K"] THEN erase_page(f) ELSE f.data ]

-----------------------------------------------------------------------------
(* GPIO_module::write.  Only the select pin has a callback.                *)

\* Mutant: the callback runs although its pin has not changed.
PinChanges_Always(pin, mask) == TRUE

PinChanges(pin, mask) == (pin \in pin_mask) # (pin \in mask)

set_pin_mask(mask) ==
    /\ pin_mask' = mask
    /\ flash' = IF ~PinChanges(CsPin, mask) THEN flash
                ELSE IF CsPin \in mask THEN on_cs_rise(flash)
                ELSE on_cs_fall(flash)

WriteRXTX(mask) == set_pin_mask(mask)
WriteSETTX(pins) == set_pin_mask(pin_mask \cup pins)
WriteCLRTX(pins) == set_pin_mask(pin_mask \ pins)

-----------------------------------------------------------------------------
(* SPI_module::read and write.                                             *)

get_status_flags == [RNE |-> ~empty, RFF |-> full]

WriteDR(byte) ==
    /\ Push(exchange_data(flash))
    /\ flash' = exchange_bytes(flash, byte)
    /\ UNCHANGED pin_mask

ReadDR == Pop /\ UNCHANGED <<flash, pin_mask>>

-----------------------------------------------------------------------------
(* The firmware.  Its first act is to raise the select pin.                *)

\* The observer's account of an edge of the select pin.
AtEdge(phase) ==
    driver' = [ phase |-> phase, sent |-> <<>>, read |-> 0, known |-> TRUE ]

RaiseSelect ==
    /\ driver.phase = "boot"
    /\ WriteSETTX({CsPin})
    /\ IF CsPin \in pin_mask THEN driver' = [driver EXCEPT !.phase = "drain"] ELSE AtEdge("drain")
    /\ UNCHANGED fifoVars

\* Bytes left in the receive buffer are thrown away before the next command.
Drain ==
    /\ driver.phase = "drain"
    /\ get_status_flags.RNE
    /\ ReadDR
    /\ UNCHANGED driver

Drained ==
    /\ driver.phase = "drain"
    /\ ~get_status_flags.RNE
    /\ driver' = [driver EXCEPT !.phase = "idle"]
    /\ UNCHANGED <<fifoVars, flash, pin_mask>>

Select ==
    /\ driver.phase = "idle"
    /\ WriteCLRTX({CsPin})
    /\ AtEdge("busy")
    /\ UNCHANGED fifoVars

\* A byte of the command, sent when its answer has a place to wait.
Send(byte) ==
    /\ driver.phase = "busy"
    /\ ~get_status_flags.RFF
    /\ WriteDR(byte)
    /\ driver' = [driver EXCEPT !.sent = Append(driver.sent, byte)]

\* A firmware that does not look at the flag: the oldest answer is lost.
SendBlindly(byte) ==
    /\ driver.phase = "busy"
    /\ full
    /\ WriteDR(byte)
    /\ driver' = [driver EXCEPT !.sent = Append(driver.sent, byte), !.read = driver.read + 1]

Receive ==
    /\ driver.phase = "busy"
    /\ get_status_flags.RNE
    /\ ReadDR
    /\ driver' = [driver EXCEPT !.read = driver.read + 1]

Deselect ==
    /\ driver.phase = "busy"
    /\ WriteSETTX({CsPin})
    /\ AtEdge("drain")
    /\ UNCHANGED fifoVars

\* The other pins of the port are written too, with the levels read from it.
OtherPin(pin) ==
    /\ pin # CsPin
    /\ WriteRXTX(IF pin \in pin_mask THEN pin_mask \ {pin} ELSE pin_mask \cup {pin})
    /\ UNCHANGED <<fifoVars, driver>>

\* CPU::reset restarts the program and leaves every device as it is.
Restart ==
    /\ driver.phase # "boot"
    /\ driver' = [driver EXCEPT !.phase = "boot"]
    /\ UNCHANGED <<fifoVars, flash, pin_mask>>

\* The constructors leave cmd, addr, pin_mask and the buffer's array uninitialised.
SpiInit ==
    /\ Init
    /\ flash \in [ cmd_offset : {0}, cmd : Garbage, addr : Garbage, data : Stored ]
    /\ pin_mask \in SUBSET Pin
    /\ driver = [ phase |-> "boot", sent |-> <<>>, read |-> 0, known |-> FALSE ]

SendNext ==
    /\ Len(driver.sent) < Len(Stream)
    /\ \E byte \in Stream[Len(driver.sent) + 1] : Send(byte) \/ SendBlindly(byte)

SpiNext ==
    \/ RaiseSelect \/ Drain \/ Drained
    \/ Select \/ SendNext \/ Receive \/ Deselect
    \/ \E pin \in Pin : OtherPin(pin)
    \/ Restart

SpiSpec == SpiInit /\ [][SpiNext]_spiVars

-----------------------------------------------------------------------------
(* Properties.                                                             *)

\* The receive buffer's indices and the chip's position stay in range.
SpiTypeOK ==
    /\ TypeOK
    /\ flash \in ChipState
    /\ pin_mask \subseteq Pin
    /\ driver \in [ phase : Phase, sent : Seq(Byte), read : Nat, known : BOOLEAN ]
    /\ driver.phase \in {"drain", "idle"} => CsPin \in pin_mask
    /\ driver.phase = "busy" => CsPin \notin pin_mask /\ driver.known

\* The address in the first bytes of a command.
AddressOf(s) ==
    (IF Len(s) >= 2 THEN s[2] * (ByteBase * ByteBase) ELSE 0)
  + (IF Len(s) >= 3 THEN s[3] * ByteBase ELSE 0)
  + (IF Len(s) >= 4 THEN s[4] ELSE 0)

\* What the chip should answer to the k-th byte of a command.
Answer(s, mem, k) ==
    IF k >= 5 /\ s[1] = Code["READ_DATA_SLOW"] /\ AddressOf(s) + (k - 5) < MemSize
      THEN mem[AddressOf(s) + (k - 5)]
      ELSE 0

\* While it has the chip selected, the firmware reads from the data register the
\* answers to the bytes it sent, in their order, whatever an earlier command, an
\* earlier life of the firmware or the other pins of the port left behind.
ReadsAreAnswers ==
    [][ driver.phase = "busy" /\ stored' < stored
        => popped' = Answer(driver.sent, flash.data, driver.read + 1) ]_spiVars

\* A step that ends a command by raising the select pin.
Ends == CsPin \notin pin_mask /\ CsPin \in pin_mask'

\* The memory changes at a data byte of a program command, in the byte it is for,
Programs ==
    LET s == driver'.sent
        c == AddressOf(s) + (Len(s) - 5)
    IN  /\ Len(s) >= 5 /\ Len(s) = Len(driver.sent) + 1
        /\ s[1] = Code["PROGRAM_PAGE"]
        /\ flash.data' = [flash.data EXCEPT ![c] = s[Len(s)]]

\* or at the end of an erase command, to erased bytes.
Erases ==
    /\ Ends
    /\ driver.sent # <<>> /\ driver.sent[1] = Code["ERASE_SECTOR_4K"]
    /\ \A c \in 0..MemSize-1 : flash.data'[c] \in {flash.data[c], Erased}

\* From the first edge of the select pin on, the memory changes only as the
\* command sent since the last edge says: no other pin, restart or leftover of an
\* earlier command programs or erases.
ChangesAreCommanded ==
    [][ driver.known /\ flash.data' # flash.data => Programs \/ Erases ]_spiVars

\* "Erase 4KB sector" (JEDEC_SPI_Flash.cpp:9): a complete erase command erases the
\* sector that holds its address, and nothing else.
ErasesAddressedSector ==
    [][ /\ driver.known /\ Ends
        /\ Len(driver.sent) = 4 /\ driver.sent[1] = Code["ERASE_SECTOR_4K"]
        /\ AddressOf(driver.sent) < MemSize
        => flash.data' = [ c \in 0..MemSize-1 |->
                             IF c \div SectorSize = AddressOf(driver.sent) \div SectorSize
                               THEN Erased ELSE flash.data[c] ] ]_spiVars
=============================================================================
