------------------------------ MODULE SystemBus ------------------------------
(***************************************************************************)
(* The bus of core/src/Bus.cpp with its memories and the controller of the *)
(* internal flash, used by two masters: the program's stores and the       *)
(* system bus access of modules/debug/src/debug_module.cpp.                *)
(*                                                                         *)
(* A byte has one bit in place of eight, and a word is its four bytes,     *)
(* lowest address first; addresses, lengths and alignment are those of the *)
(* code.  sbaddress1 to 3 are left out: the bus takes 32 bits, and         *)
(* sb_autoincrement adds in 32 bits, so nothing is ever carried.           *)
(***************************************************************************)
EXTENDS Integers

CONSTANTS Devices,      \* what is where: a device is known by its array
          AddressSize,  \* addresses wrap here
          MAIN_BANK_SIZE, INFO_BANK_SIZE, PAGE_SIZE,    \* of the flash
          Contents,     \* what the arrays may hold when the process starts
          MaxWidth,     \* config.max_sba_data_width
          ProgramStores,\* the program's stores: <<address, word, length>>
          SbModes,      \* what the debugger writes to sbcs: see WriteSbcs
          SbAddresses,  \* addresses the debugger writes
          SbWords,      \* words the debugger writes
          MaxStores     \* Bound: stores of the program and the debugger

VARIABLES mem,      \* the bytes of each array
          clears,   \* the memories whose clear_on_reset is set
          sb,       \* sbcs, sbaddress[0] and sbdata[0]
          origin,   \* history: the address the word in sbdata was read from
          stores,   \* stores so far
          ended     \* an Exception has left the main loop

sysVars == <<mem, clears, sb, origin, stores, ended>>

Address  == 0..(AddressSize - 1)
Array    == {d.array : d \in Devices} \cup {"main", "info"}
NoOrigin == -1

\* The memories that allocate their bytes.
OwnMemory == Array \ {"main", "info", "regs"}

DEVICE_MAX_PRIORITY == 2

Bytes == 0..3
Word  == [Bytes -> 0..1]
Zero  == [i \in Bytes |-> 0]

\* The arrays have the sizes of their devices.
Shape(m) ==
    /\ m = [a \in Array |-> m[a]]
    /\ m["main"] \in [0..(MAIN_BANK_SIZE - 1) -> 0..1]
    /\ m["info"] \in [0..(INFO_BANK_SIZE - 1) -> 0..1]
    /\ \A d \in Devices : m[d.array] \in [0..(d.size - 1) -> 0..1]

Mode == [sbaccess : 0..3, readonaddr : BOOLEAN, autoincrement : BOOLEAN, readondata : BOOLEAN]

\* sbcs, sbaddress[0] and sbdata[0]; the errors are those sb_read and sb_write set.
SbState == [sbaccess : 0..3, readonaddr : BOOLEAN, autoincrement : BOOLEAN, readondata : BOOLEAN,
            error : {0, 2, 3}, address : Address, data : Word]

ASSUME SystemBusAssumption ==
    /\ AddressSize \in Nat \ {0} /\ MaxWidth \in Nat /\ MaxStores \in Nat
    /\ MAIN_BANK_SIZE \in Nat \ {0} /\ INFO_BANK_SIZE \in Nat \ {0} /\ PAGE_SIZE \in Nat \ {0}
    /\ Devices \subseteq [array : STRING, start : Nat, size : Nat, priority : 0..DEVICE_MAX_PRIORITY]
    /\ \A d \in Devices :
         /\ d.start % 4 = 0 /\ d.size % 4 = 0 /\ d.array # "info"
         /\ d.array = "main" => d.size = MAIN_BANK_SIZE
         /\ d.array = "regs" => d.size >= 12 /\ d.priority = 1
         /\ d.array = "plain" => d.priority = 0
         /\ \A e \in Devices : d.array = e.array => d = e
    /\ \A c \in Contents : Shape(c)
    /\ ProgramStores \subseteq Address \X Word \X {1, 2, 4}
    /\ SbModes \subseteq Mode /\ SbAddresses \subseteq Address /\ SbWords \subseteq Word

-----------------------------------------------------------------------------
(* Arrays of bytes.                                                        *)

\* The word of len bytes from `offset' on, extended with zeros.
read_from_mem(a, offset, len) == [i \in Bytes |-> IF i < len THEN a[offset + i] ELSE 0]

write_to_mem(a, offset, word, len) ==
    [i \in DOMAIN a |-> IF i \in offset..(offset + len - 1) THEN word[i - offset] ELSE a[i]]

-----------------------------------------------------------------------------
(* Flash_module: registers, and commands on the bank IFREN selects.        *)

CMD == 0
ADR == 4
DI  == 8
ERASE(cmd) == cmd[0] = 1
PROG(cmd)  == cmd[1] = 1
IFREN(cmd) == cmd[2] = 1

\* a is the address within the bank.
erase_page(bank, a) ==
    [i \in DOMAIN bank |-> IF i \div PAGE_SIZE = a \div PAGE_SIZE THEN 1 ELSE bank[i]]

\* Mutant: the word is stored, not merged.
program_word_Overwrite(bank, a, word) == write_to_mem(bank, 4 * (a \div 4), word, 4)

program_word(bank, a, word) ==
    [i \in DOMAIN bank |-> IF i \div 4 = a \div 4 /\ word[i % 4] = 0 THEN 0 ELSE bank[i]]

\* The number a word stands for, for the address register.
Number(word) == word[0] + 2 * word[1] + 4 * word[2] + 8 * word[3]

Command(m)  == read_from_mem(m["regs"], CMD, 4)
Bank(m)     == IF IFREN(Command(m)) THEN "info" ELSE "main"
BankSize(m) == IF IFREN(Command(m)) THEN INFO_BANK_SIZE ELSE MAIN_BANK_SIZE
Target(m)   == Number(read_from_mem(m["regs"], ADR, 4)) % BankSize(m)

Erased(m) == IF ERASE(Command(m)) THEN erase_page(m[Bank(m)], Target(m)) ELSE m[Bank(m)]

Programmed(m) ==
    IF PROG(Command(m)) THEN program_word(Erased(m), Target(m), read_from_mem(m["regs"], DI, 4))
                        ELSE Erased(m)

\* The command in the registers, after a write at the offset of CMD.
RunCommand(m) == [m EXCEPT ![Bank(m)] = Programmed(m)]

-----------------------------------------------------------------------------
(* Bus::read and Bus::write.                                               *)

is_within(d, addr) == addr \in d.start..(d.start + d.size - 1)
Covering(addr) == {d \in Devices : is_within(d, addr)}

\* Mutant: the plain memory is found before the registers.
get_device_Lowest(addr) == CHOOSE d \in Covering(addr) : \A e \in Covering(addr) : d.priority <= e.priority

\* Devices of one priority do not overlap: their order is left out.
get_device(addr) == CHOOSE d \in Covering(addr) : \A e \in Covering(addr) : d.priority >= e.priority

\* The access ends in an Exception.
Throws(addr, len) == addr % len # 0 \/ Covering(addr) = {}

read(addr, len) ==
    LET d == get_device(addr) IN read_from_mem(mem[d.array], addr - d.start, len)

Written(addr, value, len) ==
    LET d == get_device(addr)
        m == [mem EXCEPT ![d.array] = write_to_mem(mem[d.array], addr - d.start, value, len)]
    IN  IF d.array = "regs" /\ addr - d.start = CMD THEN RunCommand(m) ELSE m

-----------------------------------------------------------------------------
(* System bus access.                                                      *)

Length(s) == CASE s.sbaccess = 0 -> 1 [] s.sbaccess = 1 -> 2 [] s.sbaccess = 2 -> 4 [] s.sbaccess = 3 -> 8
Supported(s) == s.sbaccess <= 2 /\ 8 * Length(s) <= MaxWidth

sb_autoincrement(s) ==
    IF s.autoincrement THEN [s EXCEPT !.address = (s.address + Length(s)) % AddressSize] ELSE s

\* An Exception is caught here, and not in sb_write.
sb_read(s) ==
    IF ~Supported(s) THEN [s EXCEPT !.error = 3]
    ELSE IF Throws(s.address, Length(s)) THEN [s EXCEPT !.error = 2]
    ELSE [s EXCEPT !.data = read(s.address, Length(s))]

\* sbdata[0] holds what was read at the address of s, if the read succeeded.
ReadFrom(s) == IF sb_read(s).error = 0 THEN s.address ELSE NoOrigin

sb_write(s) ==
    IF ~Supported(s)
      THEN sb' = [s EXCEPT !.error = 3] /\ UNCHANGED <<mem, stores, ended>>
    ELSE IF Throws(s.address, Length(s))
      THEN sb' = s /\ ended' = TRUE /\ UNCHANGED <<mem, stores>>
    ELSE /\ stores < MaxStores /\ stores' = stores + 1
         /\ mem' = Written(s.address, s.data, Length(s))
         /\ sb' = sb_autoincrement(s)
         /\ UNCHANGED ended

-----------------------------------------------------------------------------
(* The debugger's accesses.                                                *)

\* What memset leaves in sbcs.
NoMode == [sbaccess |-> 0, readonaddr |-> FALSE, autoincrement |-> FALSE, readondata |-> FALSE]

WithMode(s, mode, error) ==
    [s EXCEPT !.sbaccess = mode.sbaccess, !.readonaddr = mode.readonaddr,
              !.autoincrement = mode.autoincrement, !.readondata = mode.readondata, !.error = error]

\* It clears every error bit or none.
WriteSbcs ==
    /\ ~ended
    /\ \E mode \in SbModes, error \in {0, sb.error} : sb' = WithMode(sb, mode, error)
    /\ origin' = NoOrigin
    /\ UNCHANGED <<mem, clears, stores, ended>>

\* The address advances though the read fails.
WriteSbaddress0 ==
    /\ ~ended
    /\ \E addr \in SbAddresses :
         LET s == [sb EXCEPT !.address = addr]
         IN  IF sb.error = 0 /\ sb.readonaddr
               THEN sb' = sb_autoincrement(sb_read(s)) /\ origin' = ReadFrom(s)
               ELSE sb' = s /\ origin' = NoOrigin
    /\ UNCHANGED <<mem, clears, stores, ended>>

\* Mutant: the address advances before the next word is read.
ReadSbdata0_AdvanceFirst ==
    /\ ~ended
    /\ sb.error = 0
    /\ LET s == sb_autoincrement(sb)
       IN  /\ sb' = IF sb.readondata THEN sb_read(s) ELSE s
           /\ origin' = IF sb.readondata THEN ReadFrom(s) ELSE NoOrigin
    /\ UNCHANGED <<mem, clears, stores, ended>>

\* The answer is sb.data: the next word is read behind it.
ReadSbdata0 ==
    /\ ~ended
    /\ sb.error = 0
    /\ LET s == IF sb.readondata THEN sb_read(sb) ELSE sb
       IN  sb' = IF s.error = 0 THEN sb_autoincrement(s) ELSE s
    /\ origin' = IF sb.readondata THEN ReadFrom(sb) ELSE NoOrigin
    /\ UNCHANGED <<mem, clears, stores, ended>>

WriteSbdata0 ==
    /\ ~ended
    /\ \E value \in SbWords :
         LET s == [sb EXCEPT !.data = value]
         IN  IF sb.error = 0 THEN sb_write(s) ELSE sb' = s /\ UNCHANGED <<mem, stores, ended>>
    /\ origin' = NoOrigin
    /\ UNCHANGED clears

\* debug_module_t::reset leaves sbaddress and sbdata alone.
ResetModule ==
    /\ ~ended
    /\ sb' = WithMode(sb, NoMode, 0)
    /\ origin' = NoOrigin
    /\ UNCHANGED <<mem, clears, stores, ended>>

-----------------------------------------------------------------------------
(* The program, and the reset of the devices.                              *)

\* A store that throws is a trap of the hart and changes no memory.
ProgramStore ==
    /\ ~ended
    /\ stores < MaxStores /\ stores' = stores + 1
    /\ \E s \in ProgramStores :
         ~Throws(s[1], s[3]) /\ mem' = Written(s[1], s[2], s[3])
    /\ UNCHANGED <<clears, sb, origin, ended>>

\* Bus::reset: Memory::reset and Flash_module::reset.
Zeroed(a) == [i \in DOMAIN a |-> 0]

ResetDevices ==
    /\ ~ended
    /\ mem' = [a \in Array |-> IF a \in clears \cup {"regs"} THEN Zeroed(mem[a]) ELSE mem[a]]
    /\ UNCHANGED <<clears, sb, origin, stores, ended>>

\* The constructor of a Memory of its own leaves clear_on_reset and its bytes
\* as they were; main() resets the devices before anything else.
SystemInit ==
    /\ clears \in SUBSET OwnMemory
    /\ \E contents \in Contents :
         mem = [a \in Array |-> IF a \in clears \cup {"regs"} THEN Zeroed(contents[a]) ELSE contents[a]]
    /\ sb = [sbaccess |-> 0, readonaddr |-> FALSE, autoincrement |-> FALSE, readondata |-> FALSE,
             error |-> 0, address |-> 0, data |-> Zero]
    /\ origin = NoOrigin /\ stores = 0 /\ ended = FALSE

SystemNext ==
    \/ WriteSbcs \/ WriteSbaddress0 \/ ReadSbdata0 \/ WriteSbdata0
    \/ ResetModule \/ ProgramStore \/ ResetDevices

SystemSpec == SystemInit /\ [][SystemNext]_sysVars

-----------------------------------------------------------------------------
(* Properties.                                                             *)

\* Type invariant: no access, erase or program writes outside its array.
BusTypeOK ==
    /\ Shape(mem)
    /\ clears \subseteq OwnMemory
    /\ sb \in SbState
    /\ origin \in Address \cup {NoOrigin}
    /\ stores \in 0..MaxStores /\ ended \in BOOLEAN

\* The words a debugger reads from sbdata0, with the address incremented, are
\* what memory held at consecutive addresses, one access size apart, when each
\* was fetched, whatever the program stores and resets meanwhile; with the
\* increment off it is the same address again (debug_module_t::dmi_read 424-434,
\* sb_read, sb_autoincrement).
BlockReadDelivers ==
    [][ /\ (WriteSbaddress0 \/ ReadSbdata0) /\ origin' # NoOrigin =>
              sb'.data = read(origin', Length(sb))
        /\ ReadSbdata0 /\ origin # NoOrigin /\ origin' # NoOrigin =>
              origin' = IF sb.autoincrement THEN (origin + Length(sb)) % AddressSize ELSE origin
      ]_sysVars

Risen  == {i \in DOMAIN mem["info"] : mem["info"][i] = 0 /\ mem'["info"][i] = 1}
Fallen == {i \in DOMAIN mem["info"] : mem["info"][i] = 1 /\ mem'["info"][i] = 0}
PageOf(i) == {k \in DOMAIN mem["info"] : k \div PAGE_SIZE = i \div PAGE_SIZE}
WordOf(i) == {k \in DOMAIN mem["info"] : k \div 4 = i \div 4}

\* The information bank, which no address reaches, changes as flash does: a
\* step clears bits of one word only, and sets bits of one page only, all of
\* that page but one word of it (Flash_module::write); and the plain memory
\* that lies under the controller's registers is reached by no access, only by
\* a reset (Bus::get_device).
BackingMemoryKept ==
    [][ mem' # mem =>
        /\ \A i, j \in Fallen : j \in WordOf(i)
        /\ \A i \in Risen : Risen \subseteq PageOf(i)
        /\ \A i \in Risen : \E w \in PageOf(i) :
             \A k \in PageOf(i) \ WordOf(w) : mem'["info"][k] = 1
        /\ \A d, e \in Devices : d.array = "plain" /\ e.array = "regs" =>
             \A addr \in Address : is_within(d, addr) /\ is_within(e, addr) =>
                \/ mem'["plain"][addr - d.start] = mem["plain"][addr - d.start]
                \/ mem'["plain"] = Zeroed(mem["plain"]) /\ mem'["regs"] = Zeroed(mem["regs"])
      ]_sysVars
=============================================================================
