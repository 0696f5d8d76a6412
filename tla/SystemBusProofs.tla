-------------------------- MODULE SystemBusProofs --------------------------
(***************************************************************************)
(* What SystemBus promises for every layout of devices, size of flash and  *)
(* width of the debugger's accesses.                                       *)
(***************************************************************************)
EXTENDS SystemBus, TLAPS

USE SystemBusAssumption

Len3 == {1, 2, 4}
Bits(n) == [0..(n - 1) -> 0..1]

-----------------------------------------------------------------------------
(* Arrays.                                                                 *)

LEMMA ReadTyped ==
    ASSUME NEW n \in Nat, NEW a \in Bits(n), NEW offset \in Nat, NEW len \in Len3, offset + len <= n
    PROVE  read_from_mem(a, offset, len) \in Word
<1>1. ASSUME NEW i \in 0..3, i < len PROVE a[offset + i] \in 0..1
    <2>1. offset + i \in 0..(n - 1) BY <1>1 DEF Len3
    <2> QED BY <2>1 DEF Bits
<1> QED BY <1>1 DEF read_from_mem, Word, Bytes

LEMMA WriteTyped ==
    ASSUME NEW n \in Nat, NEW a \in Bits(n), NEW offset \in Nat, NEW len \in Len3, NEW word \in Word
    PROVE  write_to_mem(a, offset, word, len) \in Bits(n)
<1>1. ASSUME NEW i \in 0..(n - 1), i \in offset..(offset + len - 1) PROVE word[i - offset] \in 0..1
    <2>1. i - offset \in 0..3 BY <1>1 DEF Len3
    <2> QED BY <2>1 DEF Word, Bytes
<1>2. DOMAIN a = 0..(n - 1) BY DEF Bits
<1> QED BY <1>1, <1>2 DEF write_to_mem, Bits

LEMMA EraseTyped ==
    ASSUME NEW n \in Nat, NEW a \in Bits(n), NEW at \in Nat
    PROVE  erase_page(a, at) \in Bits(n)
BY DEF erase_page, Bits

LEMMA ProgramTyped ==
    ASSUME NEW n \in Nat, NEW a \in Bits(n), NEW at \in Nat, NEW word \in Word
    PROVE  program_word(a, at, word) \in Bits(n)
BY DEF program_word, Bits

-----------------------------------------------------------------------------
(* Devices.                                                                *)

\* The device of an address is one that covers it, and none that covers it
\* has a higher priority.
LEMMA DeviceFound ==
    ASSUME NEW addr \in Nat, Covering(addr) # {}
    PROVE  /\ get_device(addr) \in Devices
           /\ is_within(get_device(addr), addr)
           /\ \A e \in Covering(addr) : get_device(addr).priority >= e.priority
<1> DEFINE Highest(d) == \A e \in Covering(addr) : d.priority >= e.priority
<1>1. \A d \in Covering(addr) : d.priority \in 0..2 BY DEF Covering, DEVICE_MAX_PRIORITY
<1>2. \E d \in Covering(addr) : Highest(d)
    <2>1. CASE \E d \in Covering(addr) : d.priority = 2 BY <1>1, <2>1
    <2>2. CASE /\ ~\E d \in Covering(addr) : d.priority = 2
               /\ \E d \in Covering(addr) : d.priority = 1
        BY <1>1, <2>2
    <2>3. CASE ~\E d \in Covering(addr) : d.priority \in {1, 2} BY <1>1, <2>3
    <2> QED BY <2>1, <2>2, <2>3
<1>3. get_device(addr) \in Covering(addr) /\ Highest(get_device(addr)) BY <1>2 DEF get_device
<1> QED BY <1>3 DEF Covering

\* An aligned access lies within the device of its address.
LEMMA AccessFits ==
    ASSUME NEW addr \in Nat, NEW len \in Len3, addr % len = 0,
           NEW d \in Devices, is_within(d, addr)
    PROVE  addr - d.start \in Nat /\ addr - d.start + len <= d.size
<1>1. d.start \in Nat /\ d.size \in Nat /\ d.start % 4 = 0 /\ d.size % 4 = 0 OBVIOUS
<1>2. addr >= d.start /\ addr < d.start + d.size BY <1>1 DEF is_within
<1>3. CASE len = 1 BY <1>1, <1>2, <1>3
<1>4. CASE len = 2 BY <1>1, <1>2, <1>4
<1>5. CASE len = 4 BY <1>1, <1>2, <1>5
<1> QED BY <1>3, <1>4, <1>5 DEF Len3

-----------------------------------------------------------------------------
(* The shape of memory.                                                    *)

LEMMA DeviceUpdated ==
    ASSUME NEW m, Shape(m), NEW d \in Devices, NEW a \in Bits(d.size)
    PROVE  Shape([m EXCEPT ![d.array] = a])
<1>1. d.array \in Array BY DEF Array
<1>2. d.array # "info" /\ (d.array = "main" => d.size = MAIN_BANK_SIZE) OBVIOUS
<1>3. \A e \in Devices : e.array = d.array => e = d OBVIOUS
<1>4. {"main", "info"} \subseteq Array /\ \A e \in Devices : e.array \in Array BY DEF Array
<1> QED BY <1>1, <1>2, <1>3, <1>4 DEF Shape, Bits

LEMMA BankUpdated ==
    ASSUME NEW m, Shape(m), NEW name \in {"main", "info"},
           NEW a \in Bits(IF name = "info" THEN INFO_BANK_SIZE ELSE MAIN_BANK_SIZE)
    PROVE  Shape([m EXCEPT ![name] = a])
<1>1. {"main", "info"} \subseteq Array /\ \A e \in Devices : e.array \in Array BY DEF Array
<1>2. \A e \in Devices : e.array # "info" /\ (e.array = "main" => e.size = MAIN_BANK_SIZE) OBVIOUS
<1>3. CASE name = "info" BY <1>1, <1>2, <1>3 DEF Shape, Bits
<1>4. CASE name = "main" BY <1>1, <1>2, <1>4 DEF Shape, Bits
<1> QED BY <1>3, <1>4

\* What a command works on: a word to program, and an address in the bank.
LEMMA Registers ==
    ASSUME NEW m, Shape(m), NEW d \in Devices, d.array = "regs", NEW size \in Nat \ {0}
    PROVE  /\ read_from_mem(m["regs"], DI, 4) \in Word
           /\ Number(read_from_mem(m["regs"], ADR, 4)) % size \in 0..(size - 1)
<1>1. m["regs"] \in Bits(d.size) /\ d.size \in Nat /\ d.size >= 12 BY DEF Shape, Bits
<1>2. read_from_mem(m["regs"], DI, 4) \in Word BY <1>1, ReadTyped DEF DI, Len3
<1>3. read_from_mem(m["regs"], ADR, 4) \in Word BY <1>1, ReadTyped DEF ADR, Len3
<1>4. Number(read_from_mem(m["regs"], ADR, 4)) \in Nat
    <2> DEFINE w == read_from_mem(m["regs"], ADR, 4)
    <2>1. w[0] \in 0..1 /\ w[1] \in 0..1 /\ w[2] \in 0..1 /\ w[3] \in 0..1 BY <1>3 DEF Word, Bytes
    <2> HIDE DEF w
    <2> QED BY <2>1 DEF Number, w
<1> HIDE DEF Number
<1> QED BY <1>2, <1>4

LEMMA CommandShape ==
    ASSUME NEW m, Shape(m), NEW d \in Devices, d.array = "regs"
    PROVE  Shape(RunCommand(m))
<1>1. /\ BankSize(m) \in Nat \ {0} /\ Bank(m) \in {"main", "info"}
      /\ BankSize(m) = IF Bank(m) = "info" THEN INFO_BANK_SIZE ELSE MAIN_BANK_SIZE
      /\ m[Bank(m)] \in Bits(BankSize(m))
    BY DEF Shape, Bits, Bank, BankSize
<1>2. Target(m) \in 0..(BankSize(m) - 1) /\ read_from_mem(m["regs"], DI, 4) \in Word
    BY <1>1, Registers DEF Target
<1>3. Target(m) \in Nat BY <1>1, <1>2
<1>4. Erased(m) \in Bits(BankSize(m)) BY <1>1, <1>3, EraseTyped DEF Erased
<1>5. Programmed(m) \in Bits(BankSize(m)) BY <1>1, <1>2, <1>3, <1>4, ProgramTyped DEF Programmed
<1> QED BY <1>1, <1>5, BankUpdated DEF RunCommand

LEMMA WrittenShape ==
    ASSUME NEW addr \in Address, NEW len \in Len3, ~Throws(addr, len), NEW word \in Word, Shape(mem)
    PROVE  Shape(Written(addr, word, len))
<1> DEFINE d == get_device(addr)
           stored == write_to_mem(mem[d.array], addr - d.start, word, len)
           m == [mem EXCEPT ![d.array] = stored]
<1>1. addr \in Nat BY DEF Address
<1>2. d \in Devices /\ is_within(d, addr) BY <1>1, DeviceFound DEF Throws
<1>3. addr - d.start \in Nat BY <1>1, <1>2, AccessFits DEF Throws
<1>4. mem[d.array] \in Bits(d.size) /\ d.size \in Nat BY <1>2 DEF Shape, Bits
<1>5. Written(addr, word, len) = IF d.array = "regs" /\ addr - d.start = CMD THEN RunCommand(m) ELSE m
    BY DEF Written
<1> HIDE DEF d
<1>6. stored \in Bits(d.size) BY <1>3, <1>4, WriteTyped
<1> HIDE DEF stored
<1>7. Shape(m) BY <1>2, <1>6, DeviceUpdated
<1> HIDE DEF m
<1> QED BY <1>2, <1>5, <1>7, CommandShape

LEMMA ReadWord ==
    ASSUME NEW addr \in Address, NEW len \in Len3, ~Throws(addr, len), Shape(mem)
    PROVE  read(addr, len) \in Word
<1> DEFINE d == get_device(addr)
<1>1. addr \in Nat BY DEF Address
<1>2. d \in Devices /\ is_within(d, addr) BY <1>1, DeviceFound DEF Throws
<1>3. addr - d.start \in Nat /\ addr - d.start + len <= d.size BY <1>1, <1>2, AccessFits DEF Throws
<1>4. mem[d.array] \in Bits(d.size) /\ d.size \in Nat BY <1>2 DEF Shape, Bits
<1>5. read(addr, len) = read_from_mem(mem[d.array], addr - d.start, len) BY DEF read
<1> HIDE DEF d
<1> QED BY <1>3, <1>4, <1>5, ReadTyped

-----------------------------------------------------------------------------
(* System bus access.                                                      *)

LEMMA Lengths ==
    ASSUME NEW s \in SbState
    PROVE  /\ Length(s) \in {1, 2, 4, 8}
           /\ Supported(s) => Length(s) \in Len3
BY DEF Length, Supported, Len3, SbState

LEMMA IncrementTyped ==
    ASSUME NEW s \in SbState
    PROVE  /\ sb_autoincrement(s) \in SbState
           /\ sb_autoincrement(s) = [s EXCEPT !.address = sb_autoincrement(s).address]
           /\ sb_autoincrement(s).address =
                IF s.autoincrement THEN (s.address + Length(s)) % AddressSize ELSE s.address
<1>1. Length(s) \in Nat BY Lengths
<1>2. (s.address + Length(s)) % AddressSize \in Address BY <1>1 DEF Address, SbState
<1> QED BY <1>2 DEF sb_autoincrement, SbState

LEMMA ReadStateTyped ==
    ASSUME NEW s \in SbState, Shape(mem)
    PROVE  sb_read(s) \in SbState
<1>1. CASE ~Supported(s) BY <1>1 DEF sb_read, SbState
<1>2. CASE Supported(s) /\ Throws(s.address, Length(s)) BY <1>2 DEF sb_read, SbState
<1>3. CASE Supported(s) /\ ~Throws(s.address, Length(s))
    <2>1. read(s.address, Length(s)) \in Word BY <1>3, Lengths, ReadWord DEF SbState
    <2>2. sb_read(s) = [s EXCEPT !.data = read(s.address, Length(s))] BY <1>3 DEF sb_read
    <2> QED BY <2>1, <2>2 DEF SbState
<1> QED BY <1>1, <1>2, <1>3

\* The address that follows the one the word in sbdata was read from.
Following(s, from) == IF s.autoincrement THEN (from + Length(s)) % AddressSize ELSE from

\* What makes a block of reads consecutive: sbaddress follows the word that
\* waits in sbdata.
AddressFollows == origin # NoOrigin => sb.address = Following(sb, origin)

IInv == BusTypeOK /\ AddressFollows

-----------------------------------------------------------------------------
(* The steps.                                                              *)

\* A read of s, and the increment behind it.
LEMMA ReadFollows ==
    ASSUME NEW s \in SbState, Shape(mem)
    PROVE  /\ sb_autoincrement(sb_read(s)) \in SbState
           /\ ReadFrom(s) \in Address \cup {NoOrigin}
           /\ ReadFrom(s) # NoOrigin =>
                /\ ReadFrom(s) = s.address
                /\ sb_autoincrement(sb_read(s)).address = Following(sb_autoincrement(sb_read(s)), s.address)
                /\ s.error = 0 => sb_autoincrement(sb_read(s)).data = read(s.address, Length(s))
           /\ Length(sb_autoincrement(sb_read(s))) = Length(s)
           /\ sb_autoincrement(sb_read(s)).autoincrement = s.autoincrement
<1> DEFINE r == sb_read(s)
           i == sb_autoincrement(r)
<1>1. r \in SbState BY ReadStateTyped
<1>2. /\ r.sbaccess = s.sbaccess /\ r.autoincrement = s.autoincrement /\ r.address = s.address
      /\ s.error = 0 /\ r.error = 0 => r.data = read(s.address, Length(s))
    BY DEF sb_read, SbState
<1>3. i \in SbState /\ i = [r EXCEPT !.address = i.address]
      /\ i.address = IF r.autoincrement THEN (r.address + Length(r)) % AddressSize ELSE r.address
    BY <1>1, IncrementTyped
<1>4. ReadFrom(s) = IF r.error = 0 THEN s.address ELSE NoOrigin BY DEF ReadFrom
<1>5. s.address \in Address BY DEF SbState
<1> HIDE DEF r, i
<1>6. i.sbaccess = r.sbaccess /\ i.autoincrement = r.autoincrement /\ i.data = r.data
    BY <1>1, <1>3 DEF SbState
<1>7. Length(i) = Length(s) /\ Length(r) = Length(s) BY <1>2, <1>6 DEF Length
<1>8. ReadFrom(s) # NoOrigin => r.error = 0 BY <1>4
<1>9. i.address = Following(i, s.address) BY <1>2, <1>3, <1>6, <1>7 DEF Following
<1>10. /\ i \in SbState
       /\ ReadFrom(s) \in Address \cup {NoOrigin}
       /\ ReadFrom(s) # NoOrigin =>
            /\ ReadFrom(s) = s.address
            /\ i.address = Following(i, s.address)
            /\ s.error = 0 => i.data = read(s.address, Length(s))
       /\ Length(i) = Length(s)
       /\ i.autoincrement = s.autoincrement
    BY <1>2, <1>3, <1>4, <1>5, <1>6, <1>7, <1>8, <1>9
<1> QED BY <1>10 DEF i, r

LEMMA Initially == SystemInit => IInv
<1> SUFFICES ASSUME SystemInit PROVE IInv
    OBVIOUS
<1>1. Shape(mem)
    <2>1. PICK contents \in Contents :
            mem = [a \in Array |-> IF a \in clears \cup {"regs"} THEN Zeroed(contents[a]) ELSE contents[a]]
        BY DEF SystemInit
    <2>2. Shape(contents) OBVIOUS
    <2>3. ASSUME NEW n \in Nat, NEW a \in Bits(n) PROVE Zeroed(a) \in Bits(n) BY DEF Zeroed, Bits
    <2>4. {"main", "info"} \subseteq Array /\ \A d \in Devices : d.array \in Array BY DEF Array
    <2>5. \A d \in Devices : mem[d.array] \in Bits(d.size)
        <3> SUFFICES ASSUME NEW d \in Devices PROVE mem[d.array] \in Bits(d.size)
            OBVIOUS
        <3>1. contents[d.array] \in Bits(d.size) /\ d.size \in Nat BY <2>2 DEF Shape, Bits
        <3>2. Zeroed(contents[d.array]) \in Bits(d.size) BY <2>3, <3>1
        <3> QED BY <2>1, <2>4, <3>1, <3>2
    <2>6. mem["main"] \in Bits(MAIN_BANK_SIZE)
        <3>1. contents["main"] \in Bits(MAIN_BANK_SIZE) BY <2>2 DEF Shape, Bits
        <3>2. Zeroed(contents["main"]) \in Bits(MAIN_BANK_SIZE) BY <2>3, <3>1
        <3> QED BY <2>1, <2>4, <3>1, <3>2
    <2>7. mem["info"] \in Bits(INFO_BANK_SIZE)
        <3>1. contents["info"] \in Bits(INFO_BANK_SIZE) BY <2>2 DEF Shape, Bits
        <3>2. Zeroed(contents["info"]) \in Bits(INFO_BANK_SIZE) BY <2>3, <3>1
        <3> QED BY <2>1, <2>4, <3>1, <3>2
    <2>8. mem = [a \in Array |-> mem[a]] BY <2>1
    <2> QED BY <2>5, <2>6, <2>7, <2>8 DEF Shape, Bits
<1>2. sb \in SbState
    <2>1. Zero \in Word BY DEF Zero, Word, Bytes
    <2>2. 0 \in Address BY DEF Address
    <2> QED BY <2>1, <2>2 DEF SystemInit, SbState
<1>3. clears \subseteq OwnMemory BY DEF SystemInit
<1>4. origin = NoOrigin /\ stores = 0 /\ ended = FALSE BY DEF SystemInit
<1>5. stores \in 0..MaxStores BY <1>4
<1> QED BY <1>1, <1>2, <1>3, <1>4, <1>5 DEF IInv, BusTypeOK, AddressFollows

LEMMA ResetShape ==
    ASSUME Shape(mem), ResetDevices
    PROVE  Shape(mem')
<1>1. mem' = [a \in Array |-> IF a \in clears \cup {"regs"} THEN Zeroed(mem[a]) ELSE mem[a]]
    BY DEF ResetDevices
<1>2. ASSUME NEW n \in Nat, NEW a \in Bits(n) PROVE Zeroed(a) \in Bits(n) BY DEF Zeroed, Bits
<1>3. {"main", "info"} \subseteq Array /\ \A d \in Devices : d.array \in Array BY DEF Array
<1>4. ASSUME NEW name \in Array, NEW n \in Nat, mem[name] \in Bits(n) PROVE mem'[name] \in Bits(n)
    <2>1. Zeroed(mem[name]) \in Bits(n) BY <1>2, <1>4
    <2> QED BY <1>1, <1>4, <2>1
<1>5. \A d \in Devices : mem[d.array] \in Bits(d.size) /\ d.size \in Nat BY DEF Shape, Bits
<1>6. mem["main"] \in Bits(MAIN_BANK_SIZE) /\ mem["info"] \in Bits(INFO_BANK_SIZE) BY DEF Shape, Bits
<1>7. \A d \in Devices : mem'[d.array] \in Bits(d.size) BY <1>3, <1>4, <1>5
<1>8. mem'["main"] \in Bits(MAIN_BANK_SIZE) /\ mem'["info"] \in Bits(INFO_BANK_SIZE) BY <1>3, <1>4, <1>6
<1>9. mem' = [a \in Array |-> mem'[a]] BY <1>1
<1> QED BY <1>7, <1>8, <1>9 DEF Shape, Bits

LEMMA ModeTyped ==
    ASSUME NEW s \in SbState, NEW mode \in Mode, NEW error \in {0, 2, 3}
    PROVE  WithMode(s, mode, error) \in SbState
BY DEF WithMode, Mode, SbState

LEMMA WriteStep ==
    ASSUME NEW s \in SbState, IInv, ~ended, sb_write(s)
    PROVE  Shape(mem') /\ sb' \in SbState /\ stores' \in 0..MaxStores /\ ended' \in BOOLEAN
<1> USE DEF IInv, BusTypeOK
<1>1. CASE ~Supported(s) BY <1>1 DEF sb_write, SbState
<1>2. CASE Supported(s) /\ Throws(s.address, Length(s)) BY <1>2 DEF sb_write
<1>3. CASE Supported(s) /\ ~Throws(s.address, Length(s))
    <2>1. /\ stores < MaxStores /\ stores' = stores + 1
          /\ mem' = Written(s.address, s.data, Length(s))
          /\ sb' = sb_autoincrement(s) /\ UNCHANGED ended
        BY <1>3 DEF sb_write
    <2>2. Shape(mem') BY <1>3, <2>1, Lengths, WrittenShape DEF SbState
    <2>3. sb' \in SbState BY <2>1, IncrementTyped
    <2> QED BY <2>1, <2>2, <2>3
<1> QED BY <1>1, <1>2, <1>3

LEMMA Steps ==
    ASSUME IInv, [SystemNext]_sysVars
    PROVE  IInv'
<1> USE DEF IInv, BusTypeOK
<1>0. /\ Shape(mem) /\ clears \subseteq OwnMemory /\ sb \in SbState
      /\ origin \in Address \cup {NoOrigin} /\ stores \in 0..MaxStores /\ ended \in BOOLEAN
      /\ sb.error \in {0, 2, 3}
    BY DEF SbState
<1>1. CASE WriteSbcs
    <2>1. PICK mode \in SbModes, error \in {0, sb.error} : sb' = WithMode(sb, mode, error)
        BY <1>1 DEF WriteSbcs
    <2>2. sb' \in SbState BY <1>0, <2>1, ModeTyped
    <2> QED BY <1>0, <1>1, <2>2 DEF WriteSbcs, AddressFollows
<1>2. CASE WriteSbaddress0
    <2>1. PICK addr \in SbAddresses :
            LET s == [sb EXCEPT !.address = addr]
            IN  IF sb.error = 0 /\ sb.readonaddr
                  THEN sb' = sb_autoincrement(sb_read(s)) /\ origin' = ReadFrom(s)
                  ELSE sb' = s /\ origin' = NoOrigin
        BY <1>2 DEF WriteSbaddress0
    <2> DEFINE s == [sb EXCEPT !.address = addr]
    <2>2. s \in SbState BY <1>0 DEF SbState
    <2>3. UNCHANGED <<mem, clears, stores, ended>> BY <1>2 DEF WriteSbaddress0
    <2>4. \/ sb' = sb_autoincrement(sb_read(s)) /\ origin' = ReadFrom(s)
          \/ sb' = s /\ origin' = NoOrigin
        BY <2>1
    <2> HIDE DEF s
    <2>5. sb' \in SbState /\ origin' \in Address \cup {NoOrigin} BY <1>0, <2>2, <2>4, ReadFollows
    <2>6. origin' # NoOrigin => sb'.address = Following(sb', origin') BY <1>0, <2>2, <2>4, ReadFollows
    <2> QED BY <1>0, <2>3, <2>5, <2>6 DEF AddressFollows
<1>3. CASE ReadSbdata0
    <2>1. UNCHANGED <<mem, clears, stores, ended>> BY <1>3 DEF ReadSbdata0
    <2>2. CASE sb.readondata
        <3>1. origin' = ReadFrom(sb) BY <1>3, <2>2 DEF ReadSbdata0
        <3>2. sb' = IF sb_read(sb).error = 0 THEN sb_autoincrement(sb_read(sb)) ELSE sb_read(sb)
            BY <1>3, <2>2 DEF ReadSbdata0
        <3>3. sb' \in SbState /\ origin' \in Address \cup {NoOrigin}
            BY <1>0, <3>1, <3>2, ReadFollows, ReadStateTyped
        <3>4. origin' # NoOrigin => sb' = sb_autoincrement(sb_read(sb))
            BY <3>1, <3>2 DEF ReadFrom
        <3>5. origin' # NoOrigin => sb'.address = Following(sb', origin')
            BY <1>0, <3>1, <3>4, ReadFollows
        <3> QED BY <1>0, <2>1, <3>3, <3>5 DEF AddressFollows
    <2>3. CASE ~sb.readondata
        <3>1. sb' = IF sb.error = 0 THEN sb_autoincrement(sb) ELSE sb BY <1>3, <2>3 DEF ReadSbdata0
        <3>2. origin' = NoOrigin BY <1>3, <2>3 DEF ReadSbdata0
        <3>3. sb' \in SbState BY <1>0, <3>1, IncrementTyped
        <3> QED BY <1>0, <2>1, <3>2, <3>3 DEF AddressFollows
    <2> QED BY <2>2, <2>3
<1>4. CASE WriteSbdata0
    <2>1. PICK value \in SbWords :
            LET s == [sb EXCEPT !.data = value]
            IN  IF sb.error = 0 THEN sb_write(s) ELSE sb' = s /\ UNCHANGED <<mem, stores, ended>>
        BY <1>4 DEF WriteSbdata0
    <2> DEFINE s == [sb EXCEPT !.data = value]
    <2>2. s \in SbState BY <1>0 DEF SbState
    <2>3. ~ended /\ origin' = NoOrigin /\ UNCHANGED clears BY <1>4 DEF WriteSbdata0
    <2>4. \/ sb_write(s)
          \/ sb' = s /\ UNCHANGED <<mem, stores, ended>>
        BY <2>1
    <2> HIDE DEF s
    <2>5. Shape(mem') /\ sb' \in SbState /\ stores' \in 0..MaxStores /\ ended' \in BOOLEAN
        BY <1>0, <2>2, <2>3, <2>4, WriteStep
    <2> QED BY <1>0, <2>3, <2>5 DEF AddressFollows
<1>5. CASE ResetModule
    <2>1. NoMode \in Mode BY DEF NoMode, Mode
    <2>2. sb' \in SbState BY <1>0, <1>5, <2>1, ModeTyped DEF ResetModule
    <2> QED BY <1>0, <1>5, <2>2 DEF ResetModule, AddressFollows
<1>6. CASE ProgramStore
    <2>1. PICK s \in ProgramStores : ~Throws(s[1], s[3]) /\ mem' = Written(s[1], s[2], s[3])
        BY <1>6 DEF ProgramStore
    <2>2. s[1] \in Address /\ s[2] \in Word /\ s[3] \in Len3 BY DEF Len3
    <2>3. Shape(mem') BY <1>0, <2>1, <2>2, WrittenShape
    <2>4. stores' \in 0..MaxStores BY <1>0, <1>6 DEF ProgramStore
    <2> QED BY <1>0, <1>6, <2>3, <2>4 DEF ProgramStore, AddressFollows, Following, Length
<1>7. CASE ResetDevices
    <2>1. Shape(mem') BY <1>0, <1>7, ResetShape
    <2> QED BY <1>0, <1>7, <2>1 DEF ResetDevices, AddressFollows, Following, Length
<1>8. CASE UNCHANGED sysVars
    BY <1>0, <1>8 DEF sysVars, AddressFollows, Following, Length, Shape
<1> QED BY <1>1, <1>2, <1>3, <1>4, <1>5, <1>6, <1>7, <1>8 DEF SystemNext

-----------------------------------------------------------------------------
(* What a store does to the information bank and to what lies under the    *)
(* registers.                                                              *)

\* From `old' to `new', bits of one word fell, and bits of one page rose, all
\* of that page but the word.
Flashed(old, new) ==
    \E a \in DOMAIN old : \A i \in DOMAIN old :
        /\ old[i] = 1 /\ new[i] = 0 => i \div 4 = a \div 4
        /\ old[i] = 0 /\ new[i] = 1 =>
             /\ i \div PAGE_SIZE = a \div PAGE_SIZE
             /\ \A k \in DOMAIN old :
                  k \div PAGE_SIZE = a \div PAGE_SIZE /\ k \div 4 # a \div 4 => new[k] = 1

LEMMA CommandFlashes ==
    ASSUME NEW m, Shape(m), NEW d \in Devices, d.array = "regs"
    PROVE  Flashed(m["info"], RunCommand(m)["info"])
<1> DEFINE old == m["info"]
           new == RunCommand(m)["info"]
<1>1. "info" \in Array /\ "main" \in Array BY DEF Array
<1>2. old \in Bits(INFO_BANK_SIZE) /\ m = [a \in Array |-> m[a]] BY DEF Shape, Bits
<1>3. CASE Bank(m) = "main"
    <2>1. new = old BY <1>1, <1>2, <1>3 DEF RunCommand
    <2>2. 0 \in DOMAIN old BY <1>2 DEF Bits
    <2> QED BY <2>1, <2>2 DEF Flashed
<1>4. CASE Bank(m) = "info"
    <2> DEFINE a == Target(m)
               di == read_from_mem(m["regs"], DI, 4)
    <2>1. BankSize(m) = INFO_BANK_SIZE BY <1>4 DEF Bank, BankSize
    <2>2. a \in 0..(INFO_BANK_SIZE - 1) BY <2>1, Registers DEF Target
    <2>3. new = Programmed(m) BY <1>1, <1>2, <1>4 DEF RunCommand
    <2>4. Programmed(m) = IF PROG(Command(m)) THEN program_word(Erased(m), a, di) ELSE Erased(m)
        BY DEF Programmed
    <2>5. Erased(m) = IF ERASE(Command(m)) THEN erase_page(old, a) ELSE old BY <1>4 DEF Erased
    <2>6. a \in DOMAIN old /\ DOMAIN old = 0..(INFO_BANK_SIZE - 1) BY <1>2, <2>2 DEF Bits
    <2> HIDE DEF a, di, old, new
    <2>7. DOMAIN Erased(m) = DOMAIN old BY <2>5 DEF erase_page
    <2>8. \A i \in DOMAIN old :
             /\ new[i] = Erased(m)[i] \/ (new[i] = 0 /\ i \div 4 = a \div 4)
             /\ Erased(m)[i] = old[i] \/ (Erased(m)[i] = 1 /\ i \div PAGE_SIZE = a \div PAGE_SIZE)
        BY <2>3, <2>4, <2>5, <2>7 DEF program_word, erase_page
    <2>9. ASSUME NEW i \in DOMAIN old, old[i] = 1, new[i] = 0 PROVE i \div 4 = a \div 4
        BY <2>8, <2>9
    <2>10. ASSUME NEW i \in DOMAIN old, old[i] = 0, new[i] = 1
           PROVE  /\ i \div PAGE_SIZE = a \div PAGE_SIZE
                  /\ \A k \in DOMAIN old :
                        k \div PAGE_SIZE = a \div PAGE_SIZE /\ k \div 4 # a \div 4 => new[k] = 1
        <3>1. Erased(m)[i] = 1 /\ i \div PAGE_SIZE = a \div PAGE_SIZE BY <2>8, <2>10
        <3>2. ERASE(Command(m)) BY <2>5, <2>10, <3>1
        <3>3. \A k \in DOMAIN old : k \div PAGE_SIZE = a \div PAGE_SIZE => Erased(m)[k] = 1
            BY <2>5, <3>2 DEF erase_page
        <3> QED BY <2>8, <3>1, <3>3
    <2> QED BY <2>6, <2>9, <2>10 DEF Flashed, old, new
<1> QED BY <1>3, <1>4 DEF Bank

LEMMA StoreFlashes ==
    ASSUME NEW addr \in Address, NEW len \in Len3, ~Throws(addr, len), NEW word \in Word, Shape(mem)
    PROVE  Flashed(mem["info"], Written(addr, word, len)["info"])
<1> DEFINE d == get_device(addr)
           stored == write_to_mem(mem[d.array], addr - d.start, word, len)
           m == [mem EXCEPT ![d.array] = stored]
<1>1. addr \in Nat BY DEF Address
<1>2. d \in Devices /\ is_within(d, addr) BY <1>1, DeviceFound DEF Throws
<1>3. addr - d.start \in Nat BY <1>1, <1>2, AccessFits DEF Throws
<1>4. mem[d.array] \in Bits(d.size) /\ d.size \in Nat BY <1>2 DEF Shape, Bits
<1>5. Written(addr, word, len) = IF d.array = "regs" /\ addr - d.start = CMD THEN RunCommand(m) ELSE m
    BY DEF Written
<1> HIDE DEF d
<1>6. stored \in Bits(d.size) BY <1>3, <1>4, WriteTyped
<1> HIDE DEF stored
<1>7. Shape(m) BY <1>2, <1>6, DeviceUpdated
<1>8. d.array # "info" BY <1>2
<1>9. m["info"] = mem["info"] /\ mem["info"] \in Bits(INFO_BANK_SIZE) BY <1>8 DEF Shape, Bits, Array
<1> HIDE DEF m
<1>10. CASE Written(addr, word, len) = m
    <2>1. 0 \in DOMAIN mem["info"] BY <1>9 DEF Bits
    <2> QED BY <1>9, <1>10, <2>1 DEF Flashed
<1>11. CASE d.array = "regs" /\ Written(addr, word, len) = RunCommand(m)
    BY <1>2, <1>7, <1>9, <1>11, CommandFlashes
<1> QED BY <1>5, <1>10, <1>11

\* An access that reaches a byte of a device begins within the device.
LEMMA AccessBegins ==
    ASSUME NEW addr \in Nat, NEW len \in Len3, addr % len = 0, NEW e \in Devices,
           NEW byte \in addr..(addr + len - 1), is_within(e, byte)
    PROVE  is_within(e, addr)
<1>1. e.start \in Nat /\ e.size \in Nat /\ e.start % 4 = 0 OBVIOUS
<1>2. byte >= e.start /\ byte < e.start + e.size BY <1>1 DEF is_within
<1>3. addr >= e.start
    <2>1. CASE len = 1 BY <1>1, <1>2, <2>1
    <2>2. CASE len = 2 BY <1>1, <1>2, <2>2
    <2>3. CASE len = 4 BY <1>1, <1>2, <2>3
    <2> QED BY <2>1, <2>2, <2>3 DEF Len3
<1> QED BY <1>1, <1>2, <1>3 DEF is_within

LEMMA CoveredKept ==
    ASSUME NEW addr \in Address, NEW len \in Len3, ~Throws(addr, len), NEW word \in Word, Shape(mem),
           NEW p \in Devices, p.array = "plain", NEW e \in Devices, e.array = "regs",
           NEW byte \in Address, is_within(p, byte), is_within(e, byte)
    PROVE  Written(addr, word, len)["plain"][byte - p.start] = mem["plain"][byte - p.start]
<1> DEFINE d == get_device(addr)
           stored == write_to_mem(mem[d.array], addr - d.start, word, len)
           m == [mem EXCEPT ![d.array] = stored]
           at == byte - p.start
<1>1. addr \in Nat /\ byte \in Nat BY DEF Address
<1>2. /\ d \in Devices /\ is_within(d, addr)
      /\ \A x \in Covering(addr) : d.priority >= x.priority
    BY <1>1, DeviceFound DEF Throws
<1>3. addr - d.start \in Nat BY <1>1, <1>2, AccessFits DEF Throws
<1>4. Written(addr, word, len) = IF d.array = "regs" /\ addr - d.start = CMD THEN RunCommand(m) ELSE m
    BY DEF Written
<1>5. "plain" \in Array /\ mem = [a \in Array |-> mem[a]] BY DEF Array, Shape
<1>6. mem["plain"] \in Bits(p.size) /\ at \in 0..(p.size - 1)
    <2>1. p.start \in Nat /\ p.size \in Nat OBVIOUS
    <2>2. at \in 0..(p.size - 1) BY <1>1, <2>1 DEF is_within
    <2>3. mem[p.array] \in Bits(p.size) BY DEF Shape, Bits
    <2> QED BY <2>2, <2>3
<1>7. d.array = "plain" => d = p BY <1>2
<1> HIDE DEF d
<1>8. d.array = "plain" => byte \notin addr..(addr + len - 1)
    <2> SUFFICES ASSUME d.array = "plain", byte \in addr..(addr + len - 1) PROVE FALSE
        OBVIOUS
    <2>1. is_within(e, addr) BY <1>1, AccessBegins DEF Throws
    <2>2. e \in Covering(addr) BY <2>1 DEF Covering
    <2> QED BY <1>2, <1>7, <2>2
<1>9. m["plain"][at] = mem["plain"][at]
    <2>1. CASE d.array # "plain" BY <1>5, <2>1
    <2>2. CASE d.array = "plain"
        <3>1. m["plain"] = stored BY <1>5, <2>2
        <3>2. d = p /\ p.start \in Nat /\ p.size \in Nat BY <1>7, <2>2
        <3>3. at \notin (addr - p.start)..(addr - p.start + len - 1) BY <1>1, <1>8, <2>2, <3>2 DEF Len3
        <3>4. at \in DOMAIN mem["plain"] BY <1>6 DEF Bits
        <3> QED BY <2>2, <3>1, <3>2, <3>3, <3>4 DEF write_to_mem
    <2> QED BY <2>1, <2>2
<1>10. Bank(m) # "plain" BY DEF Bank
<1>11. m = [a \in Array |-> m[a]] BY <1>5
<1> HIDE DEF m
<1>12. RunCommand(m)["plain"] = m["plain"] BY <1>5, <1>10, <1>11 DEF RunCommand
<1> QED BY <1>4, <1>9, <1>12

\* A step stores one word, resets the devices, or leaves memory alone.
LEMMA MemorySteps ==
    ASSUME IInv, SystemNext
    PROVE  \/ mem' = mem
           \/ \E addr \in Address, len \in Len3, word \in Word :
                ~Throws(addr, len) /\ mem' = Written(addr, word, len)
           \/ mem' = [a \in Array |-> IF a \in clears \cup {"regs"} THEN Zeroed(mem[a]) ELSE mem[a]]
<1>1. CASE WriteSbcs \/ WriteSbaddress0 \/ ReadSbdata0 \/ ResetModule
    BY <1>1 DEF WriteSbcs, WriteSbaddress0, ReadSbdata0, ResetModule
<1>2. CASE WriteSbdata0
    <2>1. PICK value \in SbWords :
            LET s == [sb EXCEPT !.data = value]
            IN  IF sb.error = 0 THEN sb_write(s) ELSE sb' = s /\ UNCHANGED <<mem, stores, ended>>
        BY <1>2 DEF WriteSbdata0
    <2> DEFINE s == [sb EXCEPT !.data = value]
    <2>2. s \in SbState BY DEF IInv, BusTypeOK, SbState
    <2>3. sb_write(s) \/ mem' = mem BY <2>1
    <2> HIDE DEF s
    <2>4. CASE sb_write(s)
        <3>1. \/ mem' = mem
              \/ Supported(s) /\ ~Throws(s.address, Length(s)) /\ mem' = Written(s.address, s.data, Length(s))
            BY <2>4 DEF sb_write
        <3>2. s.address \in Address /\ s.data \in Word BY <2>2 DEF SbState
        <3> QED BY <2>2, <3>1, <3>2, Lengths
    <2> QED BY <2>3, <2>4
<1>3. CASE ProgramStore
    <2>1. PICK s \in ProgramStores : ~Throws(s[1], s[3]) /\ mem' = Written(s[1], s[2], s[3])
        BY <1>3 DEF ProgramStore
    <2>2. s[1] \in Address /\ s[2] \in Word /\ s[3] \in Len3 BY DEF Len3
    <2> QED BY <2>1, <2>2
<1>4. CASE ResetDevices BY <1>4 DEF ResetDevices
<1> QED BY <1>1, <1>2, <1>3, <1>4 DEF SystemNext

\* The step's part of BackingMemoryKept.
Kept ==
    mem' # mem =>
        /\ \A i, j \in Fallen : j \in WordOf(i)
        /\ \A i \in Risen : Risen \subseteq PageOf(i)
        /\ \A i \in Risen : \E w \in PageOf(i) :
             \A k \in PageOf(i) \ WordOf(w) : mem'["info"][k] = 1
        /\ \A d, e \in Devices : d.array = "plain" /\ e.array = "regs" =>
             \A addr \in Address : is_within(d, addr) /\ is_within(e, addr) =>
                \/ mem'["plain"][addr - d.start] = mem["plain"][addr - d.start]
                \/ mem'["plain"] = Zeroed(mem["plain"]) /\ mem'["regs"] = Zeroed(mem["regs"])

LEMMA FlashKept ==
    ASSUME Flashed(mem["info"], mem'["info"])
    PROVE  /\ \A i, j \in Fallen : j \in WordOf(i)
           /\ \A i \in Risen : Risen \subseteq PageOf(i)
           /\ \A i \in Risen : \E w \in PageOf(i) :
                \A k \in PageOf(i) \ WordOf(w) : mem'["info"][k] = 1
<1> DEFINE old == mem["info"]
           new == mem'["info"]
<1>1. PICK a \in DOMAIN old : \A i \in DOMAIN old :
        /\ old[i] = 1 /\ new[i] = 0 => i \div 4 = a \div 4
        /\ old[i] = 0 /\ new[i] = 1 =>
             /\ i \div PAGE_SIZE = a \div PAGE_SIZE
             /\ \A k \in DOMAIN old :
                  k \div PAGE_SIZE = a \div PAGE_SIZE /\ k \div 4 # a \div 4 => new[k] = 1
    BY DEF Flashed
<1>2. \A i, j \in Fallen : j \in WordOf(i) BY <1>1, Zenon DEF Fallen, WordOf
<1>3. \A i \in Risen : i \in DOMAIN old /\ i \div PAGE_SIZE = a \div PAGE_SIZE BY <1>1, Zenon DEF Risen
<1>4. \A i \in Risen : Risen \subseteq PageOf(i) BY <1>3, Zenon DEF PageOf
<1>5. ASSUME NEW i \in Risen
      PROVE  a \in PageOf(i) /\ \A k \in PageOf(i) \ WordOf(a) : new[k] = 1
    <2>1. a \in PageOf(i) BY <1>3, Zenon DEF PageOf
    <2>2. old[i] = 0 /\ new[i] = 1 /\ i \in DOMAIN old BY Zenon DEF Risen
    <2>3. ASSUME NEW k \in PageOf(i) \ WordOf(a) PROVE new[k] = 1
        <3>1. k \in DOMAIN old /\ k \div PAGE_SIZE = a \div PAGE_SIZE BY <1>3, Zenon DEF PageOf
        <3>2. k \div 4 # a \div 4 BY <3>1, Zenon DEF WordOf
        <3> QED BY <1>1, <2>2, <3>1, <3>2, Zenon
    <2> QED BY <2>1, <2>3
<1> QED BY <1>2, <1>4, <1>5

LEMMA KeptStep ==
    ASSUME IInv, [SystemNext]_sysVars
    PROVE  Kept
<1>1. Shape(mem) /\ clears \subseteq OwnMemory BY DEF IInv, BusTypeOK
<1>2. CASE mem' = mem BY <1>2 DEF Kept
<1>3. ASSUME NEW addr \in Address, NEW len \in Len3, NEW word \in Word,
             ~Throws(addr, len), mem' = Written(addr, word, len)
      PROVE  Kept
    <2>1. Flashed(mem["info"], mem'["info"]) BY <1>1, <1>3, StoreFlashes
    <2>2. ASSUME NEW p \in Devices, p.array = "plain", NEW e \in Devices, e.array = "regs",
                 NEW byte \in Address, is_within(p, byte), is_within(e, byte)
          PROVE  mem'["plain"][byte - p.start] = mem["plain"][byte - p.start]
        BY <1>1, <1>3, <2>2, CoveredKept
    <2> QED BY <2>1, <2>2, FlashKept DEF Kept
<1>4. ASSUME mem' = [a \in Array |-> IF a \in clears \cup {"regs"} THEN Zeroed(mem[a]) ELSE mem[a]]
      PROVE  Kept
    <2>1. mem'["info"] = mem["info"] BY <1>1, <1>4 DEF Array, OwnMemory
    <2>2. Flashed(mem["info"], mem'["info"])
        <3>1. mem["info"] \in Bits(INFO_BANK_SIZE) BY <1>1 DEF Shape, Bits
        <3>2. 0 \in DOMAIN mem["info"] BY <3>1 DEF Bits
        <3> QED BY <2>1, <3>2 DEF Flashed
    <2>3. ASSUME NEW d \in Devices, d.array = "plain", NEW e \in Devices, e.array = "regs"
          PROVE  /\ mem'["plain"] = mem["plain"] \/ mem'["plain"] = Zeroed(mem["plain"])
                 /\ mem'["regs"] = Zeroed(mem["regs"])
        <3>1. "plain" \in Array /\ "regs" \in Array BY <2>3 DEF Array
        <3> QED BY <1>4, <3>1
    <2> QED BY <2>2, <2>3, FlashKept DEF Kept
<1> QED BY <1>2, <1>3, <1>4, MemorySteps DEF sysVars

\* The step's part of BlockReadDelivers.
Delivered ==
    /\ (WriteSbaddress0 \/ ReadSbdata0) /\ origin' # NoOrigin =>
          sb'.data = read(origin', Length(sb))
    /\ ReadSbdata0 /\ origin # NoOrigin /\ origin' # NoOrigin =>
          origin' = IF sb.autoincrement THEN (origin + Length(sb)) % AddressSize ELSE origin

LEMMA DeliveredStep ==
    ASSUME IInv
    PROVE  Delivered
<1>0. Shape(mem) /\ sb \in SbState BY DEF IInv, BusTypeOK
<1>1. ASSUME WriteSbaddress0, origin' # NoOrigin PROVE sb'.data = read(origin', Length(sb))
    <2>1. PICK addr \in SbAddresses :
            LET s == [sb EXCEPT !.address = addr]
            IN  IF sb.error = 0 /\ sb.readonaddr
                  THEN sb' = sb_autoincrement(sb_read(s)) /\ origin' = ReadFrom(s)
                  ELSE sb' = s /\ origin' = NoOrigin
        BY <1>1 DEF WriteSbaddress0
    <2> DEFINE s == [sb EXCEPT !.address = addr]
    <2>2. s \in SbState /\ s.error = sb.error /\ s.sbaccess = sb.sbaccess BY <1>0 DEF SbState
    <2>3. sb.error = 0 /\ sb' = sb_autoincrement(sb_read(s)) /\ origin' = ReadFrom(s) BY <1>1, <2>1
    <2> HIDE DEF s
    <2>4. Length(s) = Length(sb) BY <2>2 DEF Length
    <2> QED BY <1>0, <1>1, <2>2, <2>3, <2>4, ReadFollows
<1>2. ASSUME ReadSbdata0, origin' # NoOrigin
      PROVE  /\ sb'.data = read(origin', Length(sb))
             /\ origin' = sb.address
    <2>1. sb.error = 0 /\ sb.readondata /\ origin' = ReadFrom(sb) BY <1>2 DEF ReadSbdata0
    <2>2. sb_read(sb).error = 0 BY <1>2, <2>1 DEF ReadFrom
    <2>3. sb' = sb_autoincrement(sb_read(sb)) BY <1>2, <2>1, <2>2 DEF ReadSbdata0
    <2> QED BY <1>0, <1>2, <2>1, <2>3, ReadFollows
<1>3. ASSUME ReadSbdata0, origin # NoOrigin, origin' # NoOrigin
      PROVE  origin' = IF sb.autoincrement THEN (origin + Length(sb)) % AddressSize ELSE origin
    BY <1>2, <1>3 DEF IInv, AddressFollows, Following
<1> QED BY <1>1, <1>2, <1>3 DEF Delivered

-----------------------------------------------------------------------------
(* Theorems.                                                               *)

\* The inductive invariant: memory keeps the shape of the devices, and
\* sbaddress follows the word that waits in sbdata.
THEOREM SystemBusInvariant == SystemSpec => []IInv
BY Initially, Steps, PTL DEF SystemSpec

\* No access of the program or the debugger, no erase and no program command
\* leaves its array (Bus::read, Bus::write, Flash_module::write).
THEOREM BusTypeCorrect == SystemSpec => []BusTypeOK
<1>1. IInv => BusTypeOK BY DEF IInv
<1> QED BY <1>1, SystemBusInvariant, PTL

\* The flash keeps to erasing pages and clearing words, and no access reaches
\* the memory under the registers, for every layout of devices.
THEOREM BackingKept == SystemSpec => BackingMemoryKept
<1>1. IInv /\ [SystemNext]_sysVars => [Kept]_sysVars BY KeptStep
<1>2. SystemSpec => [][Kept]_sysVars BY <1>1, SystemBusInvariant, PTL DEF SystemSpec
<1>3. BackingMemoryKept <=> [][Kept]_sysVars BY DEF BackingMemoryKept, Kept
<1> QED BY <1>2, <1>3

\* A debugger that reads a block gets what memory held at consecutive
\* addresses, for every width and address space.
THEOREM BlockDelivers == SystemSpec => BlockReadDelivers
<1>1. IInv /\ [SystemNext]_sysVars => [Delivered]_sysVars BY DeliveredStep
<1>2. SystemSpec => [][Delivered]_sysVars BY <1>1, SystemBusInvariant, PTL DEF SystemSpec
<1>3. BlockReadDelivers <=> [][Delivered]_sysVars BY DEF BlockReadDelivers, Delivered
<1> QED BY <1>2, <1>3
=============================================================================
