------------------------ MODULE RemoteBitbangProofs ------------------------
(***************************************************************************)
(* Proofs about the transport and its server: the client reaches the debug *)
(* module with the words it shifted, one access in a tick, each after the  *)
(* idle cycles of the last, and none while it is told busy, whatever the   *)
(* lengths of the registers and the number of idle cycles.                 *)
(***************************************************************************)
EXTENDS RemoteBitbang, SequenceTheorems, TLAPS

-----------------------------------------------------------------------------
(* Registers.                                                              *)

LEMMA Parameters ==
    /\ DataBits \in Nat \ {0} /\ AddressBits \in Nat /\ RequiredRti \in Nat \ {0}
    /\ DbusLength \in Nat /\ DbusLength >= 3
    /\ IrLength \in Nat \ {0}
<1>1. DataBits \in Nat \ {0} /\ AddressBits \in Nat /\ RequiredRti \in Nat \ {0}
  BY JtagAssumption
<1>2. {"IDCODE", "DBUS"} \subseteq DOMAIN IrCode
  BY JtagAssumption
<1>3. /\ IrCode["IDCODE"] \in Seq(Bit) /\ Len(IrCode["IDCODE"]) = IrLength
      /\ IrCode["DBUS"] \in Seq(Bit) /\ Len(IrCode["DBUS"]) = IrLength
      /\ IrCode["IDCODE"] # IrCode["DBUS"]
  <2>1. "IDCODE" # "DBUS"
    OBVIOUS
  <2> QED
    BY <1>2, <2>1, JtagAssumption
<1>4. IrLength \in Nat
  BY <1>3, LenProperties
<1>5. IrLength # 0
  BY <1>3, EmptySeq
<1> QED
  BY <1>1, <1>4, <1>5 DEF DbusLength

\* The instructions differ.
LEMMA Codes ==
    /\ \A r \in {"IDCODE", "DTMCONTROL", "DBUS", "BYPASS"} : IrCode[r] \in Bits(IrLength)
    /\ IrCode["DBUS"] \notin {IrCode["IDCODE"], IrCode["DTMCONTROL"], IrCode["BYPASS"]}
    /\ IrCode["DTMCONTROL"] \notin {IrCode["IDCODE"], IrCode["BYPASS"]}
<1>1. DOMAIN IrCode = {"IDCODE", "DTMCONTROL", "DBUS", "BYPASS"}
  BY JtagAssumption
<1>2. ASSUME NEW r \in {"IDCODE", "DTMCONTROL", "DBUS", "BYPASS"}
      PROVE  IrCode[r] \in Bits(IrLength)
  <2>1. IrCode[r] \in Seq(Bit) /\ Len(IrCode[r]) = IrLength
    BY <1>1, JtagAssumption
  <2> QED
    BY <2>1, LenProperties DEF Bits
<1>3. \A r, s \in DOMAIN IrCode : r # s => IrCode[r] # IrCode[s]
  BY JtagAssumption
<1> QED
  BY <1>1, <1>2, <1>3

\* A register is a sequence of its length.
LEMMA BitsAreSequence ==
    ASSUME NEW n \in Nat
    PROVE  \A word : word \in Bits(n) <=> word \in Seq(Bit) /\ Len(word) = n
<1>1. ASSUME NEW word \in Bits(n)
      PROVE  word \in Seq(Bit) /\ Len(word) = n
  BY DEF Bits
<1>2. ASSUME NEW word \in Seq(Bit), Len(word) = n
      PROVE  word \in Bits(n)
  BY <1>2, LenProperties DEF Bits
<1> QED
  BY <1>1, <1>2

\* A shift moves every bit one place down and lets the new one in at the top.
LEMMA Shifting ==
    ASSUME NEW n \in Nat \ {0}, NEW register \in Bits(n), NEW bit \in Bit
    PROVE  /\ Shift(register, bit) \in Bits(n)
           /\ \A i \in 1..n-1 : Shift(register, bit)[i] = register[i + 1]
           /\ Shift(register, bit)[n] = bit
<1> DEFINE rest == Tail(register)
           shifted == Append(rest, bit)
<1>1. register \in Seq(Bit) /\ Len(register) = n /\ register # <<>>
  BY BitsAreSequence
<1>2. /\ rest \in Seq(Bit) /\ Len(rest) = n - 1
      /\ \A i \in 1..n-1 : rest[i] = register[i + 1]
  BY <1>1, HeadTailProperties
<1> HIDE DEF rest
<1>3. /\ shifted \in Seq(Bit) /\ Len(shifted) = n
      /\ \A i \in 1..n-1 : shifted[i] = rest[i]
      /\ shifted[n] = bit
  BY <1>2, AppendProperties
<1>4. shifted = Shift(register, bit)
  BY DEF Shift, rest
<1> HIDE DEF shifted
<1>5. shifted \in Bits(n)
  BY <1>3, BitsAreSequence
<1> QED
  BY <1>2, <1>3, <1>4, <1>5

\* A status, data and an address make a word that begins with the status.
LEMMA Composed ==
    ASSUME NEW status \in Bits(2), NEW data \in Bits(DataBits), NEW address \in Bits(AddressBits)
    PROVE  /\ status \o data \o address \in Bits(DbusLength)
           /\ (status \o data \o address)[1] = status[1]
<1>1. /\ status \in Seq(Bit) /\ Len(status) = 2
      /\ data \in Seq(Bit) /\ Len(data) = DataBits
      /\ address \in Seq(Bit) /\ Len(address) = AddressBits
      /\ DataBits \in Nat \ {0} /\ AddressBits \in Nat
  BY BitsAreSequence, Parameters
<1> DEFINE front == status \o data
           word == front \o address
<1>2. front \in Seq(Bit) /\ Len(front) = 2 + DataBits /\ front[1] = status[1]
  <2>1. /\ front \in Seq(Bit) /\ Len(front) = Len(status) + Len(data)
        /\ \A i \in 1 .. Len(status) + Len(data) :
              front[i] = IF i <= Len(status) THEN status[i] ELSE data[i - Len(status)]
    BY <1>1, ConcatProperties, Zenon
  <2> HIDE DEF front
  <2> QED
    BY <1>1, <2>1
<1> HIDE DEF front
<1>3. word \in Seq(Bit) /\ Len(word) = 2 + DataBits + AddressBits /\ word[1] = front[1]
  <2>1. /\ word \in Seq(Bit) /\ Len(word) = Len(front) + Len(address)
        /\ \A i \in 1 .. Len(front) + Len(address) :
              word[i] = IF i <= Len(front) THEN front[i] ELSE address[i - Len(front)]
    BY <1>1, <1>2, ConcatProperties, Zenon
  <2> HIDE DEF word
  <2> QED
    BY <1>1, <1>2, <2>1
<1>4. word \in Bits(DbusLength)
  BY <1>1, <1>3, BitsAreSequence, Parameters DEF DbusLength
<1> QED
  BY <1>2, <1>3, <1>4 DEF front

\* The parts of a DMI word.
LEMMA Parts ==
    ASSUME NEW word \in Bits(DbusLength)
    PROVE  /\ DataOf(word) \in Bits(DataBits)
           /\ Address(word) \in Bits(AddressBits)
           /\ Op(word) = <<word[1], word[2]>>
<1>1. word \in Seq(Bit) /\ Len(word) = DbusLength /\ DbusLength = 2 + DataBits + AddressBits
  BY BitsAreSequence, Parameters DEF DbusLength
<1>2. DataBits \in Nat \ {0} /\ AddressBits \in Nat
  BY Parameters
<1>3. DataOf(word) \in Seq(Bit) /\ Len(DataOf(word)) = DataBits
  BY <1>1, <1>2, SubSeqProperties DEF DataOf
<1>4. Address(word) \in Seq(Bit) /\ Len(Address(word)) = AddressBits
  BY <1>1, <1>2, SubSeqProperties DEF Address
<1>5. Op(word) = <<word[1], word[2]>>
  <2> DEFINE op == Op(word)
  <2>1. op \in Seq(Bit) /\ Len(op) = 2 /\ op[1] = word[1] /\ op[2] = word[2]
    BY <1>1, <1>2, SubSeqProperties DEF Op
  <2> HIDE DEF op
  <2>2. op = <<op[1], op[2]>>
    BY <2>1
  <2> QED
    BY <2>1, <2>2 DEF op
<1> QED
  BY <1>2, <1>3, <1>4, <1>5, BitsAreSequence

LEMMA Zeroed ==
    ASSUME NEW n \in Nat
    PROVE  Zeros(n) \in Bits(n)
  BY DEF Zeros, Bits, Bit

\* A register that is captured has one of the three lengths.
DrValue == UNION { Bits(n) : n \in DrLength }

LEMMA DrValues ==
    /\ Bits(1) \subseteq DrValue /\ Bits(2) \subseteq DrValue /\ Bits(DbusLength) \subseteq DrValue
    /\ \A dr \in DrValue : /\ \E n \in Nat \ {0} : n \in DrLength /\ dr \in Bits(n)
                           /\ dr \in Seq(Bit) /\ dr[1] \in Bit
                           /\ Len(dr) = DbusLength => dr \in Bits(DbusLength)
<1>1. Bits(1) \subseteq DrValue /\ Bits(2) \subseteq DrValue /\ Bits(DbusLength) \subseteq DrValue
  BY DEF DrValue, DrLength
<1>2. ASSUME NEW dr \in DrValue
      PROVE  /\ \E n \in Nat \ {0} : n \in DrLength /\ dr \in Bits(n)
             /\ dr \in Seq(Bit) /\ dr[1] \in Bit
             /\ Len(dr) = DbusLength => dr \in Bits(DbusLength)
  <2>1. PICK n \in DrLength : dr \in Bits(n)
    BY DEF DrValue
  <2>2. n \in Nat \ {0}
    BY Parameters DEF DrLength
  <2>3. dr \in Seq(Bit) /\ Len(dr) = n
    BY <2>1, <2>2, BitsAreSequence
  <2>4. dr[1] \in Bit
    BY <2>2, <2>3
  <2> QED
    BY <2>1, <2>2, <2>3, <2>4, BitsAreSequence
<1> QED
  BY <1>1, <1>2

\* The word a capture tells of a busy transport.
BusyWord == STATUS_BUSY \o Zeros(DbusLength - 2)

LEMMA BusyWords == BusyWord \in Bits(DbusLength) /\ BusyWord[1] = 1
<1>1. STATUS_BUSY \in Seq(Bit) /\ Len(STATUS_BUSY) = 2 /\ STATUS_BUSY[1] = 1
  BY DEF STATUS_BUSY, Bit
<1>2. DbusLength - 2 \in Nat /\ DbusLength \in Nat
  BY Parameters
<1>3. Zeros(DbusLength - 2) \in Seq(Bit) /\ Len(Zeros(DbusLength - 2)) = DbusLength - 2
  BY <1>2, Zeroed, BitsAreSequence
<1>4. /\ BusyWord \in Seq(Bit) /\ Len(BusyWord) = 2 + (DbusLength - 2)
      /\ BusyWord[1] = 1
  <2> DEFINE zeros == Zeros(DbusLength - 2)
             word == STATUS_BUSY \o zeros
  <2>1. /\ word \in Seq(Bit) /\ Len(word) = Len(STATUS_BUSY) + Len(zeros)
        /\ \A i \in 1 .. Len(STATUS_BUSY) + Len(zeros) :
              word[i] = IF i <= Len(STATUS_BUSY) THEN STATUS_BUSY[i]
                                                 ELSE zeros[i - Len(STATUS_BUSY)]
    BY <1>1, <1>3, ConcatProperties, Zenon
  <2>2. word = BusyWord
    BY DEF BusyWord
  <2> HIDE DEF word
  <2> QED
    BY <1>1, <1>2, <1>3, <2>1, <2>2
<1> QED
  BY <1>2, <1>4, BitsAreSequence

\* An answer is never the word of a busy transport.
LEMMA Answered ==
    ASSUME NEW word \in Bits(DbusLength), NEW response \in Response
    PROVE  Answer(word, response) \in Bits(DbusLength) /\ Answer(word, response)[1] = 0
<1>1. /\ STATUS_SUCCESS \in Bits(2) /\ STATUS_SUCCESS[1] = 0
      /\ STATUS_FAILED \in Bits(2) /\ STATUS_FAILED[1] = 0
  <2>1. /\ STATUS_SUCCESS \in Seq(Bit) /\ Len(STATUS_SUCCESS) = 2 /\ STATUS_SUCCESS[1] = 0
        /\ STATUS_FAILED \in Seq(Bit) /\ Len(STATUS_FAILED) = 2 /\ STATUS_FAILED[1] = 0
    BY DEF STATUS_SUCCESS, STATUS_FAILED, Bit
  <2> QED
    BY <2>1, BitsAreSequence
<1>2. response.value \in Bits(DataBits)
  BY DEF Response
<1>3. DataOf(word) \in Bits(DataBits) /\ Address(word) \in Bits(AddressBits)
  BY Parts
<1> DEFINE data == IF Op(word) = READ THEN response.value ELSE DataOf(word)
<1>4. data \in Bits(DataBits)
  BY <1>2, <1>3
<1>5. \/ Answer(word, response) = STATUS_SUCCESS \o data \o Address(word)
      \/ Answer(word, response) = STATUS_FAILED \o DataOf(word) \o Address(word)
  BY DEF Answer
<1> HIDE DEF data
<1>6. ASSUME Answer(word, response) = STATUS_SUCCESS \o data \o Address(word)
      PROVE  Answer(word, response) \in Bits(DbusLength) /\ Answer(word, response)[1] = 0
  <2>1. STATUS_SUCCESS \o data \o Address(word) \in Bits(DbusLength)
    BY <1>1, <1>3, <1>4, Composed, Zenon
  <2>2. (STATUS_SUCCESS \o data \o Address(word))[1] = STATUS_SUCCESS[1]
    BY <1>1, <1>3, <1>4, Composed, Zenon
  <2> QED
    BY <1>1, <1>6, <2>1, <2>2, Zenon
<1>7. ASSUME Answer(word, response) = STATUS_FAILED \o DataOf(word) \o Address(word)
      PROVE  Answer(word, response) \in Bits(DbusLength) /\ Answer(word, response)[1] = 0
  <2>1. STATUS_FAILED \o DataOf(word) \o Address(word) \in Bits(DbusLength)
    BY <1>1, <1>3, Composed, Zenon
  <2>2. (STATUS_FAILED \o DataOf(word) \o Address(word))[1] = STATUS_FAILED[1]
    BY <1>1, <1>3, Composed, Zenon
  <2> QED
    BY <1>1, <1>7, <2>1, <2>2, Zenon
<1> QED
  BY <1>5, <1>6, <1>7, Zenon

-----------------------------------------------------------------------------
(* The TAP.                                                                *)

\* Where k rising edges with TMS high lead from anywhere.
Ahead1 == {"TEST_LOGIC_RESET", "SELECT_DR_SCAN", "EXIT1_DR", "UPDATE_DR", "EXIT2_DR",
           "SELECT_IR_SCAN", "EXIT1_IR", "UPDATE_IR", "EXIT2_IR"}
Ahead2 == {"TEST_LOGIC_RESET", "SELECT_IR_SCAN", "SELECT_DR_SCAN", "UPDATE_DR", "UPDATE_IR"}
Ahead3 == {"TEST_LOGIC_RESET", "SELECT_IR_SCAN", "SELECT_DR_SCAN"}
Ahead4 == {"TEST_LOGIC_RESET", "SELECT_IR_SCAN"}
Ahead5 == {"TEST_LOGIC_RESET"}

LEMMA TapStates ==
    TapState = { "TEST_LOGIC_RESET", "RUN_TEST_IDLE", "SELECT_DR_SCAN", "CAPTURE_DR", "SHIFT_DR",
                 "EXIT1_DR", "PAUSE_DR", "EXIT2_DR", "UPDATE_DR", "SELECT_IR_SCAN", "CAPTURE_IR",
                 "SHIFT_IR", "EXIT1_IR", "PAUSE_IR", "EXIT2_IR", "UPDATE_IR" }
  BY DEF TapState, next

\* The edges of the state diagram.
LEMMA Edges ==
    ASSUME NEW s \in TapState
    PROVE  /\ next[s][1] \in TapState /\ next[s][2] \in TapState
           /\ {next[s][1], next[s][2]} \cap Scanning # {}
                 => s \in {"CAPTURE_DR", "SHIFT_DR", "EXIT1_DR", "PAUSE_DR", "EXIT2_DR"}
           /\ s = "TEST_LOGIC_RESET" =>
                 {next[s][1], next[s][2]} = {"TEST_LOGIC_RESET", "RUN_TEST_IDLE"}
           /\ next[s][2] \in Ahead1
           /\ s \in Ahead1 => next[s][2] \in Ahead2
           /\ s \in Ahead2 => next[s][2] \in Ahead3
           /\ s \in Ahead3 => next[s][2] \in Ahead4
           /\ s \in Ahead4 => next[s][2] \in Ahead5
<1> USE TapStates DEF next, Scanning, Ahead1, Ahead2, Ahead3, Ahead4, Ahead5
<1>1. CASE s = "TEST_LOGIC_RESET"
  BY <1>1
<1>2. CASE s = "RUN_TEST_IDLE"
  BY <1>2
<1>3. CASE s = "SELECT_DR_SCAN"
  BY <1>3
<1>4. CASE s = "CAPTURE_DR"
  BY <1>4
<1>5. CASE s = "SHIFT_DR"
  BY <1>5
<1>6. CASE s = "EXIT1_DR"
  BY <1>6
<1>7. CASE s = "PAUSE_DR"
  BY <1>7
<1>8. CASE s = "EXIT2_DR"
  BY <1>8
<1>9. CASE s = "UPDATE_DR"
  BY <1>9
<1>10. CASE s = "SELECT_IR_SCAN"
  BY <1>10
<1>11. CASE s = "CAPTURE_IR"
  BY <1>11
<1>12. CASE s = "SHIFT_IR"
  BY <1>12
<1>13. CASE s = "EXIT1_IR"
  BY <1>13
<1>14. CASE s = "PAUSE_IR"
  BY <1>14
<1>15. CASE s = "EXIT2_IR"
  BY <1>15
<1>16. CASE s = "UPDATE_IR"
  BY <1>16
<1> QED
  BY <1>1, <1>2, <1>3, <1>4, <1>5, <1>6, <1>7, <1>8, <1>9, <1>10, <1>11, <1>12, <1>13, <1>14, <1>15, <1>16

-----------------------------------------------------------------------------
(* What a command does to the transport.                                   *)

SameScan == tap'.state = tap.state /\ tap'.ir = tap.ir /\ tap'.dr = tap.dr
SameAccess == tap'.dmi = tap.dmi /\ tap'.call = NoCall
SameWait == tap'.busy_stuck = tap.busy_stuck /\ tap'.rti_remaining = tap.rti_remaining

\* TCK falls, or stays low, in the states that do something then.
RestEffect ==
    /\ SameScan /\ SameAccess
    /\ tap'.busy_stuck = tap.busy_stuck
    /\ tap'.rti_remaining = IF tap.rti_remaining > 0 THEN tap.rti_remaining - 1 ELSE 0

ForgetEffect ==
    /\ tap'.state = tap.state /\ tap'.ir = IrCode["IDCODE"] /\ tap'.dr = tap.dr
    /\ SameAccess /\ SameWait

CaptureEffect ==
    /\ tap'.state = tap.state /\ tap'.ir = tap.ir
    /\ SameAccess
    /\ IF tap.ir # IrCode["DBUS"] THEN SameWait
       ELSE /\ tap'.rti_remaining = tap.rti_remaining
            /\ tap'.busy_stuck = (tap.rti_remaining > 0 \/ tap.busy_stuck)
            /\ tap'.dr = IF tap'.busy_stuck THEN BusyWord ELSE tap.dmi

UpdateEffect(response) ==
    IF tap.ir = IrCode["DTMCONTROL"] /\ tap.dr[2] = 1
      THEN /\ tap'.state = "TEST_LOGIC_RESET" /\ tap'.ir = tap.ir /\ tap'.dr = tap.dr
           /\ tap'.dmi = Zeros(DbusLength) /\ tap'.call = NoCall
           /\ ~tap'.busy_stuck /\ tap'.rti_remaining = 0
    ELSE IF tap.ir = IrCode["DTMCONTROL"]
      THEN /\ SameScan /\ SameAccess
           /\ tap'.busy_stuck = (tap.busy_stuck /\ tap.dr[1] = 0)
           /\ tap'.rti_remaining = tap.rti_remaining
    ELSE IF tap.ir = IrCode["DBUS"] /\ ~tap.busy_stuck
      THEN /\ SameScan
           /\ tap'.dmi = Answer(tap.dr, response)
           /\ tap'.call = IF Op(tap.dr) \in {READ, WRITE} THEN tap.dr ELSE NoCall
           /\ ~tap'.busy_stuck /\ tap'.rti_remaining = RequiredRti
    ELSE SameScan /\ SameAccess /\ SameWait

LowEffect(response) ==
    CASE tap.state = "RUN_TEST_IDLE"    -> RestEffect
      [] tap.state = "TEST_LOGIC_RESET" -> ForgetEffect
      [] tap.state = "CAPTURE_DR"       -> CaptureEffect
      [] tap.state = "UPDATE_DR"        -> UpdateEffect(response)
      [] OTHER                          -> SameScan /\ SameAccess /\ SameWait

\* TCK rises.
HighEffect ==
    /\ tap'.state = next[tap.state][tap.tms + 1]
    /\ tap'.dr = IF tap.state = "SHIFT_DR" THEN Shift(tap.dr, tap.tdi) ELSE tap.dr
    /\ tap'.ir = IF tap.state = "SHIFT_IR" THEN Shift(tap.ir, tap.tdi) ELSE tap.ir
    /\ SameAccess /\ SameWait

ResetEffect ==
    /\ tap'.state = "TEST_LOGIC_RESET" /\ tap'.ir = tap.ir /\ tap'.dr = tap.dr
    /\ tap'.dmi = Zeros(DbusLength) /\ tap'.call = NoCall
    /\ ~tap'.busy_stuck /\ tap'.rti_remaining = 0

\* The fields of the transport.
LEMMA Fields ==
    ASSUME NEW t \in Transport
    PROVE  /\ t.state \in TapState /\ t.tck \in Bit /\ t.tms \in Bit /\ t.tdi \in Bit
           /\ t.ir \in Bits(IrLength) /\ t.dr \in DrValue /\ t.bypass \in Bit
           /\ t.dmi \in Bits(DbusLength) /\ t.rti_remaining \in 0..RequiredRti
           /\ t.busy_stuck \in BOOLEAN /\ t.call \in {NoCall} \cup Bits(DbusLength)
  BY DEF Transport, DrValue

LEMMA ResetTyped ==
    ASSUME NEW t \in Transport
    PROVE  reset(t) \in Transport
<1>1. Zeros(DbusLength) \in Bits(DbusLength) /\ 0 \in 0..RequiredRti
  BY Zeroed, Parameters
<1>2. "TEST_LOGIC_RESET" \in TapState
  BY TapStates
<1> QED
  BY <1>1, <1>2 DEF reset, Transport

LEMMA CaptureTyped ==
    ASSUME NEW t \in Transport
    PROVE  capture_dr(t) \in Transport
<1>1. <<1>> \in Bits(1) /\ <<t.bypass>> \in Bits(1) /\ <<0, 0>> \in Bits(2)
  BY Fields DEF Bits, Bit
<1>2. {<<1>>, <<t.bypass>>, <<0, 0>>, BusyWord, t.dmi, t.dr} \subseteq DrValue
  BY <1>1, Fields, BusyWords, DrValues
<1>3. ASSUME NEW dr \in DrValue, NEW busy \in BOOLEAN
      PROVE  /\ [t EXCEPT !.dr = dr] \in Transport
             /\ [t EXCEPT !.dr = dr, !.busy_stuck = busy] \in Transport
  BY DEF Transport, DrValue
<1>4. capture_dbus(t) \in Transport
  BY <1>2, <1>3 DEF capture_dbus, BusyWord
<1> QED
  BY <1>2, <1>3, <1>4, Zenon DEF capture_dr

LEMMA UpdateTyped ==
    ASSUME NEW t \in Transport, NEW response \in Response,
           t.ir = IrCode["DBUS"] => t.dr \in Bits(DbusLength)
    PROVE  update_dr(t, response) \in Transport
<1>1. update_dtmcontrol(t) \in Transport
  <2> DEFINE busy == t.busy_stuck /\ t.dr[1] = 0
             cleared == [t EXCEPT !.busy_stuck = busy]
  <2>1. busy \in BOOLEAN
    OBVIOUS
  <2> HIDE DEF busy
  <2>2. cleared \in Transport
    BY <2>1 DEF Transport
  <2>3. reset(cleared) \in Transport
    BY <2>2, ResetTyped
  <2>4. update_dtmcontrol(t) \in {cleared, reset(cleared)}
    BY DEF update_dtmcontrol, busy
  <2> QED
    BY <2>2, <2>3, <2>4
<1>2. [t EXCEPT !.bypass = t.dr[1]] \in Transport
  <2>1. t.dr[1] \in Bit
    BY Fields, DrValues
  <2> QED
    BY <2>1 DEF Transport
<1>3. ASSUME t.ir = IrCode["DBUS"]
      PROVE  update_dbus(t, response) \in Transport
  <2>1. t.dr \in Bits(DbusLength) /\ Answer(t.dr, response) \in Bits(DbusLength)
    BY <1>3, Answered
  <2>2. RequiredRti \in 0..RequiredRti
    BY Parameters
  <2>3. ASSUME NEW dmi \in Bits(DbusLength), NEW call \in {NoCall} \cup Bits(DbusLength)
        PROVE  [t EXCEPT !.dmi = dmi, !.call = call, !.rti_remaining = RequiredRti] \in Transport
    BY <2>2 DEF Transport
  <2> QED
    BY <2>1, <2>3 DEF update_dbus
<1> QED
  BY <1>1, <1>2, <1>3, Zenon DEF update_dr

\* The call before the pins are stored.
LEMMA CallTyped ==
    ASSUME NEW t \in Transport, NEW response \in Response,
           t.state = "UPDATE_DR" /\ t.ir = IrCode["DBUS"] => t.dr \in Bits(DbusLength)
    PROVE  OtherCall(t, response) \in Transport
<1>1. ASSUME NEW n \in 0..RequiredRti
      PROVE  [t EXCEPT !.rti_remaining = n] \in Transport
  BY DEF Transport
<1>2. (IF t.rti_remaining > 0 THEN t.rti_remaining - 1 ELSE 0) \in 0..RequiredRti
  BY Fields, Parameters
<1>3. [t EXCEPT !.ir = IrCode["IDCODE"]] \in Transport
  BY Codes DEF Transport
<1>4. capture_dr(t) \in Transport
  BY CaptureTyped
<1>5. t.state = "UPDATE_DR" => update_dr(t, response) \in Transport
  BY UpdateTyped
<1> QED
  BY <1>1, <1>2, <1>3, <1>4, <1>5 DEF OtherCall

Quieted == [tap EXCEPT !.call = NoCall]

LEMMA QuietedTyped ==
    ASSUME tap \in Transport
    PROVE  /\ Quieted \in Transport
           /\ Quieted.state = tap.state /\ Quieted.tck = tap.tck /\ Quieted.tms = tap.tms
           /\ Quieted.tdi = tap.tdi /\ Quieted.ir = tap.ir /\ Quieted.dr = tap.dr
           /\ Quieted.bypass = tap.bypass /\ Quieted.dmi = tap.dmi
           /\ Quieted.rti_remaining = tap.rti_remaining /\ Quieted.busy_stuck = tap.busy_stuck
           /\ Quieted.call = NoCall
  BY DEF Quieted, Transport

\* What a call that is no rising edge does.
LEMMA LowStep ==
    ASSUME TypeOK, NEW tms \in Bit, NEW tdi \in Bit, PinLow(tms, tdi)
    PROVE  /\ tap' \in Transport /\ tap'.tck = 0
           /\ \E response \in Response : LowEffect(response)
<1>1. tap \in Transport
  BY DEF TypeOK
<1>2. PICK response \in Response : tap' = set_pins(tap, 0, tms, tdi, response)
  BY DEF PinLow
<1> DEFINE u == OtherCall(Quieted, response)
<1>3. tap' = [u EXCEPT !.tck = 0, !.tms = tms, !.tdi = tdi]
  BY <1>2 DEF set_pins, Quieted
<1>4. Quieted \in Transport /\ u \in Transport
  <2>1. tap.state = "UPDATE_DR" /\ tap.ir = IrCode["DBUS"] => tap.dr \in Bits(DbusLength)
    BY <1>1, Fields, DrValues DEF TypeOK
  <2> QED
    BY <1>1, <2>1, QuietedTyped, CallTyped, Zenon
<1>5. /\ tap' \in Transport /\ tap'.tck = 0
      /\ tap'.state = u.state /\ tap'.ir = u.ir /\ tap'.dr = u.dr
      /\ tap'.dmi = u.dmi /\ tap'.rti_remaining = u.rti_remaining
      /\ tap'.busy_stuck = u.busy_stuck /\ tap'.call = u.call
  <2>1. 0 \in Bit
    BY DEF Bit
  <2> HIDE DEF u
  <2> QED
    BY <1>3, <1>4, <2>1 DEF Transport
<1> HIDE DEF u
<1>6. LowEffect(response)
  <2> DEFINE q == Quieted
  <2>1. /\ q \in Transport
        /\ q.state = tap.state /\ q.ir = tap.ir /\ q.dr = tap.dr /\ q.dmi = tap.dmi
        /\ q.rti_remaining = tap.rti_remaining /\ q.busy_stuck = tap.busy_stuck
        /\ q.call = NoCall
    BY <1>1, QuietedTyped
  <2>2. u = OtherCall(q, response)
    BY DEF u
  <2> HIDE DEF q
  <2>3. CASE tap.state = "RUN_TEST_IDLE"
    <3>1. u = [q EXCEPT !.rti_remaining = IF @ > 0 THEN @ - 1 ELSE 0]
      BY <2>1, <2>2, <2>3 DEF OtherCall
    <3>2. RestEffect
      BY <1>5, <2>1, <3>1 DEF RestEffect, SameScan, SameAccess, Transport
    <3> QED
      BY <2>3, <3>2 DEF LowEffect
  <2>4. CASE tap.state = "TEST_LOGIC_RESET"
    <3>1. u = [q EXCEPT !.ir = IrCode["IDCODE"]]
      BY <2>1, <2>2, <2>4 DEF OtherCall
    <3>2. ForgetEffect
      BY <1>5, <2>1, <3>1 DEF ForgetEffect, SameAccess, SameWait, Transport
    <3> QED
      BY <2>4, <3>2 DEF LowEffect
  <2>5. CASE tap.state = "CAPTURE_DR"
    <3>1. u = capture_dr(q)
      BY <2>1, <2>2, <2>5 DEF OtherCall
    <3>2. CASE tap.ir = IrCode["DBUS"]
      <4>1. u = capture_dbus(q)
        BY <2>1, <3>1, <3>2, Codes DEF capture_dr
      <4>2. q.busy_stuck \in BOOLEAN
        BY <2>1, Fields
      <4>3. CaptureEffect
        BY <1>5, <2>1, <3>2, <4>1, <4>2
           DEF capture_dbus, CaptureEffect, SameAccess, BusyWord, Transport
      <4> QED
        BY <2>5, <4>3 DEF LowEffect
    <3>3. CASE tap.ir # IrCode["DBUS"]
      <4>1. \/ u = q
            \/ \E dr \in {<<1>>, <<0, 0>>, <<q.bypass>>} : u = [q EXCEPT !.dr = dr]
        BY <2>1, <3>1, <3>3 DEF capture_dr
      <4>2. CaptureEffect
        BY <1>5, <2>1, <3>3, <4>1 DEF CaptureEffect, SameAccess, SameWait, Transport
      <4> QED
        BY <2>5, <4>2 DEF LowEffect
    <3> QED
      BY <3>2, <3>3
  <2>6. CASE tap.state = "UPDATE_DR"
    <3>1. u = update_dr(q, response)
      BY <2>1, <2>2, <2>6 DEF OtherCall
    <3>2. CASE tap.ir = IrCode["DTMCONTROL"]
      <4>1. u = update_dtmcontrol(q)
        BY <2>1, <3>1, <3>2, Codes DEF update_dr
      <4>2. UpdateEffect(response)
        BY <1>5, <2>1, <3>2, <4>1
           DEF update_dtmcontrol, reset, UpdateEffect, SameScan, SameAccess, Transport
      <4> QED
        BY <2>6, <4>2 DEF LowEffect
    <3>3. CASE tap.ir = IrCode["DBUS"]
      <4>1. u = update_dbus(q, response)
        BY <2>1, <3>1, <3>3, Codes DEF update_dr
      <4>2. UpdateEffect(response)
        BY <1>5, <2>1, <3>3, <4>1, Codes
           DEF update_dbus, UpdateEffect, SameScan, SameAccess, SameWait, Transport
      <4> QED
        BY <2>6, <4>2 DEF LowEffect
    <3>4. CASE tap.ir \notin {IrCode["DTMCONTROL"], IrCode["DBUS"]}
      <4>1. u \in {q, [q EXCEPT !.bypass = q.dr[1]]}
        BY <2>1, <3>1, <3>4 DEF update_dr
      <4>2. UpdateEffect(response)
        BY <1>5, <2>1, <3>4, <4>1 DEF UpdateEffect, SameScan, SameAccess, SameWait, Transport
      <4> QED
        BY <2>6, <4>2 DEF LowEffect
    <3> QED
      BY <3>2, <3>3, <3>4
  <2>7. CASE tap.state \notin {"RUN_TEST_IDLE", "TEST_LOGIC_RESET", "CAPTURE_DR", "UPDATE_DR"}
    <3>1. u = q
      BY <2>1, <2>2, <2>7 DEF OtherCall
    <3> QED
      BY <1>5, <2>1, <2>7, <3>1 DEF LowEffect, SameScan, SameAccess, SameWait
  <2> QED
    BY <2>3, <2>4, <2>5, <2>6, <2>7
<1> QED
  BY <1>5, <1>6

\* What a rising edge does.
LEMMA HighStep ==
    ASSUME TypeOK, PinHigh
    PROVE  tap' \in Transport /\ tap.tck = 0 /\ tap'.tck = 1 /\ HighEffect
<1>1. tap \in Transport /\ tap.tck = 0
  BY DEF TypeOK, PinHigh
<1> DEFINE u == RisingEdge(Quieted)
<1>2. tap' = [u EXCEPT !.tck = 1, !.tms = tap.tms, !.tdi = tap.tdi]
  <2>1. PICK response \in Response : tap' = set_pins(tap, 1, tap.tms, tap.tdi, response)
    BY DEF PinHigh
  <2> QED
    BY <1>1, <2>1, QuietedTyped DEF set_pins, Quieted
<1> DEFINE q == Quieted
           state == next[tap.state][tap.tms + 1]
           dr == IF tap.state = "SHIFT_DR" THEN Shift(tap.dr, tap.tdi) ELSE tap.dr
           ir == IF tap.state = "SHIFT_IR" THEN Shift(tap.ir, tap.tdi) ELSE tap.ir
<1>3. /\ q \in Transport
      /\ q.state = tap.state /\ q.tms = tap.tms /\ q.tdi = tap.tdi
      /\ q.ir = tap.ir /\ q.dr = tap.dr /\ q.dmi = tap.dmi
      /\ q.rti_remaining = tap.rti_remaining /\ q.busy_stuck = tap.busy_stuck
      /\ q.call = NoCall
  BY <1>1, QuietedTyped
<1>4. u = [q EXCEPT !.state = state, !.dr = dr, !.ir = ir]
  BY <1>3 DEF RisingEdge
<1>5. state \in TapState
  <2>1. tap.state \in TapState /\ tap.tms \in {0, 1}
    BY <1>1, Fields DEF Bit
  <2>2. next[tap.state][1] \in TapState /\ next[tap.state][2] \in TapState
    BY <2>1, Edges
  <2> QED
    BY <2>1, <2>2
<1>6. dr \in DrValue
  <2>1. tap.dr \in DrValue /\ tap.tdi \in Bit
    BY <1>1, Fields
  <2>2. PICK n \in Nat \ {0} : n \in DrLength /\ tap.dr \in Bits(n)
    BY <2>1, DrValues
  <2>3. Shift(tap.dr, tap.tdi) \in Bits(n)
    BY <2>1, <2>2, Shifting
  <2>4. Shift(tap.dr, tap.tdi) \in DrValue
    BY <2>2, <2>3 DEF DrValue
  <2> QED
    BY <2>1, <2>4
<1>7. ir \in Bits(IrLength)
  BY <1>1, Fields, Parameters, Shifting
<1> HIDE DEF q, u, state, dr, ir
<1>8. u \in Transport
  BY <1>3, <1>4, <1>5, <1>6, <1>7 DEF Transport, DrValue
<1>9. /\ u.state = state /\ u.dr = dr /\ u.ir = ir /\ u.dmi = q.dmi
      /\ u.rti_remaining = q.rti_remaining /\ u.busy_stuck = q.busy_stuck /\ u.call = q.call
  BY <1>3, <1>4 DEF Transport
<1>10. /\ tap' \in Transport /\ tap'.tck = 1
       /\ tap'.state = u.state /\ tap'.ir = u.ir /\ tap'.dr = u.dr
       /\ tap'.dmi = u.dmi /\ tap'.rti_remaining = u.rti_remaining
       /\ tap'.busy_stuck = u.busy_stuck /\ tap'.call = u.call
  <2>1. 1 \in Bit /\ tap.tms \in Bit /\ tap.tdi \in Bit
    BY <1>1, Fields DEF Bit
  <2> QED
    BY <1>2, <1>8, <2>1 DEF Transport
<1> QED
  BY <1>1, <1>3, <1>9, <1>10 DEF HighEffect, SameAccess, SameWait, state, dr, ir

\* What the command r does.
LEMMA ResetStep ==
    ASSUME TypeOK, ResetTap
    PROVE  tap' \in Transport /\ tap'.tck = tap.tck /\ ResetEffect
<1>1. tap \in Transport /\ reset(tap) \in Transport
  BY ResetTyped DEF TypeOK
<1>2. tap' = [reset(tap) EXCEPT !.call = NoCall]
  BY DEF ResetTap
<1>3. tap' \in Transport
  BY <1>1, <1>2 DEF Transport
<1> QED
  BY <1>1, <1>2, <1>3 DEF ResetEffect, reset, Transport

-----------------------------------------------------------------------------
(* The client's account.                                                   *)

Account ==
    [ shifted : Seq(Bit), idled : 0..RequiredRti, told_busy : BOOLEAN,
      ones : 0..5, accesses : 0..2 ]

LEMMA Leasts ==
    ASSUME NEW a \in Nat, NEW b \in Nat
    PROVE  Least(a, b) = IF a <= b THEN a ELSE b
<1> DEFINE m == IF a <= b THEN a ELSE b
<1>1. m \in {a, b} /\ \A y \in {a, b} : m <= y
  OBVIOUS
<1>2. \A x \in {a, b} : (\A y \in {a, b} : x <= y) => x = m
  OBVIOUS
<1> QED
  BY <1>1, <1>2 DEF Least, Min

\* After TCK has fallen or stayed low.
LowAccount ==
    LET captures == tap.state = "CAPTURE_DR"
        updates  == tap.state = "UPDATE_DR" /\ tap.ir = IrCode["DTMCONTROL"]
        accesses == tap'.call # NoCall
    IN  /\ ghost'.shifted = IF captures THEN <<>> ELSE ghost.shifted
        /\ accesses => ghost'.idled = 0
        /\ ~accesses /\ updates /\ tap.dr[2] = 1 => ghost'.idled = RequiredRti
        /\ ~accesses /\ tap.state = "RUN_TEST_IDLE" =>
              ghost'.idled = IF ghost.idled < RequiredRti THEN ghost.idled + 1 ELSE RequiredRti
        /\ ~accesses /\ tap.state # "RUN_TEST_IDLE" /\ ~(updates /\ tap.dr[2] = 1) =>
              ghost'.idled = ghost.idled
        /\ ghost'.told_busy =>
              IF captures /\ tap.ir = IrCode["DBUS"]
                THEN ghost.told_busy \/ Op(tap'.dr) = STATUS_BUSY
                ELSE ghost.told_busy /\ ~(updates /\ 1 \in {tap.dr[1], tap.dr[2]})
        /\ ghost'.ones = ghost.ones
        /\ ghost'.accesses = IF ~accesses THEN ghost.accesses
                             ELSE IF ghost.accesses = 0 THEN 1 ELSE 2

LEMMA LowObserved ==
    ASSUME ghost \in Account, ObserveLow
    PROVE  ghost' \in Account /\ LowAccount
<1> DEFINE captures == tap.state = "CAPTURE_DR"
           updates  == tap.state = "UPDATE_DR" /\ tap.ir = IrCode["DTMCONTROL"]
           accesses == tap'.call # NoCall
           shifted  == IF captures THEN <<>> ELSE ghost.shifted
           idled    == IF accesses THEN 0
                       ELSE IF updates /\ tap.dr[2] = 1 THEN RequiredRti
                       ELSE IF tap.state = "RUN_TEST_IDLE" THEN Least(ghost.idled + 1, RequiredRti)
                       ELSE ghost.idled
           told     == IF captures /\ tap.ir = IrCode["DBUS"]
                         THEN ghost.told_busy \/ Op(tap'.dr) = STATUS_BUSY
                         ELSE ghost.told_busy /\ ~(updates /\ 1 \in {tap.dr[1], tap.dr[2]})
           count    == IF accesses THEN Least(ghost.accesses + 1, 2) ELSE ghost.accesses
<1>1. ghost' = [ghost EXCEPT !.shifted = shifted, !.idled = idled, !.told_busy = told,
                             !.accesses = count]
  BY DEF ObserveLow
<1>2. /\ ghost.shifted \in Seq(Bit) /\ ghost.idled \in 0..RequiredRti
      /\ ghost.told_busy \in BOOLEAN /\ ghost.ones \in 0..5 /\ ghost.accesses \in 0..2
      /\ RequiredRti \in Nat \ {0}
  BY Parameters DEF Account
<1>3. Least(ghost.idled + 1, RequiredRti)
        = IF ghost.idled < RequiredRti THEN ghost.idled + 1 ELSE RequiredRti
  BY <1>2, Leasts
<1>4. Least(ghost.accesses + 1, 2) = IF ghost.accesses = 0 THEN 1 ELSE 2
  BY <1>2, Leasts
<1>5. shifted \in Seq(Bit) /\ idled \in 0..RequiredRti /\ told \in BOOLEAN /\ count \in 0..2
  <2>1. <<>> \in Seq(Bit)
    BY EmptySeq
  <2>2. idled \in 0..RequiredRti
    BY <1>2, <1>3
  <2>3. told \in BOOLEAN
    BY <1>2
  <2>4. count \in 0..2
    BY <1>2, <1>4
  <2> QED
    BY <1>2, <2>1, <2>2, <2>3, <2>4
<1>6. /\ ghost'.shifted = shifted /\ ghost'.idled = idled /\ ghost'.told_busy = told
      /\ ghost'.ones = ghost.ones /\ ghost'.accesses = count
  <2> HIDE DEF shifted, idled, told, count
  <2> QED
    BY <1>1 DEF Account
<1>7. ghost' \in Account
  <2> HIDE DEF shifted, idled, told, count
  <2> QED
    BY <1>1, <1>5 DEF Account
<1>8. LowAccount
  BY <1>3, <1>4, <1>6 DEF LowAccount
<1> QED
  BY <1>7, <1>8

\* After TCK has risen.
HighAccount ==
    /\ ghost'.shifted = IF tap.state # "SHIFT_DR" THEN ghost.shifted
                        ELSE IF Len(ghost.shifted) < DbusLength THEN Append(ghost.shifted, tap.tdi)
                        ELSE Tail(Append(ghost.shifted, tap.tdi))
    /\ ghost'.idled = ghost.idled /\ ghost'.told_busy = ghost.told_busy
    /\ ghost'.ones = IF tap.tms # 1 THEN 0 ELSE IF ghost.ones < 5 THEN ghost.ones + 1 ELSE 5
    /\ ghost'.accesses = ghost.accesses

LEMMA HighObserved ==
    ASSUME tap \in Transport, ghost \in Account, ObserveHigh
    PROVE  ghost' \in Account /\ HighAccount
<1> DEFINE all == Append(ghost.shifted, tap.tdi)
           shifted == IF tap.state # "SHIFT_DR" THEN ghost.shifted
                      ELSE IF Len(all) > DbusLength THEN Tail(all) ELSE all
           ones == IF tap.tms = 1 THEN Least(ghost.ones + 1, 5) ELSE 0
<1>1. ghost' = [ghost EXCEPT !.shifted = shifted, !.ones = ones]
  BY DEF ObserveHigh
<1>2. /\ ghost.shifted \in Seq(Bit) /\ ghost.idled \in 0..RequiredRti
      /\ ghost.told_busy \in BOOLEAN /\ ghost.ones \in 0..5 /\ ghost.accesses \in 0..2
  BY DEF Account
<1>3. Least(ghost.ones + 1, 5) = IF ghost.ones < 5 THEN ghost.ones + 1 ELSE 5
  BY <1>2, Leasts
<1>4. /\ all \in Seq(Bit) /\ all # <<>> /\ Len(all) = Len(ghost.shifted) + 1
      /\ Len(ghost.shifted) \in Nat
  BY <1>2, Fields, AppendProperties, LenProperties
<1>5. Tail(all) \in Seq(Bit)
  BY <1>4, HeadTailProperties
<1>6. shifted = IF tap.state # "SHIFT_DR" THEN ghost.shifted
                ELSE IF Len(ghost.shifted) < DbusLength THEN all ELSE Tail(all)
  <2> HIDE DEF all
  <2> QED
    BY <1>4, Parameters
<1>7. shifted \in Seq(Bit) /\ ones \in 0..5
  BY <1>2, <1>3, <1>4, <1>5
<1>8. /\ ghost'.shifted = shifted /\ ghost'.ones = ones /\ ghost'.idled = ghost.idled
      /\ ghost'.told_busy = ghost.told_busy /\ ghost'.accesses = ghost.accesses
  <2> HIDE DEF shifted, ones
  <2> QED
    BY <1>1 DEF Account
<1>9. ghost' \in Account
  <2> HIDE DEF shifted, ones
  <2> QED
    BY <1>1, <1>7 DEF Account
<1>10. HighAccount
  BY <1>3, <1>6, <1>8 DEF HighAccount
<1> QED
  BY <1>9, <1>10

-----------------------------------------------------------------------------
(* The inductive invariant.                                                *)

Used == tap.state = "UPDATE_DR" /\ tap.tck = 0

\* s is what was shifted into word last.
LastIn(s, word) ==
    /\ Len(s) <= DbusLength
    /\ \A i \in 1..Len(s) : s[i] = word[DbusLength - Len(s) + i]

\* While DBUS is scanned its register has the length of a DMI word and ends
\* with the client's bits.
ScanInv ==
    (Captured \/ Used) /\ tap.ir = IrCode["DBUS"] =>
        Len(tap.dr) = DbusLength /\ LastIn(ghost.shifted, tap.dr)

\* The ones of TMS lead towards Test-Logic-Reset.
PathInv ==
    /\ ghost.ones = 1 => tap.state \in Ahead1
    /\ ghost.ones = 2 => tap.state \in Ahead2
    /\ ghost.ones = 3 => tap.state \in Ahead3
    /\ ghost.ones = 4 => tap.state \in Ahead4
    /\ ghost.ones = 5 => tap.state \in Ahead5

\* Only a busy transport says it is busy, and it stays so while the client has
\* not cleared it.
BusyInv ==
    /\ tap.dmi[1] = 0
    /\ ghost.told_busy => tap.busy_stuck

\* The idle cycles that are left and those that have passed make up what is
\* required, and a scan that will not be refused began when none was left.
IdleInv ==
    /\ tap.rti_remaining + ghost.idled >= RequiredRti
    /\ Captured /\ tap.ir = IrCode["DBUS"] /\ ~tap.busy_stuck => ghost.idled = RequiredRti

\* After an access a second one takes a walk through Run-Test/Idle, where the
\* tick ends.
TickInv ==
    ghost.accesses # 0 =>
        /\ ghost.accesses = 1
        /\ \/ in_rti = "over"
           \/ in_rti = "no" /\ tap.state = "TEST_LOGIC_RESET"
           \/ /\ in_rti = "no" /\ tap.state # "RUN_TEST_IDLE"
              /\ tap.rti_remaining = RequiredRti
              /\ Captured /\ tap.ir = IrCode["DBUS"] => tap.busy_stuck

TransportInv ==
    /\ TypeOK /\ ghost \in Account
    /\ ScanInv /\ AccessIsAsShifted
    /\ PathInv /\ BusyInv /\ IdleInv /\ TickInv

LEMMA LowKeeps ==
    ASSUME TransportInv, NEW tms \in Bit, NEW tdi \in Bit, PinLow(tms, tdi)
    PROVE  TransportInv'
<1>1. /\ TypeOK /\ tap \in Transport /\ ghost \in Account
      /\ ScanInv /\ PathInv /\ BusyInv /\ IdleInv /\ TickInv
  BY DEF TransportInv, TypeOK
<1>2. /\ tap.state \in TapState /\ tap.tck \in {0, 1} /\ tap.dr \in DrValue
      /\ tap.ir \in Bits(IrLength) /\ tap.dmi \in Bits(DbusLength)
      /\ tap.rti_remaining \in 0..RequiredRti /\ tap.busy_stuck \in BOOLEAN
      /\ tap.dr[1] \in {0, 1}
  BY <1>1, Fields, DrValues DEF Bit
<1>3. /\ ghost.idled \in 0..RequiredRti /\ ghost.told_busy \in BOOLEAN
      /\ ghost.ones \in 0..5 /\ ghost.accesses \in 0..2 /\ RequiredRti \in Nat \ {0}
  BY <1>1, Parameters DEF Account
<1>4. tap' \in Transport /\ tap'.tck = 0
  BY <1>1, LowStep
<1>5. PICK response \in Response : LowEffect(response)
  BY <1>1, LowStep
<1>6. ghost' \in Account /\ LowAccount
  BY <1>1, LowObserved DEF PinLow
<1>7. /\ in_rti \in {"yes", "no"}
      /\ in_rti' = IF in_rti = "no" /\ tap'.state = "RUN_TEST_IDLE" THEN "over" ELSE "no"
      /\ tap.state \in {"CAPTURE_DR", "UPDATE_DR"} => tap.tck = 1
  BY <1>1, <1>2 DEF PinLow, AfterCommand, TypeOK, InRti, Resting
<1>8. IrCode["DBUS"] \notin {IrCode["IDCODE"], IrCode["DTMCONTROL"], IrCode["BYPASS"]}
  BY Codes
\* The five kinds of call in one.
<1>9. /\ tap'.state \in {tap.state, "TEST_LOGIC_RESET"}
      /\ tap'.state # tap.state =>
            tap.state = "UPDATE_DR" /\ tap.ir = IrCode["DTMCONTROL"] /\ tap.dr[2] = 1
      /\ tap.state \in Scanning => tap'.ir = tap.ir /\ tap'.dr = tap.dr
      /\ tap.state = "CAPTURE_DR" => CaptureEffect
  BY <1>2, <1>5
     DEF LowEffect, RestEffect, ForgetEffect, CaptureEffect, UpdateEffect, SameScan, Scanning
<1>10. tap'.call # NoCall =>
          /\ tap.state = "UPDATE_DR" /\ tap.ir = IrCode["DBUS"] /\ ~tap.busy_stuck
          /\ tap'.call = tap.dr /\ tap'.rti_remaining = RequiredRti
          /\ tap'.state = "UPDATE_DR" /\ ~tap'.busy_stuck
  BY <1>2, <1>5, <1>8
     DEF LowEffect, RestEffect, ForgetEffect, CaptureEffect, UpdateEffect, SameScan, SameAccess
<1>11. Captured' <=> tap'.state \in Scanning \ {"UPDATE_DR"} \/ tap'.state = "CAPTURE_DR"
  BY <1>4 DEF Captured
<1>12. ScanInv'
  <2> SUFFICES ASSUME (Captured \/ Used)', tap'.ir = IrCode["DBUS"]
               PROVE  Len(tap'.dr) = DbusLength /\ LastIn(ghost'.shifted, tap'.dr)
    BY DEF ScanInv
  <2>1. tap.state \in Scanning \cup {"CAPTURE_DR"} /\ tap'.state = tap.state
    BY <1>2, <1>9, <1>11 DEF Used, Scanning
  <2>2. CASE tap.state \in Scanning
    <3>1. /\ tap'.ir = tap.ir /\ tap'.dr = tap.dr /\ ghost'.shifted = ghost.shifted
      BY <1>6, <1>9, <2>2 DEF LowAccount, Scanning
    <3>2. Captured \/ Used
      BY <1>2, <2>2 DEF Captured, Used, Scanning
    <3> QED
      BY <1>1, <3>1, <3>2 DEF ScanInv
  <2>3. CASE tap.state = "CAPTURE_DR"
    <3>1. tap'.dr \in {BusyWord, tap.dmi} /\ ghost'.shifted = <<>>
      BY <1>6, <1>9, <2>3 DEF LowAccount, CaptureEffect
    <3>2. tap'.dr \in Bits(DbusLength)
      BY <1>2, <3>1, BusyWords
    <3>3. Len(tap'.dr) = DbusLength /\ DbusLength \in Nat
      BY <3>2, BitsAreSequence, Parameters
    <3>4. LastIn(<<>>, tap'.dr)
      BY <3>3 DEF LastIn
    <3> QED
      BY <3>1, <3>3, <3>4
  <2> QED
    BY <2>1, <2>2, <2>3
<1>13. TypeOK'
  <2>1. tap'.state \in {"SHIFT_DR", "UPDATE_DR"} => (Captured \/ Used)'
    BY <1>4 DEF Captured, Used, Scanning
  <2>2. in_rti' \in InRti
    BY <1>7 DEF InRti
  <2> QED
    BY <1>4, <1>12, <2>1, <2>2 DEF TypeOK, ScanInv
<1>14. AccessIsAsShifted'
  <2> SUFFICES ASSUME tap'.call # NoCall, Len(ghost'.shifted) = DbusLength
               PROVE  tap'.call = ghost'.shifted
    BY DEF AccessIsAsShifted
  <2>1. /\ tap'.call = tap.dr /\ ghost'.shifted = ghost.shifted
        /\ Len(tap.dr) = DbusLength /\ LastIn(ghost.shifted, tap.dr)
    BY <1>1, <1>2, <1>6, <1>10 DEF LowAccount, ScanInv, Captured, Used
  <2>2. ghost.shifted \in Seq(Bit) /\ tap.dr \in Seq(Bit) /\ DbusLength \in Nat
    BY <1>1, <1>2, DrValues, Parameters DEF Account
  <2>3. \A i \in 1..DbusLength : ghost.shifted[i] = tap.dr[i]
    <3>1. \A i \in 1..DbusLength : DbusLength - DbusLength + i = i
      BY <2>2
    <3> QED
      BY <2>1, <3>1 DEF LastIn
  <2>4. ghost.shifted = tap.dr
    BY <2>1, <2>2, <2>3, SeqEqual
  <2> QED
    BY <2>1, <2>4
<1>15. PathInv'
  BY <1>1, <1>3, <1>6, <1>9
     DEF PathInv, LowAccount, Ahead1, Ahead2, Ahead3, Ahead4, Ahead5
<1>16. BusyInv'
  <2>1. tap'.dmi[1] = 0
    <3>1. tap'.dmi \in {tap.dmi, Zeros(DbusLength), Answer(tap.dr, response)}
      BY <1>2, <1>5
         DEF LowEffect, RestEffect, ForgetEffect, CaptureEffect, UpdateEffect, SameAccess
    <3>2. Zeros(DbusLength)[1] = 0
      BY Parameters DEF Zeros
    <3>3. tap'.dmi = Answer(tap.dr, response) => tap'.dmi = tap.dmi \/ Len(tap.dr) = DbusLength
                                                \/ tap'.dmi = Zeros(DbusLength)
      <4>1. tap.state = "UPDATE_DR" /\ tap.ir = IrCode["DBUS"] => Len(tap.dr) = DbusLength
        BY <1>1 DEF TypeOK
      <4> QED
        BY <1>2, <1>5, <4>1
           DEF LowEffect, RestEffect, ForgetEffect, CaptureEffect, UpdateEffect, SameAccess
    <3>4. Len(tap.dr) = DbusLength => Answer(tap.dr, response)[1] = 0
      BY <1>2, DrValues, Answered
    <3> QED
      BY <1>1, <3>1, <3>2, <3>3, <3>4 DEF BusyInv
  <2>2. ASSUME ghost'.told_busy
        PROVE  tap'.busy_stuck
    <3>1. CASE tap.state = "CAPTURE_DR" /\ tap.ir = IrCode["DBUS"]
      <4>1. /\ ghost.told_busy \/ Op(tap'.dr) = STATUS_BUSY
            /\ tap'.busy_stuck = (tap.rti_remaining > 0 \/ tap.busy_stuck)
            /\ tap'.dr = IF tap'.busy_stuck THEN BusyWord ELSE tap.dmi
        BY <1>6, <1>9, <2>2, <3>1 DEF LowAccount, CaptureEffect
      <4>2. CASE ghost.told_busy
        BY <1>1, <4>1, <4>2 DEF BusyInv
      <4>3. CASE Op(tap'.dr) = STATUS_BUSY /\ ~tap'.busy_stuck
        <5>1. <<tap.dmi[1], tap.dmi[2]>> = <<1, 1>>
          BY <1>2, <4>1, <4>3, Parts DEF STATUS_BUSY
        <5> QED
          BY <1>1, <5>1 DEF BusyInv
      <4> QED
        BY <4>1, <4>2, <4>3
    <3>2. CASE ~(tap.state = "CAPTURE_DR" /\ tap.ir = IrCode["DBUS"])
      <4>1. /\ ghost.told_busy /\ tap.busy_stuck
            /\ tap.state = "UPDATE_DR" /\ tap.ir = IrCode["DTMCONTROL"] =>
                  tap.dr[1] # 1 /\ tap.dr[2] # 1
        BY <1>1, <1>6, <2>2, <3>2 DEF LowAccount, BusyInv
      <4> QED
        BY <1>2, <1>5, <3>2, <4>1
           DEF LowEffect, RestEffect, ForgetEffect, CaptureEffect, UpdateEffect, SameWait
    <3> QED
      BY <3>1, <3>2
  <2> QED
    BY <2>1, <2>2 DEF BusyInv
<1>17. IdleInv'
  <2>1. tap'.rti_remaining \in 0..RequiredRti /\ ghost'.idled \in 0..RequiredRti
    BY <1>4, <1>6, Fields DEF Account
  <2>2. tap'.rti_remaining + ghost'.idled >= RequiredRti
    <3>1. CASE tap'.call # NoCall
      BY <1>3, <1>10, <2>1, <3>1
    <3>2. CASE tap'.call = NoCall /\ tap.state = "RUN_TEST_IDLE"
      BY <1>1, <1>2, <1>3, <1>5, <1>6, <3>2 DEF LowEffect, RestEffect, LowAccount, IdleInv
    <3>3. CASE /\ tap'.call = NoCall
               /\ tap.state = "UPDATE_DR" /\ tap.ir = IrCode["DTMCONTROL"] /\ tap.dr[2] = 1
      BY <1>3, <1>6, <2>1, <3>3 DEF LowAccount
    <3>4. CASE /\ tap'.call = NoCall /\ tap.state # "RUN_TEST_IDLE"
               /\ ~(/\ tap.state = "UPDATE_DR" /\ tap.ir = IrCode["DTMCONTROL"]
                    /\ tap.dr[2] = 1)
      <4>1. ghost'.idled = ghost.idled
        BY <1>6, <3>4 DEF LowAccount
      <4>2. tap'.rti_remaining \in {tap.rti_remaining, RequiredRti}
        BY <1>2, <1>5, <3>4
           DEF LowEffect, ForgetEffect, CaptureEffect, UpdateEffect, SameWait
      <4> QED
        BY <1>1, <1>2, <1>3, <4>1, <4>2 DEF IdleInv
    <3> QED
      BY <3>1, <3>2, <3>3, <3>4
  <2>3. ASSUME Captured', tap'.ir = IrCode["DBUS"], ~tap'.busy_stuck
        PROVE  ghost'.idled = RequiredRti
    <3>1. /\ tap'.state = tap.state
          /\ tap.state \in (Scanning \ {"UPDATE_DR"}) \cup {"CAPTURE_DR"}
          /\ tap'.call = NoCall /\ ghost'.idled = ghost.idled
      BY <1>2, <1>6, <1>9, <1>10, <1>11, <2>3 DEF LowAccount, Scanning
    <3>2. CASE tap.state = "CAPTURE_DR"
      <4>1. tap.ir = IrCode["DBUS"] /\ ~(tap.rti_remaining > 0)
        BY <1>9, <2>3, <3>2, Zenon DEF CaptureEffect
      <4> QED
        BY <1>1, <1>2, <1>3, <3>1, <4>1 DEF IdleInv
    <3>3. CASE tap.state # "CAPTURE_DR"
      <4>1. Captured /\ tap.ir = IrCode["DBUS"] /\ tap'.busy_stuck = tap.busy_stuck
        BY <1>2, <1>5, <1>9, <2>3, <3>1, <3>3 DEF Captured, LowEffect, SameWait, Scanning
      <4> QED
        BY <1>1, <2>3, <3>1, <4>1 DEF IdleInv
    <3> QED
      BY <3>2, <3>3
  <2> QED
    BY <2>2, <2>3 DEF IdleInv
<1>18. TickInv'
  <2>1. CASE tap'.call # NoCall
    <3>1. Captured
      BY <1>7, <1>10, <2>1 DEF Captured
    <3>2. ghost.accesses = 0
      BY <1>1, <1>7, <1>10, <2>1, <3>1 DEF TickInv
    <3>3. ghost'.accesses = 1 /\ in_rti' = "no"
      BY <1>6, <1>7, <1>10, <2>1, <3>2 DEF LowAccount
    <3>4. ~Captured'
      BY <1>10, <1>11, <2>1 DEF Scanning
    <3> QED
      BY <1>10, <2>1, <3>3, <3>4 DEF TickInv
  <2>2. CASE tap'.call = NoCall /\ ghost.accesses # 0
    <3>1. ghost'.accesses = 1 /\ in_rti = "no"
      BY <1>1, <1>6, <1>7, <2>2 DEF LowAccount, TickInv
    <3>2. CASE tap.state = "TEST_LOGIC_RESET" \/ tap'.state = "TEST_LOGIC_RESET"
      <4>1. tap'.state = "TEST_LOGIC_RESET"
        BY <1>9, <3>2
      <4> QED
        BY <1>7, <3>1, <4>1 DEF TickInv
    <3>3. CASE tap.state # "TEST_LOGIC_RESET" /\ tap'.state # "TEST_LOGIC_RESET"
      <4>1. /\ tap.state # "RUN_TEST_IDLE" /\ tap.rti_remaining = RequiredRti
            /\ Captured /\ tap.ir = IrCode["DBUS"] => tap.busy_stuck
        BY <1>1, <1>7, <2>2, <3>3 DEF TickInv
      <4>2. tap'.state = tap.state /\ in_rti' = "no"
        BY <1>7, <1>9, <3>1, <3>3, <4>1
      <4>3. tap'.rti_remaining = RequiredRti
        BY <1>2, <1>5, <3>3, <4>1
           DEF LowEffect, CaptureEffect, UpdateEffect, SameWait
      <4>4. ASSUME Captured', tap'.ir = IrCode["DBUS"]
            PROVE  tap'.busy_stuck
        <5>1. CASE tap.state = "CAPTURE_DR"
          <6>1. tap.rti_remaining > 0
            BY <1>3, <4>1
          <6> QED
            BY <1>9, <4>4, <5>1, <6>1, Zenon DEF CaptureEffect
        <5>2. CASE tap.state # "CAPTURE_DR"
          <6>1. tap.state \in Scanning \ {"UPDATE_DR"}
            BY <1>11, <4>2, <4>4, <5>2
          <6>2. Captured /\ tap.ir = IrCode["DBUS"] /\ tap'.busy_stuck = tap.busy_stuck
            BY <1>2, <1>5, <1>9, <4>4, <6>1 DEF Captured, LowEffect, SameWait, Scanning
          <6> QED
            BY <4>1, <6>2
        <5> QED
          BY <5>1, <5>2
      <4> QED
        BY <3>1, <4>1, <4>2, <4>3, <4>4 DEF TickInv
    <3> QED
      BY <3>2, <3>3
  <2>3. CASE tap'.call = NoCall /\ ghost.accesses = 0
    BY <1>6, <2>3 DEF LowAccount, TickInv
  <2> QED
    BY <2>1, <2>2, <2>3
<1> QED
  BY <1>6, <1>12, <1>13, <1>14, <1>15, <1>16, <1>17, <1>18 DEF TransportInv

\* A bit that is shifted in follows the client's earlier ones.
LEMMA LastShifted ==
    ASSUME NEW word \in Bits(DbusLength), NEW s \in Seq(Bit), LastIn(s, word), NEW bit \in Bit
    PROVE  LET all == Append(s, bit)
           IN  LastIn(IF Len(s) < DbusLength THEN all ELSE Tail(all), Shift(word, bit))
<1> DEFINE n == DbusLength
           k == Len(s)
           all == Append(s, bit)
           rest == Tail(all)
           after == Shift(word, bit)
<1>1. n \in Nat \ {0} /\ k \in Nat /\ k <= n /\ \A i \in 1..k : s[i] = word[n - k + i]
  BY Parameters, LenProperties DEF LastIn
<1>2. \A i \in 1..n-1 : after[i] = word[i + 1]
  BY <1>1, Shifting
<1>3. after[n] = bit
  BY <1>1, Shifting
<1>4. /\ all \in Seq(Bit) /\ all # <<>> /\ Len(all) = k + 1
      /\ \A i \in 1..k : all[i] = s[i]
      /\ all[k + 1] = bit
  BY AppendProperties
<1>5. Len(rest) = k /\ \A i \in 1..k : rest[i] = all[i + 1]
  <2> HIDE DEF all
  <2>1. rest \in Seq(Bit) /\ Len(rest) = Len(all) - 1
        /\ \A i \in 1..Len(all)-1 : rest[i] = all[i + 1]
    BY <1>4, HeadTailProperties
  <2> HIDE DEF rest
  <2> QED
    BY <1>1, <1>4, <2>1
<1> HIDE DEF n, k, all, rest, after
<1>6. CASE k < n
  <2>1. ASSUME NEW i \in 1..k+1
        PROVE  all[i] = after[n - (k + 1) + i]
    <3>1. CASE i = k + 1
      <4>1. n - (k + 1) + i = n
        BY <1>1, <3>1
      <4> QED
        BY <1>3, <1>4, <3>1, <4>1
    <3>2. CASE i # k + 1
      <4>1. i \in 1..k /\ n - (k + 1) + i \in 1..n-1 /\ n - (k + 1) + i + 1 = n - k + i
        BY <1>1, <1>6, <3>2
      <4> QED
        BY <1>1, <1>2, <1>4, <4>1
    <3> QED
      BY <3>1, <3>2
  <2>2. LastIn(all, after)
    <3>1. Len(all) <= n
      BY <1>1, <1>4, <1>6
    <3> QED
      BY <1>4, <2>1, <3>1 DEF LastIn, n
  <2> QED
    BY <1>6, <2>2 DEF all, n, k, after
<1>7. CASE ~(k < n)
  <2>1. k = n
    BY <1>1, <1>7
  <2>2. ASSUME NEW i \in 1..n
        PROVE  rest[i] = after[n - n + i]
    <3>1. n - n + i = i
      BY <1>1
    <3>2. CASE i = n
      BY <1>3, <1>4, <1>5, <2>1, <3>1, <3>2
    <3>3. CASE i # n
      <4>1. i \in 1..n-1 /\ i + 1 \in 1..n /\ n - n + (i + 1) = i + 1
        BY <1>1, <3>3
      <4>2. rest[i] = s[i + 1] /\ s[i + 1] = word[i + 1] /\ after[i] = word[i + 1]
        BY <1>1, <1>2, <1>4, <1>5, <2>1, <4>1
      <4> QED
        BY <3>1, <4>2
    <3> QED
      BY <3>2, <3>3
  <2>3. LastIn(rest, after)
    <3>1. Len(rest) = n /\ Len(rest) <= n
      BY <1>1, <1>5, <2>1
    <3> QED
      BY <2>2, <3>1 DEF LastIn, n
  <2> QED
    BY <1>7, <2>3 DEF rest, all, n, k, after
<1> QED
  BY <1>6, <1>7

LEMMA HighKeeps ==
    ASSUME TransportInv, PinHigh
    PROVE  TransportInv'
<1>1. /\ TypeOK /\ tap \in Transport /\ ghost \in Account
      /\ ScanInv /\ PathInv /\ BusyInv /\ IdleInv /\ TickInv
  BY DEF TransportInv, TypeOK
<1>2. /\ tap.state \in TapState /\ tap.tms \in {0, 1} /\ tap.tdi \in Bit
      /\ tap.dr \in DrValue /\ tap.busy_stuck \in BOOLEAN /\ ghost.ones \in 0..5
      /\ ghost.shifted \in Seq(Bit)
  BY <1>1, Fields DEF Bit, Account
<1>3. tap' \in Transport /\ tap.tck = 0 /\ tap'.tck = 1 /\ HighEffect
  BY <1>1, HighStep
<1>4. ghost' \in Account /\ HighAccount
  BY <1>1, HighObserved DEF PinHigh
<1>5. /\ in_rti \in {"yes", "no"}
      /\ in_rti' = IF in_rti = "no" /\ tap'.state = "RUN_TEST_IDLE" THEN "over" ELSE "no"
  BY <1>1 DEF PinHigh, AfterCommand, TypeOK, InRti
<1>6. tap'.state \in {next[tap.state][1], next[tap.state][2]}
      /\ (tap.tms = 1 => tap'.state = next[tap.state][2])
  BY <1>2, <1>3 DEF HighEffect
\* A scan after the edge is a scan before it.
<1>7. (Captured \/ Used)' =>
         /\ Captured /\ tap'.ir = tap.ir
         /\ tap'.dr = IF tap.state = "SHIFT_DR" THEN Shift(tap.dr, tap.tdi) ELSE tap.dr
  <2> SUFFICES ASSUME (Captured \/ Used)'
               PROVE  /\ Captured /\ tap'.ir = tap.ir
                      /\ tap'.dr = IF tap.state = "SHIFT_DR" THEN Shift(tap.dr, tap.tdi)
                                                             ELSE tap.dr
    OBVIOUS
  <2>1. tap'.state \in Scanning
    BY <1>3 DEF Captured, Used, Scanning
  <2>2. tap.state \in {"CAPTURE_DR", "SHIFT_DR", "EXIT1_DR", "PAUSE_DR", "EXIT2_DR"}
    BY <1>2, <1>6, <2>1, Edges
  <2> QED
    BY <1>3, <2>2 DEF Captured, HighEffect, Scanning
<1>8. ScanInv'
  <2> SUFFICES ASSUME (Captured \/ Used)', tap'.ir = IrCode["DBUS"]
               PROVE  Len(tap'.dr) = DbusLength /\ LastIn(ghost'.shifted, tap'.dr)
    BY DEF ScanInv
  <2>1. Len(tap.dr) = DbusLength /\ LastIn(ghost.shifted, tap.dr)
    BY <1>1, <1>7 DEF ScanInv
  <2>2. CASE tap.state = "SHIFT_DR"
    <3>1. tap.dr \in Bits(DbusLength) /\ DbusLength \in Nat \ {0}
      BY <1>2, <2>1, DrValues, Parameters
    <3>2. tap'.dr = Shift(tap.dr, tap.tdi)
      BY <1>7, <2>2
    <3>3. Len(tap'.dr) = DbusLength
      BY <1>2, <3>1, <3>2, Shifting, BitsAreSequence
    <3>4. ghost'.shifted = IF Len(ghost.shifted) < DbusLength THEN Append(ghost.shifted, tap.tdi)
                           ELSE Tail(Append(ghost.shifted, tap.tdi))
      BY <1>4, <2>2 DEF HighAccount
    <3>5. LastIn(ghost'.shifted, tap'.dr)
      BY <1>2, <2>1, <3>1, <3>2, <3>4, LastShifted
    <3> QED
      BY <3>3, <3>5
  <2>3. CASE tap.state # "SHIFT_DR"
    BY <1>4, <1>7, <2>1, <2>3 DEF HighAccount
  <2> QED
    BY <2>2, <2>3
<1>9. TypeOK'
  <2>1. tap'.state \in {"SHIFT_DR", "UPDATE_DR"} => (Captured \/ Used)'
    BY <1>3 DEF Captured, Used, Scanning
  <2> QED
    BY <1>3, <1>5, <1>8, <2>1 DEF TypeOK, ScanInv, InRti
<1>10. AccessIsAsShifted'
  BY <1>3 DEF AccessIsAsShifted, HighEffect, SameAccess
<1>11. PathInv'
  <2>1. ghost'.ones = IF tap.tms # 1 THEN 0 ELSE IF ghost.ones < 5 THEN ghost.ones + 1 ELSE 5
    BY <1>4 DEF HighAccount
  <2>2. CASE tap.tms # 1
    BY <2>1, <2>2 DEF PathInv
  <2>3. CASE tap.tms = 1
    <3>1. /\ tap'.state \in Ahead1
          /\ tap.state \in Ahead1 => tap'.state \in Ahead2
          /\ tap.state \in Ahead2 => tap'.state \in Ahead3
          /\ tap.state \in Ahead3 => tap'.state \in Ahead4
          /\ tap.state \in Ahead4 => tap'.state \in Ahead5
      BY <1>2, <1>6, <2>3, Edges
    <3>2. Ahead5 \subseteq Ahead4
      BY DEF Ahead4, Ahead5
    <3> QED
      BY <1>1, <1>2, <2>1, <2>3, <3>1, <3>2 DEF PathInv
  <2> QED
    BY <2>2, <2>3
<1>12. BusyInv'
  BY <1>1, <1>3, <1>4 DEF BusyInv, HighEffect, HighAccount, SameAccess, SameWait
<1>13. IdleInv'
  BY <1>1, <1>3, <1>4, <1>7 DEF IdleInv, HighEffect, HighAccount, SameWait
<1>14. TickInv'
  <2> SUFFICES ASSUME ghost.accesses # 0, in_rti' # "over"
               PROVE  TickInv'
    BY <1>1, <1>4 DEF TickInv, HighAccount
  <2>1. /\ ghost'.accesses = 1 /\ in_rti = "no" /\ in_rti' = "no"
        /\ tap'.state # "RUN_TEST_IDLE"
    BY <1>1, <1>4, <1>5 DEF TickInv, HighAccount
  <2>2. CASE tap.state = "TEST_LOGIC_RESET"
    <3>1. tap'.state = "TEST_LOGIC_RESET"
      BY <1>2, <1>6, <2>1, <2>2, Edges
    <3> QED
      BY <2>1, <3>1 DEF TickInv
  <2>3. CASE tap.state # "TEST_LOGIC_RESET"
    <3>1. /\ tap.rti_remaining = RequiredRti
          /\ Captured /\ tap.ir = IrCode["DBUS"] => tap.busy_stuck
      BY <1>1, <1>5, <2>3 DEF TickInv
    <3> QED
      BY <1>3, <1>7, <2>1, <3>1 DEF TickInv, HighEffect, SameWait
  <2> QED
    BY <2>2, <2>3
<1> QED
  BY <1>4, <1>8, <1>9, <1>10, <1>11, <1>12, <1>13, <1>14 DEF TransportInv

LEMMA ResetKeeps ==
    ASSUME TransportInv, ResetTap
    PROVE  TransportInv'
<1>1. TypeOK /\ ghost \in Account /\ TickInv /\ RequiredRti \in Nat /\ DbusLength >= 3
      /\ DbusLength \in Nat
  BY Parameters DEF TransportInv
<1>2. tap' \in Transport /\ ResetEffect
  BY <1>1, ResetStep
<1>3. /\ ghost'.shifted = ghost.shifted /\ ghost'.idled = RequiredRti
      /\ ~ghost'.told_busy /\ ghost'.ones = 0 /\ ghost'.accesses = ghost.accesses
      /\ ghost' \in Account
  <2>1. ghost' = [ghost EXCEPT !.idled = RequiredRti, !.told_busy = FALSE, !.ones = 0]
    BY DEF ResetTap
  <2>2. RequiredRti \in 0..RequiredRti /\ FALSE \in BOOLEAN /\ 0 \in 0..5
    BY <1>1
  <2>3. ghost'.told_busy = FALSE
    BY <1>1, <2>1 DEF Account
  <2> QED
    BY <1>1, <2>1, <2>2, <2>3 DEF Account
<1>4. in_rti \in {"yes", "no"} /\ in_rti' = "no"
  BY <1>1, <1>2 DEF ResetTap, AfterCommand, TypeOK, InRti, ResetEffect
<1>5. ~(Captured \/ Used)'
  BY <1>2 DEF Captured, Used, Scanning, ResetEffect
<1>6. ScanInv' /\ AccessIsAsShifted' /\ PathInv'
  BY <1>2, <1>3, <1>5 DEF ScanInv, AccessIsAsShifted, PathInv, ResetEffect
<1>7. TypeOK'
  BY <1>2, <1>4 DEF TypeOK, InRti, ResetEffect
<1>8. BusyInv'
  BY <1>1, <1>2, <1>3 DEF BusyInv, ResetEffect, Zeros
<1>9. IdleInv'
  BY <1>1, <1>2, <1>3 DEF IdleInv, ResetEffect
<1>10. TickInv'
  BY <1>1, <1>2, <1>3, <1>4 DEF TickInv, ResetEffect
<1> QED
  BY <1>3, <1>6, <1>7, <1>8, <1>9, <1>10 DEF TransportInv

LEMMA BeginTickKeeps ==
    ASSUME TransportInv, BeginTick
    PROVE  TransportInv'
<1>1. tap \in Transport /\ ghost \in Account
  BY DEF TransportInv, TypeOK
<1>2. /\ tap' \in Transport /\ SameScan /\ SameAccess /\ SameWait
      /\ tap'.tck = tap.tck
  BY <1>1 DEF BeginTick, Transport, SameScan, SameAccess, SameWait
<1>3. /\ ghost' \in Account /\ ghost'.accesses = 0
      /\ ghost'.shifted = ghost.shifted /\ ghost'.idled = ghost.idled
      /\ ghost'.told_busy = ghost.told_busy /\ ghost'.ones = ghost.ones
  BY <1>1 DEF BeginTick, Account
<1>4. in_rti' \in InRti
  BY DEF BeginTick, InRti
<1>5. TypeOK' /\ ScanInv'
  BY <1>2, <1>3, <1>4 DEF TransportInv, TypeOK, ScanInv, Captured, Used, SameScan
<1>6. AccessIsAsShifted' /\ TickInv'
  BY <1>2, <1>3 DEF AccessIsAsShifted, TickInv, SameAccess
<1>7. PathInv' /\ BusyInv' /\ IdleInv'
  BY <1>2, <1>3
     DEF TransportInv, PathInv, BusyInv, IdleInv, Captured, SameScan, SameAccess, SameWait
<1> QED
  BY <1>3, <1>5, <1>6, <1>7 DEF TransportInv

LEMMA TransportInit == Init => TransportInv
<1> SUFFICES ASSUME Init
             PROVE  TransportInv
  OBVIOUS
<1>1. /\ RequiredRti \in Nat \ {0} /\ DbusLength \in Nat /\ DbusLength >= 3
      /\ Zeros(DbusLength) \in Bits(DbusLength) /\ Bits(1) \subseteq DrValue
      /\ "TEST_LOGIC_RESET" \in TapState /\ <<>> \in Seq(Bit)
  BY Parameters, Zeroed, DrValues, TapStates, EmptySeq
<1>2. /\ tap \in Transport /\ tap.state = "TEST_LOGIC_RESET"
      /\ tap.dmi = Zeros(DbusLength) /\ tap.call = NoCall /\ in_rti = "over"
  BY <1>1 DEF Init, Transport, DrValue, Bit
<1>3. /\ ghost \in Account /\ ghost.idled = RequiredRti /\ ghost.ones = 0
      /\ ghost.accesses = 0 /\ ghost.told_busy = tap.busy_stuck
  <2> DEFINE busy == tap.busy_stuck
  <2>1. busy \in BOOLEAN
    BY <1>2, Fields
  <2>2. ghost = [InitGhost EXCEPT !.told_busy = busy]
    BY DEF Init
  <2> HIDE DEF busy
  <2>3. ghost = [ shifted |-> <<>>, idled |-> RequiredRti, told_busy |-> busy, ones |-> 0,
                  accesses |-> 0 ]
    BY <2>2 DEF InitGhost
  <2>4. ghost \in Account
    BY <1>1, <2>1, <2>3 DEF Account
  <2>5. /\ ghost.idled = RequiredRti /\ ghost.ones = 0 /\ ghost.accesses = 0
        /\ ghost.told_busy = busy
    BY <2>3
  <2> QED
    BY <2>4, <2>5 DEF busy
<1>4. ~(Captured \/ Used)
  BY <1>2 DEF Captured, Used, Scanning
<1>5. TypeOK
  BY <1>2 DEF TypeOK, InRti
<1>6. BusyInv
  BY <1>1, <1>2, <1>3 DEF BusyInv, Zeros
<1>7. IdleInv
  <2>1. tap.rti_remaining \in 0..RequiredRti
    BY <1>2, Fields
  <2> QED
    BY <1>1, <1>3, <1>4, <2>1 DEF IdleInv
<1> QED
  BY <1>2, <1>3, <1>4, <1>5, <1>6, <1>7
     DEF TransportInv, ScanInv, AccessIsAsShifted, PathInv, TickInv

\* The inductive invariant of the transport and its server.
THEOREM TransportInvariant == Spec => []TransportInv
<1>1. TransportInv /\ [Next]_vars => TransportInv'
  <2> SUFFICES ASSUME TransportInv, [Next]_vars
               PROVE  TransportInv'
    OBVIOUS
  <2>1. ASSUME UNCHANGED vars
        PROVE  TransportInv'
    BY <2>1
       DEF vars, TransportInv, TypeOK, ScanInv, AccessIsAsShifted, PathInv, BusyInv, IdleInv,
           TickInv, Captured, Used
  <2> QED
    BY <2>1, LowKeeps, HighKeeps, ResetKeeps, BeginTickKeeps DEF Next
<1> QED
  BY <1>1, TransportInit, PTL DEF Spec

-----------------------------------------------------------------------------
(* What follows from it.                                                   *)

\* The transport keeps its type: in particular a register is never used with
\* the length of another instruction's.
THEOREM TransportTypeCorrect == Spec => []TypeOK
<1>1. TransportInv => TypeOK
  BY DEF TransportInv
<1> QED
  BY <1>1, TransportInvariant, PTL

\* Five rising edges with TMS high reset the TAP.
THEOREM FiveOnesResetTap == Spec => []FiveOnesReset
<1>1. TransportInv => FiveOnesReset
  BY DEF TransportInv, PathInv, Ahead5, FiveOnesReset
<1> QED
  BY <1>1, TransportInvariant, PTL

\* The debug module sees the word that the client shifted in.
THEOREM AccessAsShifted == Spec => []AccessIsAsShifted
<1>1. TransportInv => AccessIsAsShifted
  BY DEF TransportInv
<1> QED
  BY <1>1, TransportInvariant, PTL

\* At most one access reaches the debug module in a tick.
THEOREM OneAccess == Spec => []OneAccessPerTick
<1>1. TransportInv => OneAccessPerTick
  BY DEF TransportInv, TickInv, Account, OneAccessPerTick
<1> QED
  BY <1>1, TransportInvariant, PTL

\* An access is made only by a scan of DBUS that was not refused.
LEMMA Accesses ==
    ASSUME TransportInv, [Next]_vars, tap'.call # NoCall, vars' # vars
    PROVE  /\ Captured /\ tap.ir = IrCode["DBUS"] /\ ~tap.busy_stuck
<1>1. TypeOK /\ tap \in Transport
  BY DEF TransportInv, TypeOK
<1>2. PICK tms \in Bit, tdi \in Bit : PinLow(tms, tdi)
  <2>1. PinHigh => tap'.call = NoCall
    BY <1>1, HighStep DEF HighEffect, SameAccess
  <2>2. ResetTap => tap'.call = NoCall
    BY <1>1, ResetStep DEF ResetEffect
  <2>3. BeginTick => tap'.call = NoCall
    BY <1>1 DEF BeginTick, Transport
  <2> QED
    BY <2>1, <2>2, <2>3 DEF Next
<1>3. PICK response \in Response : LowEffect(response)
  BY <1>1, <1>2, LowStep
<1>4. tap.state = "UPDATE_DR" /\ tap.ir = IrCode["DBUS"] /\ ~tap.busy_stuck
  BY <1>3, Codes
     DEF LowEffect, RestEffect, ForgetEffect, CaptureEffect, UpdateEffect, SameAccess
<1>5. tap.tck = 1
  BY <1>2, <1>4 DEF PinLow, Resting
<1> QED
  BY <1>4, <1>5 DEF Captured

\* Between two accesses lie the idle cycles that the transport asks for.
THEOREM AccessesSpaced == Spec => AccessesAreSpaced
<1> DEFINE Spaced == tap'.call # NoCall => ghost.idled = RequiredRti
<1>1. TransportInv /\ [Next]_vars => [Spaced]_vars
  BY Accesses DEF TransportInv, IdleInv
<1> QED
  BY <1>1, TransportInvariant, PTL DEF Spec, AccessesAreSpaced

\* A client that was told busy makes no access before it has cleared that.
THEOREM BusyObeyed == Spec => BusyIsObeyed
<1> DEFINE Obeyed == tap'.call # NoCall => ~ghost.told_busy
<1>1. TransportInv /\ [Next]_vars => [Obeyed]_vars
  BY Accesses DEF TransportInv, BusyInv
<1> QED
  BY <1>1, TransportInvariant, PTL DEF Spec, BusyIsObeyed

-----------------------------------------------------------------------------
(* The port that the transport implements.                                 *)

\* A scan that has been captured leaves the states of a scan by its update only.
LEMMA EdgesOfScan ==
    ASSUME NEW s \in (Scanning \ {"UPDATE_DR"}) \cup {"CAPTURE_DR"}
    PROVE  next[s][1] \in Scanning /\ next[s][2] \in Scanning
<1>1. s \in {"CAPTURE_DR", "SHIFT_DR", "EXIT1_DR", "PAUSE_DR", "EXIT2_DR"}
  BY DEF Scanning
<1>2. CASE s = "CAPTURE_DR"
  BY <1>2 DEF next, Scanning
<1>3. CASE s = "SHIFT_DR"
  BY <1>3 DEF next, Scanning
<1>4. CASE s = "EXIT1_DR"
  BY <1>4 DEF next, Scanning
<1>5. CASE s = "PAUSE_DR"
  BY <1>5 DEF next, Scanning
<1>6. CASE s = "EXIT2_DR"
  BY <1>6 DEF next, Scanning
<1> QED
  BY <1>1, <1>2, <1>3, <1>4, <1>5, <1>6

\* No idle cycle is owed while a scan is open: none passes in it either.
OpenOwesNothing == Open => tap.rti_remaining = 0

PortInv == TransportInv /\ OpenOwesNothing

\* The initial transport is a port no scan of which is open.
LEMMA PortInit == Init => Port!Init /\ PortInv
<1> SUFFICES ASSUME Init
             PROVE  Port!Init /\ PortInv
  OBVIOUS
<1>1. TransportInv
  BY TransportInit
<1>2. tap \in Transport /\ tap.state = "TEST_LOGIC_RESET" /\ tap.call = NoCall
  BY <1>1 DEF TransportInv, TypeOK, Init
<1>3. ~Open
  BY <1>2 DEF Open, Captured, Scanning
<1>4. ghost.accesses = 0
  BY DEF Init, InitGhost
<1>5. tap.rti_remaining \in 0..RequiredRti /\ tap.busy_stuck \in BOOLEAN
  BY <1>2, Fields
<1> QED
  BY <1>1, <1>2, <1>3, <1>4, <1>5 DEF Port!Init, PortInv, OpenOwesNothing

\* A step that changes nothing of the port.
LEMMA PortRests ==
    ASSUME SameWait, tap'.call = NoCall, ghost'.accesses = ghost.accesses, Open' <=> Open,
           Open => ghost'.shifted = ghost.shifted, OpenOwesNothing
    PROVE  Port!Next /\ OpenOwesNothing'
<1>1. Port!Rest
  BY DEF Port!Rest, Port!Silent, SameWait
<1>2. OpenOwesNothing'
  BY DEF OpenOwesNothing, SameWait
<1> QED
  BY <1>1, <1>2 DEF Port!Next

\* TCK falls or stays low: the port waits, or a scan begins, is refused or ends.
LEMMA LowImplements ==
    ASSUME PortInv, NEW tms \in Bit, NEW tdi \in Bit, PinLow(tms, tdi)
    PROVE  Port!Next /\ OpenOwesNothing'
<1>1. /\ TypeOK /\ tap \in Transport /\ ghost \in Account
      /\ ScanInv /\ OpenOwesNothing
  BY DEF PortInv, TransportInv, TypeOK
<1>2. /\ tap.state \in TapState /\ tap.tck \in {0, 1} /\ tap.dr \in DrValue
      /\ tap.rti_remaining \in 0..RequiredRti /\ tap.busy_stuck \in BOOLEAN
      /\ tap.dr[1] \in {0, 1} /\ ghost.accesses \in 0..2 /\ RequiredRti \in Nat
  BY <1>1, Fields, DrValues, Parameters DEF Bit, Account
<1>3. tap' \in Transport /\ tap'.tck = 0 /\ tap'.busy_stuck \in BOOLEAN
  BY <1>1, LowStep, Fields
<1>4. PICK response \in Response : LowEffect(response)
  BY <1>1, LowStep
<1>5. LowAccount
  BY <1>1, LowObserved DEF PinLow
<1>6. tap.state \in {"CAPTURE_DR", "UPDATE_DR"} => tap.tck = 1
  BY <1>1, <1>2 DEF PinLow, Resting
<1>7. IrCode["DBUS"] # IrCode["DTMCONTROL"]
  BY Codes
<1>8. CASE tap.state = "RUN_TEST_IDLE"
  <2>1. RestEffect
    BY <1>4, <1>8 DEF LowEffect
  <2>2. ~Open /\ ~Open' /\ ghost'.accesses = ghost.accesses
    BY <1>5, <1>8, <2>1 DEF Open, Captured, Scanning, RestEffect, SameScan, SameAccess, LowAccount
  <2>3. CASE tap.rti_remaining > 0
    <3>1. Port!Idle
      BY <2>1, <2>2, <2>3 DEF Port!Idle, Port!Silent, RestEffect, SameAccess
    <3> QED
      BY <2>2, <3>1 DEF Port!Next, OpenOwesNothing
  <2>4. CASE ~(tap.rti_remaining > 0)
    <3>1. SameWait /\ tap'.call = NoCall
      BY <1>2, <2>1, <2>4 DEF RestEffect, SameWait, SameAccess
    <3> QED
      BY <1>1, <2>2, <3>1, PortRests
  <2> QED
    BY <2>3, <2>4
<1>9. CASE tap.state = "TEST_LOGIC_RESET"
  <2>1. ForgetEffect
    BY <1>4, <1>9 DEF LowEffect
  <2>2. ~Open /\ ~Open' /\ ghost'.accesses = ghost.accesses
    BY <1>5, <1>9, <2>1 DEF Open, Captured, Scanning, ForgetEffect, SameAccess, LowAccount
  <2> QED
    BY <1>1, <2>1, <2>2, PortRests DEF ForgetEffect, SameAccess
<1>10. CASE tap.state = "CAPTURE_DR"
  <2>1. CaptureEffect
    BY <1>4, <1>10 DEF LowEffect
  <2>2. /\ ~Open /\ Captured' /\ tap'.ir = tap.ir /\ tap'.call = NoCall
        /\ ghost'.accesses = ghost.accesses /\ ghost'.shifted = <<>>
    BY <1>3, <1>5, <1>6, <1>10, <2>1
       DEF Open, Captured, Scanning, CaptureEffect, SameAccess, LowAccount
  <2>3. CASE tap.ir # IrCode["DBUS"]
    <3>1. SameWait /\ ~Open'
      BY <2>1, <2>2, <2>3 DEF CaptureEffect, Open
    <3> QED
      BY <1>1, <2>2, <3>1, PortRests
  <2>4. CASE tap.ir = IrCode["DBUS"]
    <3>1. /\ tap'.rti_remaining = tap.rti_remaining
          /\ tap'.busy_stuck <=> tap.rti_remaining > 0 \/ tap.busy_stuck
          /\ Open' <=> ~tap'.busy_stuck
      BY <2>1, <2>2, <2>4, Zenon DEF CaptureEffect, Open
    <3>2. CASE tap.rti_remaining > 0 \/ tap.busy_stuck
      <4>1. tap'.busy_stuck = TRUE
        BY <1>3, <3>1, <3>2
      <4>2. Port!RefuseScan
        BY <2>2, <3>1, <3>2, <4>1 DEF Port!RefuseScan, Port!Silent
      <4> QED
        BY <3>1, <3>2, <4>2 DEF Port!Next, OpenOwesNothing
    <3>3. CASE ~(tap.rti_remaining > 0 \/ tap.busy_stuck)
      <4>1. tap.rti_remaining = 0 /\ Open' /\ tap'.busy_stuck = tap.busy_stuck
        BY <1>2, <1>3, <3>1, <3>3
      <4>2. Port!BeginScan
        BY <2>2, <3>1, <3>3, <4>1 DEF Port!BeginScan, Port!Silent
      <4> QED
        BY <3>1, <4>1, <4>2 DEF Port!Next, OpenOwesNothing
    <3> QED
      BY <3>2, <3>3
  <2> QED
    BY <2>3, <2>4
<1>11. CASE tap.state = "UPDATE_DR"
  <2>1. UpdateEffect(response)
    BY <1>4, <1>11 DEF LowEffect
  <2>2. ~Open' /\ (Open <=> tap.ir = IrCode["DBUS"] /\ ~tap.busy_stuck)
    BY <1>3, <1>6, <1>11, <2>1
       DEF Open, Captured, Scanning, UpdateEffect, SameScan
  <2>3. CASE tap.ir = IrCode["DTMCONTROL"]
    <3>1. ~Open /\ tap'.call = NoCall /\ ghost'.accesses = ghost.accesses
      BY <1>5, <1>7, <2>1, <2>2, <2>3 DEF UpdateEffect, SameAccess, LowAccount
    <3>2. CASE tap.dr[2] = 1
      <4>1. tap'.rti_remaining = 0 /\ tap'.busy_stuck = FALSE
        BY <1>3, <2>1, <2>3, <3>2 DEF UpdateEffect
      <4>2. Port!HardReset
        BY <2>2, <3>1, <4>1 DEF Port!HardReset, Port!Silent
      <4> QED
        BY <2>2, <4>2 DEF Port!Next, OpenOwesNothing
    <3>3. CASE tap.dr[2] # 1
      <4>1. /\ tap'.busy_stuck <=> tap.busy_stuck /\ tap.dr[1] = 0
            /\ tap'.rti_remaining = tap.rti_remaining
        BY <2>1, <2>3, <3>3, Zenon DEF UpdateEffect
      <4>2. CASE tap.dr[1] = 0
        <5>1. SameWait
          BY <1>2, <1>3, <4>1, <4>2 DEF SameWait
        <5> QED
          BY <1>1, <2>2, <3>1, <5>1, PortRests
      <4>3. CASE tap.dr[1] # 0
        <5>1. tap'.busy_stuck = FALSE
          BY <1>3, <4>1, <4>3
        <5>2. Port!Clear
          BY <2>2, <3>1, <4>1, <5>1 DEF Port!Clear, Port!Silent
        <5> QED
          BY <2>2, <5>2 DEF Port!Next, OpenOwesNothing
      <4> QED
        BY <4>2, <4>3
    <3> QED
      BY <3>2, <3>3
  <2>4. CASE tap.ir = IrCode["DBUS"] /\ ~tap.busy_stuck
    <3>1. /\ tap'.call = IF Op(tap.dr) \in {READ, WRITE} THEN tap.dr ELSE NoCall
          /\ tap'.busy_stuck = tap.busy_stuck /\ tap'.rti_remaining = RequiredRti
      BY <1>2, <1>3, <1>7, <2>1, <2>4 DEF UpdateEffect
    <3>2. Open /\ tap.rti_remaining = 0 /\ Captured
      BY <1>1, <2>2, <2>4 DEF OpenOwesNothing, Open
    <3>3. tap.dr \in Bits(DbusLength) /\ LastIn(ghost.shifted, tap.dr)
      BY <1>1, <1>2, <2>4, <3>2, DrValues DEF ScanInv
    <3>4. Port!EndsWith(tap.dr, ghost.shifted)
      BY <3>3 DEF LastIn, Port!EndsWith
    <3>5. tap.dr # NoCall
      BY <3>3, Parameters, BitsAreSequence, EmptySeq DEF NoCall
    <3>6. TickInv'
      BY LowKeeps DEF PortInv, TransportInv
    <3>7. IF Op(tap.dr) \in {READ, WRITE}
            THEN ghost.accesses = 0 /\ ghost'.accesses = 1 /\ tap'.call = tap.dr
            ELSE tap'.call = NoCall /\ ghost'.accesses = ghost.accesses
      BY <1>2, <1>5, <3>1, <3>5, <3>6 DEF LowAccount, TickInv
    <3>8. Port!Execute(tap.dr)
      BY <2>2, <2>4, <3>1, <3>2, <3>3, <3>4, <3>7 DEF Port!Execute, Port!Silent
    <3> QED
      BY <2>2, <3>3, <3>8 DEF Port!Next, OpenOwesNothing
  <2>5. CASE tap.ir # IrCode["DTMCONTROL"] /\ ~(tap.ir = IrCode["DBUS"] /\ ~tap.busy_stuck)
    <3>1. SameAccess /\ SameWait /\ ~Open
      BY <2>1, <2>2, <2>5 DEF UpdateEffect
    <3>2. tap'.call = NoCall /\ ghost'.accesses = ghost.accesses
      BY <1>5, <3>1 DEF SameAccess, LowAccount
    <3> QED
      BY <1>1, <2>2, <3>1, <3>2, PortRests
  <2> QED
    BY <2>3, <2>4, <2>5
<1>12. CASE tap.state \notin {"RUN_TEST_IDLE", "TEST_LOGIC_RESET", "CAPTURE_DR", "UPDATE_DR"}
  <2>1. SameScan /\ SameAccess /\ SameWait
    BY <1>4, <1>12 DEF LowEffect
  <2>2. tap'.call = NoCall /\ ghost'.accesses = ghost.accesses /\ ghost'.shifted = ghost.shifted
    BY <1>5, <1>12, <2>1 DEF SameAccess, LowAccount
  <2>3. Open' <=> Open
    BY <1>12, <2>1 DEF Open, Captured, Scanning, SameScan, SameWait
  <2> QED
    BY <1>1, <2>1, <2>2, <2>3, PortRests
<1> QED
  BY <1>8, <1>9, <1>10, <1>11, <1>12

\* TCK rises: a bit is shifted into the open scan, or the port rests.
LEMMA HighImplements ==
    ASSUME PortInv, PinHigh
    PROVE  Port!Next /\ OpenOwesNothing'
<1>1. TypeOK /\ tap \in Transport /\ ghost \in Account /\ OpenOwesNothing
  BY DEF PortInv, TransportInv, TypeOK
<1>2. tap.state \in TapState /\ tap.tms \in {0, 1} /\ tap.tdi \in Bit
  BY <1>1, Fields DEF Bit
<1>3. tap.tck = 0 /\ tap'.tck = 1 /\ HighEffect
  BY <1>1, HighStep
<1>4. HighAccount
  BY <1>1, HighObserved DEF PinHigh
<1>5. tap'.state \in {next[tap.state][1], next[tap.state][2]}
  BY <1>2, <1>3 DEF HighEffect
<1>6. Captured' <=> Captured
  <2>1. CASE Captured
    <3>1. tap.state \in (Scanning \ {"UPDATE_DR"}) \cup {"CAPTURE_DR"}
      BY <1>3, <2>1 DEF Captured
    <3>2. tap'.state \in Scanning
      BY <1>5, <3>1, EdgesOfScan
    <3> QED
      BY <1>3, <2>1, <3>2 DEF Captured
  <2>2. CASE Captured'
    <3>1. tap'.state \in Scanning
      BY <1>3, <2>2 DEF Captured, Scanning
    <3>2. tap.state \in {"CAPTURE_DR", "SHIFT_DR", "EXIT1_DR", "PAUSE_DR", "EXIT2_DR"}
      BY <1>2, <1>5, <3>1, Edges
    <3> QED
      BY <1>3, <2>2, <3>2 DEF Captured, Scanning
  <2> QED
    BY <2>1, <2>2
<1>7. SameWait /\ tap'.call = NoCall /\ ghost'.accesses = ghost.accesses
  BY <1>3, <1>4 DEF HighEffect, HighAccount, SameAccess
<1>8. Open' <=> Open
  <2>1. Captured => tap'.ir = tap.ir
    BY <1>3 DEF Captured, Scanning, HighEffect
  <2> QED
    BY <1>6, <1>7, <2>1 DEF Open, SameWait
<1>9. CASE tap.state = "SHIFT_DR" /\ Open
  <2>1. ghost'.shifted = IF Len(ghost.shifted) < DbusLength THEN Append(ghost.shifted, tap.tdi)
                         ELSE Tail(Append(ghost.shifted, tap.tdi))
    BY <1>4, <1>9 DEF HighAccount
  <2>2. Port!Shift(tap.tdi)
    BY <1>7, <1>8, <1>9, <2>1 DEF Port!Shift, Port!Silent, SameWait
  <2> QED
    BY <1>1, <1>2, <1>7, <1>8, <2>2 DEF Port!Next, OpenOwesNothing, SameWait
<1>10. CASE ~(tap.state = "SHIFT_DR" /\ Open)
  <2>1. Open => ghost'.shifted = ghost.shifted
    BY <1>4, <1>10 DEF HighAccount
  <2> QED
    BY <1>1, <1>7, <1>8, <2>1, PortRests
<1> QED
  BY <1>9, <1>10

\* The transport and its server implement the port: every scan of a word is
\* refused or executed once, with the bits shifted, when the idle cycles and the
\* client's clearing of a refusal say so, and one access reaches the debug module
\* in a tick (jtag_dtm_t::set_pins, capture_dr, update_dr and reset,
\* remote_bitbang_t::execute_commands), whatever the lengths of the registers.
THEOREM TransportImplementsPort == Spec => ImplementsPort
<1>1. Init => Port!Init /\ PortInv
  BY PortInit
<1>2. PortInv /\ [Next]_vars => [Port!Next]_(Port!vars) /\ PortInv'
  <2> SUFFICES ASSUME PortInv, [Next]_vars
               PROVE  [Port!Next]_(Port!vars) /\ PortInv'
    OBVIOUS
  <2>1. TypeOK /\ tap \in Transport /\ ghost \in Account /\ OpenOwesNothing
    BY DEF PortInv, TransportInv, TypeOK
  <2>2. CASE \E tms, tdi \in Bit : PinLow(tms, tdi)
    BY <2>2, LowImplements, LowKeeps DEF PortInv
  <2>3. CASE PinHigh
    BY <2>3, HighImplements, HighKeeps DEF PortInv
  <2>4. CASE ResetTap
    <3>1. ResetEffect /\ tap' \in Transport
      BY <2>1, <2>4, ResetStep
    <3>2. ~Open' /\ ghost'.accesses = ghost.accesses /\ tap'.busy_stuck = FALSE
      <4>1. ghost' = [ghost EXCEPT !.idled = RequiredRti, !.told_busy = FALSE, !.ones = 0]
        BY <2>4 DEF ResetTap
      <4> QED
        BY <2>1, <3>1, <4>1, Fields DEF Open, Captured, Scanning, ResetEffect, Account
    <3>3. Port!HardReset
      BY <3>1, <3>2 DEF Port!HardReset, Port!Silent, ResetEffect
    <3> QED
      BY <2>4, <3>2, <3>3, ResetKeeps DEF PortInv, Port!Next, OpenOwesNothing
  <2>5. CASE BeginTick
    <3>1. SameScan /\ SameWait /\ tap'.call = NoCall /\ tap'.tck = tap.tck
      BY <2>1, <2>5 DEF BeginTick, Transport, SameScan, SameWait
    <3>2. ghost'.accesses = 0 /\ ghost'.shifted = ghost.shifted
      BY <2>1, <2>5 DEF BeginTick, Account
    <3>3. Open' <=> Open
      BY <3>1 DEF Open, Captured, SameScan, SameWait
    <3>4. Port!BeginTick
      BY <3>1, <3>2, <3>3 DEF Port!BeginTick, Port!Silent, SameWait
    <3> QED
      BY <2>1, <2>5, <3>1, <3>3, <3>4, BeginTickKeeps
         DEF PortInv, Port!Next, OpenOwesNothing, SameWait
  <2>6. CASE UNCHANGED vars
    <3>1. Port!vars' = Port!vars
      BY <2>6 DEF vars, Port!vars, Open, Captured
    <3>2. PortInv'
      BY <2>6
         DEF vars, PortInv, TransportInv, TypeOK, ScanInv, AccessIsAsShifted, PathInv, BusyInv,
             IdleInv, TickInv, Captured, Used, OpenOwesNothing, Open
    <3> QED
      BY <3>1, <3>2
  <2> QED
    BY <2>2, <2>3, <2>4, <2>5, <2>6 DEF Next
<1> QED
  BY <1>1, <1>2, PTL DEF Spec, ImplementsPort, Port!Spec
=============================================================================
