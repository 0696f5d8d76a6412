------------------------------- MODULE JtagDtm -------------------------------
(***************************************************************************)
(* The JTAG debug transport of modules/debug/src/jtag_dtm.cpp: the TAP     *)
(* state machine, its shift registers, and the DMI accesses that a scan of *)
(* the DBUS register makes.                                                *)
(*                                                                         *)
(* The transport is one record, and every function of jtag_dtm_t is an     *)
(* operator from records to records.  Registers are sequences of bits,     *)
(* least significant first, cut down to the bits the code looks at.  The   *)
(* field `call' is the call of dmi_read or dmi_write that the last pin     *)
(* change made.  Left out are tdo, which shows the first bit of dr, and    *)
(* the call of run_test_idle, which DebugSystem models as RunTestIdle.     *)
(***************************************************************************)
EXTENDS Integers, Sequences

CONSTANTS
    IrCode,             \* the instruction codes, 5 bits in the code
    DataBits,           \* data bits of a DMI access (32)
    AddressBits,        \* abits (6)
    RequiredRti         \* required_rti_cycles (5)

-----------------------------------------------------------------------------
Bit == {0, 1}
Bits(n) == [1..n -> Bit]
Zeros(n) == [i \in 1..n |-> 0]

IrLength == Len(IrCode.IDCODE)
DbusLength == 2 + DataBits + AddressBits

ASSUME JtagAssumption ==
    /\ DataBits \in Nat \ {0}
    /\ AddressBits \in Nat
    /\ RequiredRti \in Nat \ {0}
    /\ DOMAIN IrCode = {"IDCODE", "DTMCONTROL", "DBUS", "BYPASS"}
    /\ \A r \in DOMAIN IrCode : IrCode[r] \in Seq(Bit) /\ Len(IrCode[r]) = IrLength
    /\ \A r, s \in DOMAIN IrCode : IrCode[r] = IrCode[s] => r = s

\* Mutant: two entries of one row are swapped.
next_Swapped ==
    [ TEST_LOGIC_RESET |-> <<"RUN_TEST_IDLE", "TEST_LOGIC_RESET">>,
      RUN_TEST_IDLE    |-> <<"RUN_TEST_IDLE", "SELECT_DR_SCAN">>,
      SELECT_DR_SCAN   |-> <<"CAPTURE_DR", "SELECT_IR_SCAN">>,
      CAPTURE_DR       |-> <<"SHIFT_DR", "EXIT1_DR">>,
      SHIFT_DR         |-> <<"SHIFT_DR", "EXIT1_DR">>,
      EXIT1_DR         |-> <<"PAUSE_DR", "UPDATE_DR">>,
      PAUSE_DR         |-> <<"PAUSE_DR", "EXIT2_DR">>,
      EXIT2_DR         |-> <<"SHIFT_DR", "UPDATE_DR">>,
      UPDATE_DR        |-> <<"RUN_TEST_IDLE", "SELECT_DR_SCAN">>,
      SELECT_IR_SCAN   |-> <<"TEST_LOGIC_RESET", "CAPTURE_IR">>,
      CAPTURE_IR       |-> <<"SHIFT_IR", "EXIT1_IR">>,
      SHIFT_IR         |-> <<"SHIFT_IR", "EXIT1_IR">>,
      EXIT1_IR         |-> <<"PAUSE_IR", "UPDATE_IR">>,
      PAUSE_IR         |-> <<"PAUSE_IR", "EXIT2_IR">>,
      EXIT2_IR         |-> <<"SHIFT_IR", "UPDATE_IR">>,
      UPDATE_IR        |-> <<"RUN_TEST_IDLE", "SELECT_DR_SCAN">> ]

\* The state after a rising edge with TMS low, and with TMS high.
next ==
    [ TEST_LOGIC_RESET |-> <<"RUN_TEST_IDLE", "TEST_LOGIC_RESET">>,
      RUN_TEST_IDLE    |-> <<"RUN_TEST_IDLE", "SELECT_DR_SCAN">>,
      SELECT_DR_SCAN   |-> <<"CAPTURE_DR", "SELECT_IR_SCAN">>,
      CAPTURE_DR       |-> <<"SHIFT_DR", "EXIT1_DR">>,
      SHIFT_DR         |-> <<"SHIFT_DR", "EXIT1_DR">>,
      EXIT1_DR         |-> <<"PAUSE_DR", "UPDATE_DR">>,
      PAUSE_DR         |-> <<"PAUSE_DR", "EXIT2_DR">>,
      EXIT2_DR         |-> <<"SHIFT_DR", "UPDATE_DR">>,
      UPDATE_DR        |-> <<"RUN_TEST_IDLE", "SELECT_DR_SCAN">>,
      SELECT_IR_SCAN   |-> <<"CAPTURE_IR", "TEST_LOGIC_RESET">>,
      CAPTURE_IR       |-> <<"SHIFT_IR", "EXIT1_IR">>,
      SHIFT_IR         |-> <<"SHIFT_IR", "EXIT1_IR">>,
      EXIT1_IR         |-> <<"PAUSE_IR", "UPDATE_IR">>,
      PAUSE_IR         |-> <<"PAUSE_IR", "EXIT2_IR">>,
      EXIT2_IR         |-> <<"SHIFT_IR", "UPDATE_IR">>,
      UPDATE_IR        |-> <<"RUN_TEST_IDLE", "SELECT_DR_SCAN">> ]

TapState == DOMAIN next

-----------------------------------------------------------------------------
(* A DMI word is the operation or status, the data and the address.        *)

STATUS_SUCCESS == <<0, 0>>
STATUS_FAILED  == <<0, 1>>
STATUS_BUSY    == <<1, 1>>
READ           == <<1, 0>>
WRITE          == <<0, 1>>

Op(word)      == SubSeq(word, 1, 2)
DataOf(word)  == SubSeq(word, 3, 2 + DataBits)
Address(word) == SubSeq(word, 3 + DataBits, DbusLength)

NoCall == <<>>

\* What the debug module may answer to an access.
Response == [success : BOOLEAN, value : Bits(DataBits)]

-----------------------------------------------------------------------------
(* jtag_dtm_t.                                                             *)

\* Mutant: a reset leaves a refused scan refused.
reset_KeepBusy(t) ==
    [t EXCEPT !.state = "TEST_LOGIC_RESET", !.rti_remaining = 0, !.dmi = Zeros(DbusLength)]

\* dtmcontrol, idcode and bypass are shifted like any register; of what is
\* written only dmireset and dmihardreset, here the two bits of dtmcontrol,
\* and bypass are used.
reset(t) ==
    [t EXCEPT !.state = "TEST_LOGIC_RESET", !.busy_stuck = FALSE,
              !.rti_remaining = 0, !.dmi = Zeros(DbusLength)]

\* Mutant: an access that is still in progress is not noticed.
capture_dbus_Early(t) ==
    IF t.busy_stuck THEN [t EXCEPT !.dr = STATUS_BUSY \o Zeros(DbusLength - 2)]
                    ELSE [t EXCEPT !.dr = t.dmi]

\* Mutant: the busy answer is not sticky.
capture_dbus_Forget(t) ==
    IF t.rti_remaining > 0 \/ t.busy_stuck
      THEN [t EXCEPT !.dr = STATUS_BUSY \o Zeros(DbusLength - 2)]
      ELSE [t EXCEPT !.dr = t.dmi]

capture_dbus(t) ==
    IF t.rti_remaining > 0 \/ t.busy_stuck
      THEN [t EXCEPT !.dr = STATUS_BUSY \o Zeros(DbusLength - 2), !.busy_stuck = TRUE]
      ELSE [t EXCEPT !.dr = t.dmi]

\* An unknown instruction leaves dr as it is.
capture_dr(t) ==
    CASE t.ir = IrCode.IDCODE     -> [t EXCEPT !.dr = <<1>>]
      [] t.ir = IrCode.DTMCONTROL -> [t EXCEPT !.dr = <<0, 0>>]
      [] t.ir = IrCode.DBUS       -> capture_dbus(t)
      [] t.ir = IrCode.BYPASS     -> [t EXCEPT !.dr = <<t.bypass>>]
      [] OTHER                    -> t

update_dtmcontrol(t) ==
    LET cleared == [t EXCEPT !.busy_stuck = @ /\ t.dr[1] = 0]
    IN  IF t.dr[2] = 1 THEN reset(cleared) ELSE cleared

\* The word that the next scan captures.
Answer(word, response) ==
    IF Op(word) \notin {READ, WRITE} \/ response.success
      THEN STATUS_SUCCESS
           \o (IF Op(word) = READ THEN response.value ELSE DataOf(word)) \o Address(word)
      ELSE STATUS_FAILED \o DataOf(word) \o Address(word)

update_dbus(t, response) ==
    IF t.busy_stuck
      THEN t
      ELSE [t EXCEPT !.dmi = Answer(t.dr, response),
                     !.call = IF Op(t.dr) \in {READ, WRITE} THEN t.dr ELSE NoCall,
                     !.rti_remaining = RequiredRti]

update_dr(t, response) ==
    CASE t.ir = IrCode.DTMCONTROL -> update_dtmcontrol(t)
      [] t.ir = IrCode.BYPASS     -> [t EXCEPT !.bypass = t.dr[1]]
      [] t.ir = IrCode.DBUS       -> update_dbus(t, response)
      [] OTHER                    -> t

\* Mutant: a bit enters at the wrong end.
Shift_Left(register, bit) == <<bit>> \o SubSeq(register, 1, Len(register) - 1)

Shift(register, bit) == Append(Tail(register), bit)

\* TMS and TDI as the previous call left them.
RisingEdge(t) ==
    [t EXCEPT !.state = next[t.state][t.tms + 1],
              !.dr = IF t.state = "SHIFT_DR" THEN Shift(@, t.tdi) ELSE @,
              !.ir = IF t.state = "SHIFT_IR" THEN Shift(@, t.tdi) ELSE @]

\* Every call that is not a rising edge, a repeated level included.
OtherCall(t, response) ==
    CASE t.state = "RUN_TEST_IDLE" ->
           [t EXCEPT !.rti_remaining = IF @ > 0 THEN @ - 1 ELSE 0]
      [] t.state = "TEST_LOGIC_RESET" -> [t EXCEPT !.ir = IrCode.IDCODE]
      [] t.state = "CAPTURE_DR"       -> capture_dr(t)
      [] t.state = "UPDATE_DR"        -> update_dr(t, response)
      [] OTHER                        -> t

set_pins(t, tck, tms, tdi, response) ==
    LET quiet == [t EXCEPT !.call = NoCall]
    IN  [(IF t.tck = 0 /\ tck = 1 THEN RisingEdge(quiet) ELSE OtherCall(quiet, response))
            EXCEPT !.tck = tck, !.tms = tms, !.tdi = tdi]
=============================================================================
