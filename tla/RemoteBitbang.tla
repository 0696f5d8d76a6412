---------------------------- MODULE RemoteBitbang ----------------------------
(***************************************************************************)
(* The socket server of modules/debug/src/remote_bitbang.cpp that carries  *)
(* a client's pin commands to the transport, and the client.               *)
(*                                                                         *)
(* debug_module_t::tick runs execute_commands once per Core::step; it      *)
(* executes commands until there is none, until it has executed enough, or *)
(* until the TAP enters Run-Test/Idle.  The first two may happen after any *)
(* command; the third ends the tick at once.                               *)
(*                                                                         *)
(* The client toggles TCK and holds TMS and TDI through the rising edge,   *)
(* as OpenOCD's bitbang driver does.  It repeats a low level only in the   *)
(* states in which it lets the TAP rest.                                   *)
(*                                                                         *)
(* `ghost' is the client's own account: the bits it has shifted in since   *)
(* the last capture, the idle cycles since the last access, whether it was *)
(* told busy, the length of its last run of TMS ones, and the accesses of  *)
(* the present tick.                                                       *)
(***************************************************************************)
EXTENDS JtagDtm, FiniteSetsExt

VARIABLES tap, in_rti, ghost

vars == <<tap, in_rti, ghost>>

Resting == {"TEST_LOGIC_RESET", "RUN_TEST_IDLE", "PAUSE_DR", "PAUSE_IR"}

\* in_rti is "over" when the tick has ended.
InRti == {"yes", "no", "over"}

InitGhost ==
    [shifted |-> <<>>, idled |-> RequiredRti, told_busy |-> FALSE, ones |-> 0, accesses |-> 0]

\* The constructor leaves ir, dr, rti_remaining and busy_stuck uninitialised.
\* Bound: rti_remaining is at most RequiredRti, and dr has one bit.
Init ==
    /\ tap \in [ state : {"TEST_LOGIC_RESET"}, tck : {0}, tms : {0}, tdi : {0},
                 ir : Bits(IrLength), dr : Bits(1), bypass : {0}, dmi : {Zeros(DbusLength)},
                 rti_remaining : 0..RequiredRti, busy_stuck : BOOLEAN, call : {NoCall} ]
    /\ in_rti = "over"
    /\ ghost = [InitGhost EXCEPT !.told_busy = tap.busy_stuck]

-----------------------------------------------------------------------------
(* The ticks.                                                              *)

\* Mutant: the tick goes on when the TAP enters Run-Test/Idle.
AfterCommand_GoOn == "no"

\* What becomes of the tick when a command has been executed.
AfterCommand ==
    IF in_rti = "no" /\ tap'.state = "RUN_TEST_IDLE" THEN "over" ELSE "no"

\* The hart has executed an instruction, and the next tick begins.
BeginTick ==
    /\ in_rti' = IF tap.state = "RUN_TEST_IDLE" THEN "yes" ELSE "no"
    /\ ghost' = [ghost EXCEPT !.accesses = 0]
    /\ tap' = [tap EXCEPT !.call = NoCall]

-----------------------------------------------------------------------------
(* The client's commands.                                                  *)

Least(a, b) == Min({a, b})

\* What the client knows after it has let TCK fall, or held it low.
ObserveLow ==
    LET captures == tap.state = "CAPTURE_DR"
        updates  == tap.state = "UPDATE_DR" /\ tap.ir = IrCode.DTMCONTROL
        accesses == tap'.call # NoCall
    IN  ghost' = [ghost EXCEPT
            !.shifted   = IF captures THEN <<>> ELSE @,
            !.idled     = IF accesses THEN 0
                          ELSE IF updates /\ tap.dr[2] = 1 THEN RequiredRti
                          ELSE IF tap.state = "RUN_TEST_IDLE" THEN Least(@ + 1, RequiredRti)
                          ELSE @,
            !.told_busy = IF captures /\ tap.ir = IrCode.DBUS
                            THEN @ \/ Op(tap'.dr) = STATUS_BUSY
                            ELSE @ /\ ~(updates /\ 1 \in {tap.dr[1], tap.dr[2]}),
            !.accesses  = IF accesses THEN Least(@ + 1, 2) ELSE @]

\* What it knows after it has let TCK rise.
ObserveHigh ==
    LET all == Append(ghost.shifted, tap.tdi)
    IN  ghost' = [ghost EXCEPT
            !.shifted = IF tap.state # "SHIFT_DR" THEN @
                        ELSE IF Len(all) > DbusLength THEN Tail(all) ELSE all,
            !.ones    = IF tap.tms = 1 THEN Least(@ + 1, 5) ELSE 0]

PinLow(tms, tdi) ==
    /\ in_rti # "over"
    /\ tap.tck = 1 \/ tap.state \in Resting
    /\ tdi = 1 => tap.state \in {"SHIFT_DR", "SHIFT_IR"}
    /\ \E response \in Response : tap' = set_pins(tap, 0, tms, tdi, response)
    /\ in_rti' = AfterCommand
    /\ ObserveLow

PinHigh ==
    /\ in_rti # "over"
    /\ tap.tck = 0
    /\ \E response \in Response : tap' = set_pins(tap, 1, tap.tms, tap.tdi, response)
    /\ in_rti' = AfterCommand
    /\ ObserveHigh

\* The command 'r'.
ResetTap ==
    /\ in_rti # "over"
    /\ tap' = [reset(tap) EXCEPT !.call = NoCall]
    /\ in_rti' = AfterCommand
    /\ ghost' = [ghost EXCEPT !.idled = RequiredRti, !.told_busy = FALSE, !.ones = 0]

Next == BeginTick \/ (\E tms, tdi \in Bit : PinLow(tms, tdi)) \/ PinHigh \/ ResetTap

Spec == Init /\ [][Next]_vars

-----------------------------------------------------------------------------
(* Properties.                                                             *)

DrLength == {1, 2, DbusLength}

Transport ==
    [ state : TapState, tck : Bit, tms : Bit, tdi : Bit,
      ir : Bits(IrLength), dr : UNION { Bits(n) : n \in DrLength }, bypass : Bit,
      dmi : Bits(DbusLength), rti_remaining : 0..RequiredRti, busy_stuck : BOOLEAN,
      call : {NoCall} \cup Bits(DbusLength) ]

\* The type invariant.  A register that is shifted, or about to be used, has
\* the length of the instruction it was captured for.
TypeOK ==
    /\ tap \in Transport
    /\ in_rti \in InRti
    /\ tap.state \in {"SHIFT_DR", "UPDATE_DR"} /\ tap.ir = IrCode.DBUS => Len(tap.dr) = DbusLength

\* Five rising edges with TMS high reset the TAP from every state: a client
\* that has lost track of it, after a hard reset of the transport or a restart
\* of its own, finds it again.
FiveOnesReset == ghost.ones = 5 => tap.state = "TEST_LOGIC_RESET"

\* The access that the debug module sees is the word the client shifted in,
\* through pauses in the middle of the scan and with the pins sampled late.
AccessIsAsShifted ==
    tap.call # NoCall /\ Len(ghost.shifted) = DbusLength => tap.call = ghost.shifted

\* No access is made before the last one has had its idle cycles, and none by
\* a client that was told busy and has not cleared it: it can repeat what it
\* was told was refused without its being executed twice.
AccessesAreSpaced ==
    [][tap'.call # NoCall => ghost.idled = RequiredRti]_vars

BusyIsObeyed ==
    [][tap'.call # NoCall => ~ghost.told_busy]_vars

\* At most one access reaches the debug module between two instructions of the
\* hart, however many commands of the client one tick executes.
OneAccessPerTick == ghost.accesses <= 1

-----------------------------------------------------------------------------
(* The transport as the port it implements.                                *)

\* The states from the end of a capture to the update.
Scanning == {"SHIFT_DR", "EXIT1_DR", "PAUSE_DR", "EXIT2_DR", "UPDATE_DR"}

\* dr has been captured for the instruction in ir, and it has not been used.
Captured ==
    \/ tap.state \in Scanning \ {"UPDATE_DR"}
    \/ tap.state = "CAPTURE_DR" /\ tap.tck = 0
    \/ tap.state = "UPDATE_DR" /\ tap.tck = 1

\* A scan of DBUS is open when it will be executed.
Open == Captured /\ tap.ir = IrCode.DBUS /\ ~tap.busy_stuck

Port == INSTANCE DmiPort WITH
    WordLength <- DbusLength,
    Word       <- Bits(DbusLength),
    CallWord   <- { w \in Bits(DbusLength) : Op(w) \in {READ, WRITE} },
    owed       <- tap.rti_remaining,
    refused    <- tap.busy_stuck,
    scan       <- IF Open THEN "open" ELSE "none",
    word       <- IF Open THEN ghost.shifted ELSE <<>>,
    call       <- tap.call,
    made       <- ghost.accesses

\* Through every walk of the TAP, every pause, reset and change of instruction,
\* the transport is such a port: what the client scans is refused or executed as
\* the idle cycles and the busy answer say, and never twice, late or in part.
ImplementsPort == Port!Spec
=============================================================================
