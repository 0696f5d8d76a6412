---------------------------- MODULE DmiRegisters ----------------------------
(***************************************************************************)
(* The words a debugger reads from and writes to the debug module          *)
(* (debug_module.cpp, dmi_read and dmi_write), with the fields that        *)
(* debug_defines.h lays them out in.                                       *)
(*                                                                         *)
(* A layout maps a field to its place <<offset, length>>.  A value is the  *)
(* set of its one bits: {} is false and {0} is true.                       *)
(***************************************************************************)
EXTENDS Words

Mask(place) == place[1] .. place[1] + place[2] - 1

get_field(reg, place)      == FIELD(reg, place[1], place[2])
set_field(reg, place, val) == (reg \ Mask(place)) \cup (Shl(val, place[1]) \cap Mask(place))

\* The word in which a sequence of set_field, starting from 0, has put the value
\* of every field at its place (for disjoint fields: LayoutProofs).
Pack(layout, values) ==
    UNION { { layout[f][1] + b : b \in values[f] \cap (0..layout[f][2] - 1) } : f \in DOMAIN layout }

Unpack(layout, reg) == [f \in DOMAIN layout |-> get_field(reg, layout[f])]

Place == { p \in (0..31) \X (1..32) : p[1] + p[2] <= 32 }

Disjoint(layout) ==
    /\ \A f \in DOMAIN layout : layout[f] \in Place
    /\ \A f, g \in DOMAIN layout : f # g => Mask(layout[f]) \cap Mask(layout[g]) = {}

Flag(b) == IF b THEN {0} ELSE {}

-----------------------------------------------------------------------------
(* debug_defines.h: the fields the module reads or writes.                 *)

DMSTATUS ==
    [ impebreak      |-> <<22, 1>>, allhavereset   |-> <<19, 1>>, anyhavereset   |-> <<18, 1>>,
      allresumeack   |-> <<17, 1>>, anyresumeack   |-> <<16, 1>>,
      allnonexistant |-> <<15, 1>>, anynonexistant |-> <<14, 1>>,
      allunavail     |-> <<13, 1>>, anyunavail     |-> <<12, 1>>,
      allrunning     |-> <<11, 1>>, anyrunning     |-> <<10, 1>>,
      allhalted      |-> <<9, 1>>,  anyhalted      |-> <<8, 1>>,
      authenticated  |-> <<7, 1>>,  authbusy       |-> <<6, 1>>,
      version        |-> <<0, 4>> ]

DMCONTROL ==
    [ haltreq   |-> <<31, 1>>,  resumereq    |-> <<30, 1>>, hartreset |-> <<29, 1>>,
      ackhavereset |-> <<28, 1>>, hasel      |-> <<26, 1>>,
      hartsello |-> <<16, 10>>, hartselhi    |-> <<6, 10>>,
      ndmreset  |-> <<1, 1>>,   dmactive     |-> <<0, 1>> ]

HARTINFO ==
    [ nscratch |-> <<20, 4>>, dataaccess |-> <<16, 1>>, datasize |-> <<12, 4>>, dataaddr |-> <<0, 12>> ]

\* Mutant: the error is laid out over the busy bit.
ABSTRACTCS_Overlap ==
    [ progbufsize |-> <<24, 5>>, busy |-> <<12, 1>>, cmderr |-> <<10, 3>>, datacount |-> <<0, 4>> ]

ABSTRACTCS ==
    [ progbufsize |-> <<24, 5>>, busy |-> <<12, 1>>, cmderr |-> <<8, 3>>, datacount |-> <<0, 4>> ]

ABSTRACTAUTO == [ autoexecprogbuf |-> <<16, 16>>, autoexecdata |-> <<0, 12>> ]

ACCESS_REGISTER ==
    [ cmdtype  |-> <<24, 8>>, aarsize  |-> <<20, 3>>, aarpostincrement |-> <<19, 1>>,
      postexec |-> <<18, 1>>, transfer |-> <<17, 1>>, write |-> <<16, 1>>, regno |-> <<0, 16>> ]

DMCS2 == [ group |-> <<2, 5>>, hgwrite |-> <<1, 1>> ]

SBCS ==
    [ sbversion  |-> <<29, 3>>, sbreadonaddr    |-> <<20, 1>>, sbaccess     |-> <<17, 3>>,
      sbautoincrement |-> <<16, 1>>, sbreadondata |-> <<15, 1>>, sberror    |-> <<12, 3>>,
      sbasize    |-> <<5, 7>>,  sbaccess128     |-> <<4, 1>>,  sbaccess64   |-> <<3, 1>>,
      sbaccess32 |-> <<2, 1>>,  sbaccess16      |-> <<1, 1>>,  sbaccess8    |-> <<0, 1>> ]

DCSR ==
    [ debugver  |-> <<28, 4>>, ebreakvs |-> <<17, 1>>, ebreakvu  |-> <<16, 1>>, ebreakm  |-> <<15, 1>>,
      ebreaks   |-> <<13, 1>>, ebreaku  |-> <<12, 1>>, stepie    |-> <<11, 1>>,
      stopcount |-> <<10, 1>>, stoptime |-> <<9, 1>>,  cause     |-> <<6, 3>>,
      v         |-> <<5, 1>>,  mprven   |-> <<4, 1>>,  nmip      |-> <<3, 1>>,
      step      |-> <<2, 1>>,  prv      |-> <<0, 2>> ]

DTMCS ==
    [ dmihardreset |-> <<17, 1>>, dmireset |-> <<16, 1>>, idle    |-> <<12, 3>>,
      dmistat      |-> <<10, 2>>, abits    |-> <<4, 6>>,  version |-> <<0, 4>> ]

DTM_DMI(abits) == [ address |-> <<34, abits>>, data |-> <<2, 32>>, op |-> <<0, 2>> ]

-----------------------------------------------------------------------------
(* The hart and the transport lay their registers out themselves: bits.h   *)
(* and jtag_dtm.cpp.                                                       *)

HART_DCSR ==
    [ debugver  |-> <<28, 4>>, ebreakvs |-> <<17, 1>>, ebreakvu  |-> <<16, 1>>, ebreakm  |-> <<15, 1>>,
      ebreaks   |-> <<13, 1>>, ebreaku  |-> <<12, 1>>, stepie    |-> <<11, 1>>,
      stopcount |-> <<10, 1>>, stoptime |-> <<9, 1>>,  cause     |-> <<6, 3>>,
      v         |-> <<5, 1>>,  mprven   |-> <<4, 1>>,  nmip      |-> <<3, 1>>,
      step      |-> <<2, 1>>,  prv      |-> <<0, 2>> ]

\* The fields the hart keeps, the others clear.
HartDcsr(cause, step, prv) ==
    Pack(HART_DCSR, [ f \in DOMAIN HART_DCSR |->
                        CASE f = "cause" -> cause [] f = "step" -> step [] f = "prv" -> prv
                          [] OTHER -> {} ])

\* dcsr after CPU::enter_debug_mode.
enter_dcsr(reg, cause, prv) ==
    (reg \ (Mask(HART_DCSR.cause) \cup Mask(HART_DCSR.prv)))
        \cup Shl(cause \cap (0..2), HART_DCSR.cause[1]) \cup Shl(prv \cap (0..1), HART_DCSR.prv[1])

abits == 6
DTMCONTROL_DMIRESET     == {16}
DTMCONTROL_DMIHARDRESET == {17}
DMI_OP      == 0..1
DMI_DATA    == 2..33
DMI_ADDRESS == 34..(abits + 33)

\* Set by the constructor of jtag_dtm_t, and never again.
dtmcontrol == Shl(Bits(abits), 4) \cup {0}

-----------------------------------------------------------------------------
(* The addresses of debug_defines.h, and the ones dmi_read and dmi_write   *)
(* answer to: the first datacount data words, the program buffer, and the  *)
(* registers of their switches.                                            *)

DM_DATA    == [ i \in 0..11 |-> 4 + i ]
DM_PROGBUF == [ i \in 0..15 |-> 32 + i ]

DM_SB == [ SBADDRESS0 |-> 57, SBADDRESS1 |-> 58, SBADDRESS2 |-> 59, SBADDRESS3 |-> 55,
           SBDATA0 |-> 60, SBDATA1 |-> 61, SBDATA2 |-> 62, SBDATA3 |-> 63 ]

DM_CONTROL ==
    [ DMCONTROL |-> 16, DMSTATUS |-> 17, HARTINFO |-> 18, HAWINDOWSEL |-> 20, HAWINDOW |-> 21,
      ABSTRACTCS |-> 22, COMMAND |-> 23, ABSTRACTAUTO |-> 24, AUTHDATA |-> 48, DMCS2 |-> 50,
      SBCS |-> 56 ]

datacount == 2

DataAddress          == { DM_DATA[i] : i \in 0 .. datacount - 1 }
ProgBufAddress(size) == { DM_PROGBUF[i] : i \in 0 .. size - 1 }
SwitchAddress        == { DM_SB[r] : r \in DOMAIN DM_SB } \cup { DM_CONTROL[r] : r \in DOMAIN DM_CONTROL }

Readable(size) == DataAddress \cup ProgBufAddress(size) \cup SwitchAddress
Writable(size) == Readable(size) \ {DM_CONTROL.DMSTATUS, DM_CONTROL.HARTINFO}

-----------------------------------------------------------------------------
(* dmi_read.  The module has one hart, which exists and is available, and  *)
(* the configuration of main(): no implicit ebreak, no authentication.     *)

StatusValues(halted, resumeack, havereset) ==
    [ impebreak |-> {}, authenticated |-> {0}, authbusy |-> {}, version |-> {1},
      allnonexistant |-> {}, anynonexistant |-> {}, allunavail |-> {}, anyunavail |-> {},
      allhavereset |-> havereset, anyhavereset |-> havereset,
      allresumeack |-> resumeack, anyresumeack |-> resumeack,
      allhalted    |-> halted,    anyhalted    |-> halted,
      allrunning   |-> {0} \ halted, anyrunning |-> {0} \ halted ]

AbstractcsValues(busy, cmderr, progbufsize) ==
    [ busy |-> busy, cmderr |-> cmderr, progbufsize |-> progbufsize, datacount |-> {1} ]

read_dmstatus(halted, resumeack, havereset) ==
    Pack(DMSTATUS, StatusValues(halted, resumeack, havereset))
read_abstractcs(busy, cmderr, progbufsize) ==
    Pack(ABSTRACTCS, AbstractcsValues(busy, cmderr, progbufsize))
read_abstractauto(progbuf, auto) ==
    Pack(ABSTRACTAUTO, [autoexecprogbuf |-> progbuf, autoexecdata |-> auto])

\* data registers begin at 0x380 of the hart's memory.
read_hartinfo == Pack(HARTINFO, [nscratch |-> {0}, dataaccess |-> {0}, datasize |-> {1}, dataaddr |-> 7..9])

\* hartsel is one number on the way in and two fields on the way out.
read_dmcontrol(c) ==
    Pack(DMCONTROL, [ haltreq |-> c.haltreq, resumereq |-> c.resumereq, hartreset |-> c.hartreset,
                      ackhavereset |-> {}, hasel |-> c.hasel,
                      hartsello |-> c.hartsel \cap (0..9), hartselhi |-> FIELD(c.hartsel, 10, 10),
                      ndmreset |-> c.ndmreset, dmactive |-> c.dmactive ])

\* One hart: it is bit 0 of window 0.
read_hawindow(hawindowsel) == IF hawindowsel = {} THEN {0} ELSE {}

\* The module is configured without halt groups: the group is 0 after a reset.
read_dmcs2(haltgroup) == Pack(DMCS2, [group |-> haltgroup, hgwrite |-> {}])

\* s is sbcs_t after a reset with a bus of 32 bits and the debugger's writes.
SbcsValues(s) ==
    [ sbversion |-> {0}, sbreadonaddr |-> s.readonaddr, sbaccess |-> s.sbaccess,
      sbautoincrement |-> s.autoincrement, sbreadondata |-> s.readondata, sberror |-> s.error,
      sbasize |-> {5}, sbaccess128 |-> {}, sbaccess64 |-> {}, sbaccess32 |-> {0},
      sbaccess16 |-> {0}, sbaccess8 |-> {0} ]

read_sbcs(s) == Pack(SBCS, SbcsValues(s))

-----------------------------------------------------------------------------
(* dmi_write.                                                              *)

\* The members of dmcontrol_t after the word w; a single hart can be selected.
write_dmcontrol(w) ==
    [ haltreq   |-> get_field(w, DMCONTROL.haltreq),   resumereq |-> get_field(w, DMCONTROL.resumereq),
      hartreset |-> get_field(w, DMCONTROL.hartreset), ndmreset  |-> get_field(w, DMCONTROL.ndmreset),
      dmactive  |-> get_field(w, DMCONTROL.dmactive),  hasel     |-> {},
      hartsel   |-> (get_field(w, DMCONTROL.hartsello) \cup Shl(get_field(w, DMCONTROL.hartselhi), 10))
                        \cap {0} ]

\* What a word for sbcs sets, and the error bits it leaves.
write_sbcs(s, w) ==
    [ readonaddr |-> get_field(w, SBCS.sbreadonaddr), sbaccess |-> get_field(w, SBCS.sbaccess),
      autoincrement |-> get_field(w, SBCS.sbautoincrement), readondata |-> get_field(w, SBCS.sbreadondata),
      error |-> s.error \ get_field(w, SBCS.sberror) ]

\* What perform_abstract_command takes from the command register.
decode_command(w) == Unpack(ACCESS_REGISTER, w)

-----------------------------------------------------------------------------
(* Properties.                                                             *)

Members == [ haltreq : {{}, {0}}, resumereq : {{}, {0}}, hartreset : {{}, {0}}, ndmreset : {{}, {0}},
             dmactive : {{}, {0}}, hasel : {{}}, hartsel : {{}, {0}} ]

\* dmcontrol reads back as it was written: a debugger that changes one field of the
\* word it has read changes nothing else.
ControlReadsBack == \A c \in Members : write_dmcontrol(read_dmcontrol(c)) = c

SbMembers == [ readonaddr : {{}, {0}}, autoincrement : {{}, {0}}, readondata : {{}, {0}},
               sbaccess : SUBSET (0..2), error : SUBSET (0..2) ]

\* Writing sbcs back as it was read keeps the modes and clears the error.
SbcsReadsBack == \A s \in SbMembers : write_sbcs(s, read_sbcs(s)) = [s EXCEPT !.error = {}]

\* Entering debug mode changes, of the dcsr a debugger knows, cause and prv.
DcsrEntered(reg, cause, prv) ==
    Unpack(DCSR, enter_dcsr(reg, cause, prv)) = [Unpack(DCSR, reg) EXCEPT !.cause = cause, !.prv = prv]

\* The hart and the debugger mean the same bits by a field of dcsr.
DcsrAgrees == HART_DCSR = DCSR

\* The transport's masks are the fields of the standard registers, and its addresses
\* reach every register of the module.
TransportAgrees ==
    /\ DTMCONTROL_DMIRESET = Mask(DTMCS.dmireset)
    /\ DTMCONTROL_DMIHARDRESET = Mask(DTMCS.dmihardreset)
    /\ DMI_OP = Mask(DTM_DMI(abits).op)
    /\ DMI_DATA = Mask(DTM_DMI(abits).data)
    /\ DMI_ADDRESS = Mask(DTM_DMI(abits).address)
    /\ Readable(15) \subseteq 0 .. Pow2(abits) - 1
    /\ Unpack(DTMCS, dtmcontrol) = [ dmihardreset |-> {}, dmireset |-> {}, idle |-> {}, dmistat |-> {},
                                      abits |-> Bits(abits), version |-> {0} ]

\* A word with the given values tells a debugger who knows the layout these values.
Tells(layout, reg, values) == Unpack(layout, reg) = values
=============================================================================
