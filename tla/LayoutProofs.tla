---------------------------- MODULE LayoutProofs ----------------------------
(***************************************************************************)
(* Proofs about the two tables of fixed layouts.  In DmiRegisters the      *)
(* fields of debug_defines.h are disjoint, so set_field disturbs no other  *)
(* field and every register tells its values.  In MemoryMap an address has *)
(* one owner, whatever the order in which main() adds the devices.         *)
(***************************************************************************)
EXTENDS DmiRegisters, MemoryMap, TLAPS

-----------------------------------------------------------------------------
(* The registers of the debug module.                                      *)

Layouts == { DMSTATUS, DMCONTROL, HARTINFO, ABSTRACTCS, ABSTRACTAUTO, ACCESS_REGISTER, DMCS2,
             SBCS, DCSR, DTMCS }

\* values[f] is a value that fits the field f.
Fits(layout, values) ==
    \A f \in DOMAIN layout : values[f] \subseteq 0 .. layout[f][2] - 1

-----------------------------------------------------------------------------
(* One field.                                                              *)

\* A bit of a field has an offset within it.
LEMMA OffsetInRange ==
    ASSUME NEW o \in Int, NEW n \in Int, NEW x \in o .. o + n - 1
    PROVE  x - o \in 0 .. n - 1 /\ (x - o) + o = x
OBVIOUS

\* A bit of the mask of a place of the register lies at an offset within the
\* field, as the macros of debug_module.cpp:13-14 count it.
LEMMA MaskOffset ==
    ASSUME NEW p \in Place, NEW x \in Mask(p)
    PROVE  x - p[1] \in 0 .. p[2] - 1 /\ (x - p[1]) + p[1] = x
<1>1. p[1] \in Int /\ p[2] \in Int
  BY DEF Place
<1>2. x \in p[1] .. p[1] + p[2] - 1
  BY DEF Mask
<1> QED  BY <1>1, <1>2, OffsetInRange

\* A field that has been set reads back.
LEMMA GetAfterSet ==
    ASSUME NEW reg \in Word, NEW p \in Place, NEW val \in SUBSET (0 .. p[2] - 1)
    PROVE  get_field(set_field(reg, p, val), p) = val
<1>1. p[1] \in 0..31 /\ p[2] \in 1..32 /\ p[1] + p[2] <= 32
  BY DEF Place
<1>2. ASSUME NEW i \in 0 .. p[2] - 1
      PROVE  i + p[1] \in set_field(reg, p, val) <=> i \in val
  <2>1. i + p[1] \in Mask(p)
    BY <1>1 DEF Mask
  <2>2. i + p[1] \in p[1]..31 /\ (i + p[1]) - p[1] = i
    BY <1>1
  <2>3. i + p[1] \in Shl(val, p[1]) <=> i \in val
    BY <2>2 DEF Shl
  <2> QED  BY <2>1, <2>3 DEF set_field
<1>3. get_field(set_field(reg, p, val), p) = { i \in 0 .. p[2] - 1 : i \in val }
  BY <1>2 DEF get_field, FIELD
<1> QED  BY <1>3

\* Setting a field leaves every field disjoint from it as it was.
LEMMA SetKeepsOthers ==
    ASSUME NEW reg \in Word, NEW p \in Place, NEW q \in Place, NEW val,
           Mask(p) \cap Mask(q) = {}
    PROVE  get_field(set_field(reg, p, val), q) = get_field(reg, q)
<1>1. \A i \in 0 .. q[2] - 1 : i + q[1] \in Mask(q)
  BY DEF Mask, Place
<1>2. \A i \in 0 .. q[2] - 1 : i + q[1] \in set_field(reg, p, val) <=> i + q[1] \in reg
  BY <1>1 DEF set_field
<1> QED  BY <1>2 DEF get_field, FIELD

-----------------------------------------------------------------------------
(* Whole registers.                                                        *)

\* A bit of a packed word in the place of a field is the field's.
LEMMA PackedBit ==
    ASSUME NEW layout, Disjoint(layout), NEW values, Fits(layout, values),
           NEW f \in DOMAIN layout, NEW i \in 0 .. layout[f][2] - 1
    PROVE  i + layout[f][1] \in Pack(layout, values) <=> i \in values[f]
<1>1. \A g \in DOMAIN layout : layout[g][1] \in 0..31 /\ layout[g][2] \in 1..32
  BY DEF Disjoint, Place
<1>2. ASSUME i \in values[f] PROVE i + layout[f][1] \in Pack(layout, values)
  BY <1>1, <1>2 DEF Pack
<1>3. ASSUME i + layout[f][1] \in Pack(layout, values) PROVE i \in values[f]
  <2>1. PICK g \in DOMAIN layout :
          \E b \in values[g] \cap (0 .. layout[g][2] - 1) : i + layout[f][1] = layout[g][1] + b
    BY <1>3 DEF Pack
  <2> DEFINE p == layout[f]
             q == layout[g]
  <2>2. p[1] \in 0..31 /\ p[2] \in 1..32 /\ q[1] \in 0..31 /\ q[2] \in 1..32
    BY <1>1
  <2>3. PICK b \in 0 .. q[2] - 1 : b \in values[g] /\ i + p[1] = q[1] + b
    BY <2>1
  <2> HIDE DEF p, q
  <2>4. i \in 0 .. p[2] - 1
    BY DEF p
  <2>5. i + p[1] \in Mask(p)
    BY <2>2, <2>4 DEF Mask
  <2>6. i + p[1] \in Mask(q)
    BY <2>2, <2>3 DEF Mask
  <2>7. f = g
    BY <2>5, <2>6 DEF Disjoint, p, q
  <2>8. i = b
    BY <2>2, <2>3, <2>4, <2>7 DEF p, q
  <2> QED  BY <2>3, <2>7, <2>8
<1> QED  BY <1>2, <1>3

\* A register of disjoint fields tells the value of each.
LEMMA PackedTells ==
    ASSUME NEW layout, Disjoint(layout), NEW values, Fits(layout, values),
           values = [f \in DOMAIN layout |-> values[f]]
    PROVE  Tells(layout, Pack(layout, values), values)
<1>1. ASSUME NEW f \in DOMAIN layout
      PROVE get_field(Pack(layout, values), layout[f]) = values[f]
  <2>1. \A i \in 0 .. layout[f][2] - 1 : i + layout[f][1] \in Pack(layout, values) <=> i \in values[f]
    BY PackedBit
  <2> QED  BY <2>1 DEF get_field, FIELD, Fits
<1> QED  BY <1>1 DEF Tells, Unpack

\* Setting one more field of a packed word is packing it: a sequence of set_field
\* from 0 on, in any order, is Pack.
LEMMA SetFieldPacks ==
    ASSUME NEW layout, Disjoint(layout), NEW values, Fits(layout, values),
           values = [f \in DOMAIN layout |-> values[f]],
           NEW f \in DOMAIN layout, values[f] = {}, NEW val \in SUBSET (0 .. layout[f][2] - 1)
    PROVE  set_field(Pack(layout, values), layout[f], val) = Pack(layout, [values EXCEPT ![f] = val])
<1> DEFINE p == layout[f]
           more == [values EXCEPT ![f] = val]
           Bits2(g, vs) == { layout[g][1] + b : b \in vs[g] \cap (0..layout[g][2] - 1) }
<1>1. p[1] \in 0..31 /\ p[2] \in 1..32 /\ p[1] + p[2] <= 32
  BY DEF Disjoint, Place
<1>2. Shl(val, p[1]) \cap Mask(p) = { p[1] + b : b \in val }
  <2> HIDE DEF p
  <2>1. val \subseteq 0 .. p[2] - 1
    BY DEF p
  <2>2. ASSUME NEW x \in Shl(val, p[1]) \cap Mask(p) PROVE \E b \in val : x = p[1] + b
    BY <1>1, <2>1 DEF Shl, Mask
  <2>3. ASSUME NEW b \in val PROVE p[1] + b \in Shl(val, p[1]) /\ p[1] + b \in Mask(p)
    <3>1. b \in 0 .. p[2] - 1
      BY <2>1
    <3>2. p[1] + b \in p[1] .. 31 /\ (p[1] + b) - p[1] = b
      BY <1>1, <3>1
    <3>3. p[1] + b \in Mask(p)
      BY <1>1, <3>1 DEF Mask
    <3> QED  BY <3>2, <3>3 DEF Shl
  <2> QED  BY <2>2, <2>3
<1>3. Pack(layout, values) \cap Mask(p) = {}
  <2>1. SUFFICES ASSUME NEW x \in Mask(p) PROVE x \notin Pack(layout, values)
    OBVIOUS
  <2>2. x - p[1] \in 0 .. p[2] - 1 /\ (x - p[1]) + p[1] = x
    <3>1. p \in Place
      BY DEF Disjoint
    <3> HIDE DEF p
    <3> QED  BY <3>1, MaskOffset
  <2>3. x - p[1] \notin values[f]
    OBVIOUS
  <2> QED  BY <2>2, <2>3, PackedBit
<1>4. \A g \in DOMAIN layout : g # f => Bits2(g, more) = Bits2(g, values)
  OBVIOUS
<1>5. Bits2(f, more) = { p[1] + b : b \in val } /\ Bits2(f, values) = {}
  <2>1. more[f] = val /\ val \cap (0 .. p[2] - 1) = val
    OBVIOUS
  <2> QED  BY <2>1
<1>6. Pack(layout, more) = Pack(layout, values) \cup { p[1] + b : b \in val }
  <2>1. Pack(layout, more) = UNION { Bits2(g, more) : g \in DOMAIN layout }
    BY DEF Pack
  <2>2. Pack(layout, values) = UNION { Bits2(g, values) : g \in DOMAIN layout }
    BY DEF Pack
  <2> HIDE DEF Bits2
  <2> QED  BY <1>4, <1>5, <2>1, <2>2
<1>7. set_field(Pack(layout, values), p, val) = Pack(layout, values) \cup { p[1] + b : b \in val }
  BY <1>2, <1>3 DEF set_field
<1> QED  BY <1>6, <1>7

-----------------------------------------------------------------------------
(* The layouts of debug_defines.h.                                         *)

\* No two fields of a register of debug_defines.h share a bit, and all lie in the word.
THEOREM LayoutsDisjoint == \A layout \in Layouts : Disjoint(layout)
<1>1. Disjoint(DMSTATUS)
  BY DEF Disjoint, Place, Mask, DMSTATUS
<1>2. Disjoint(DMCONTROL)
  BY DEF Disjoint, Place, Mask, DMCONTROL
<1>3. Disjoint(HARTINFO) /\ Disjoint(ABSTRACTCS) /\ Disjoint(ABSTRACTAUTO) /\ Disjoint(DMCS2)
  BY DEF Disjoint, Place, Mask, HARTINFO, ABSTRACTCS, ABSTRACTAUTO, DMCS2
<1>4. Disjoint(ACCESS_REGISTER)
  BY DEF Disjoint, Place, Mask, ACCESS_REGISTER
<1>5. Disjoint(SBCS)
  BY DEF Disjoint, Place, Mask, SBCS
<1>6. Disjoint(DCSR)
  BY DEF Disjoint, Place, Mask, DCSR
<1>7. Disjoint(DTMCS)
  BY DEF Disjoint, Place, Mask, DTMCS
<1> QED  BY <1>1, <1>2, <1>3, <1>4, <1>5, <1>6, <1>7 DEF Layouts

\* The word of dmstatus tells the three things the module knows of its hart.
THEOREM StatusTells ==
    \A halted, resumeack, havereset \in {{}, {0}} :
        Tells(DMSTATUS, read_dmstatus(halted, resumeack, havereset),
              StatusValues(halted, resumeack, havereset))
<1> SUFFICES ASSUME NEW halted \in {{}, {0}}, NEW resumeack \in {{}, {0}}, NEW havereset \in {{}, {0}}
             PROVE  Tells(DMSTATUS, read_dmstatus(halted, resumeack, havereset),
                          StatusValues(halted, resumeack, havereset))
  OBVIOUS
<1> DEFINE values == StatusValues(halted, resumeack, havereset)
<1>1. Disjoint(DMSTATUS)
  BY LayoutsDisjoint DEF Layouts
<1>2. Fits(DMSTATUS, values)
  BY DEF Fits, DMSTATUS, StatusValues
<1>3. values = [f \in DOMAIN DMSTATUS |-> values[f]]
  BY DEF DMSTATUS, StatusValues
<1> HIDE DEF values
<1>4. Tells(DMSTATUS, Pack(DMSTATUS, values), values)
  BY <1>1, <1>2, <1>3, PackedTells
<1> QED  BY <1>4 DEF values, read_dmstatus

\* The word of abstractcs tells busy, the error and the sizes, whatever they are.
THEOREM AbstractcsTells ==
    \A busy \in {{}, {0}}, cmderr \in SUBSET (0..2), progbufsize \in SUBSET (0..4) :
        Tells(ABSTRACTCS, read_abstractcs(busy, cmderr, progbufsize),
              AbstractcsValues(busy, cmderr, progbufsize))
<1> SUFFICES ASSUME NEW busy \in {{}, {0}}, NEW cmderr \in SUBSET (0..2),
                    NEW progbufsize \in SUBSET (0..4)
             PROVE  Tells(ABSTRACTCS, read_abstractcs(busy, cmderr, progbufsize),
                          AbstractcsValues(busy, cmderr, progbufsize))
  OBVIOUS
<1> DEFINE values == AbstractcsValues(busy, cmderr, progbufsize)
<1>1. Disjoint(ABSTRACTCS)
  BY LayoutsDisjoint DEF Layouts
<1>2. Fits(ABSTRACTCS, values)
  <2>1. values.busy \subseteq 0..0 /\ values.cmderr \subseteq 0..2
    BY DEF AbstractcsValues
  <2>2. values.progbufsize \subseteq 0..4 /\ values.datacount \subseteq 0..3
    BY DEF AbstractcsValues
  <2> HIDE DEF values
  <2> QED  BY <2>1, <2>2 DEF Fits, ABSTRACTCS
<1>3. values = [f \in DOMAIN ABSTRACTCS |-> values[f]]
  BY DEF ABSTRACTCS, AbstractcsValues
<1> HIDE DEF values
<1>4. Tells(ABSTRACTCS, Pack(ABSTRACTCS, values), values)
  BY <1>1, <1>2, <1>3, PackedTells
<1> QED  BY <1>4 DEF values, read_abstractcs

\* The word of sbcs tells the debugger the modes it has set and the error, whatever
\* they are.
THEOREM SbcsTells ==
    ASSUME NEW s \in SbMembers
    PROVE  Tells(SBCS, read_sbcs(s), SbcsValues(s))
<1> DEFINE values == SbcsValues(s)
<1>1. Disjoint(SBCS)
  BY LayoutsDisjoint DEF Layouts
<1>2. Fits(SBCS, values)
  <2>1. /\ s.readonaddr \subseteq 0..0 /\ s.autoincrement \subseteq 0..0 /\ s.readondata \subseteq 0..0
        /\ s.sbaccess \subseteq 0..2 /\ s.error \subseteq 0..2
    BY DEF SbMembers
  <2>2. /\ values.sbreadonaddr \subseteq 0..0 /\ values.sbautoincrement \subseteq 0..0
        /\ values.sbreadondata \subseteq 0..0 /\ values.sbaccess \subseteq 0..2
        /\ values.sberror \subseteq 0..2
    BY <2>1 DEF SbcsValues
  <2>3. /\ values.sbversion \subseteq 0..2 /\ values.sbasize \subseteq 0..6
        /\ values.sbaccess128 \subseteq 0..0 /\ values.sbaccess64 \subseteq 0..0
        /\ values.sbaccess32 \subseteq 0..0 /\ values.sbaccess16 \subseteq 0..0
        /\ values.sbaccess8 \subseteq 0..0
    BY DEF SbcsValues
  <2> HIDE DEF values
  <2> QED  BY <2>2, <2>3 DEF Fits, SBCS
<1>3. values = [f \in DOMAIN SBCS |-> values[f]]
  BY DEF SBCS, SbcsValues
<1> HIDE DEF values
<1>4. Tells(SBCS, Pack(SBCS, values), values)
  BY <1>1, <1>2, <1>3, PackedTells
<1> QED  BY <1>4 DEF values, read_sbcs

\* Whatever dcsr holds, entering debug mode changes cause and prv and no other field
\* of it: CPU::enter_debug_mode uses the masks of bits.h, the debugger those of
\* debug_defines.h.
THEOREM DcsrKept ==
    ASSUME NEW reg \in Word, NEW cause \in SUBSET (0..2), NEW prv \in SUBSET (0..1)
    PROVE  DcsrEntered(reg, cause, prv)
<1> DEFINE first == set_field(reg, DCSR.cause, cause)
           last  == set_field(first, DCSR.prv, prv)
<1>1. Disjoint(DCSR)
  BY LayoutsDisjoint DEF Layouts
<1>2. DCSR.cause = <<6, 3>> /\ DCSR.prv = <<0, 2>> /\ HART_DCSR.cause = <<6, 3>> /\ HART_DCSR.prv = <<0, 2>>
  BY DEF DCSR, HART_DCSR
<1>3. Mask(<<6, 3>>) = 6..8 /\ Mask(<<0, 2>>) = 0..1
  BY DEF Mask
<1>4. Shl(cause, 6) \subseteq 6..8 /\ Shl(prv, 0) \subseteq 0..1
  BY DEF Shl
<1>5. cause \cap (0..2) = cause /\ prv \cap (0..1) = prv
  OBVIOUS
<1>6. enter_dcsr(reg, cause, prv) = last
  <2>1. enter_dcsr(reg, cause, prv) = (reg \ (6..8 \cup 0..1)) \cup Shl(cause, 6) \cup Shl(prv, 0)
    <3>1. HART_DCSR.cause[1] = 6 /\ HART_DCSR.prv[1] = 0
      BY DEF HART_DCSR
    <3>2. enter_dcsr(reg, cause, prv) =
            (reg \ (Mask(HART_DCSR.cause) \cup Mask(HART_DCSR.prv)))
                \cup Shl(cause, HART_DCSR.cause[1]) \cup Shl(prv, HART_DCSR.prv[1])
      BY <1>5, Zenon DEF enter_dcsr
    <3> QED  BY <1>2, <1>3, <3>1, <3>2
  <2>2. last = (((reg \ 6..8) \cup (Shl(cause, 6) \cap 6..8)) \ 0..1) \cup (Shl(prv, 0) \cap 0..1)
    BY <1>2, <1>3 DEF set_field
  <2>3. (6..8) \cap (0..1) = {}
    OBVIOUS
  <2> QED  BY <2>1, <2>2, <2>3, <1>4
<1>7. first \in Word /\ last \in Word
  <2>1. ASSUME NEW w \in Word, NEW val, NEW n \in 0..31, NEW place
        PROVE  (w \ Mask(place)) \cup (Shl(val, n) \cap Mask(place)) \in Word
    <3>1. n..31 \subseteq 0..31
      OBVIOUS
    <3>2. Shl(val, n) \subseteq n..31
      BY DEF Shl
    <3>3. w \subseteq 0..31
      BY DEF Word
    <3> QED  BY <3>1, <3>2, <3>3, Zenon DEF Word
  <2>2. DCSR.cause[1] \in 0..31 /\ DCSR.prv[1] \in 0..31
    BY <1>2
  <2>3. first \in Word
    BY <2>1, <2>2 DEF set_field
  <2> HIDE DEF first
  <2>4. last \in Word
    BY <2>1, <2>2, <2>3 DEF set_field
  <2> QED  BY <2>3, <2>4
<1>8. \A f \in DOMAIN DCSR : DCSR[f] \in Place
  BY <1>1 DEF Disjoint
<1>9. "cause" \in DOMAIN DCSR /\ "prv" \in DOMAIN DCSR /\ "cause" # "prv"
  BY DEF DCSR
<1> DEFINE after == [Unpack(DCSR, reg) EXCEPT !.cause = cause, !.prv = prv]
<1>10. ASSUME NEW f \in DOMAIN DCSR
       PROVE  get_field(last, DCSR[f]) = after[f]
  <2>1. after[f] = IF f = "prv" THEN prv ELSE IF f = "cause" THEN cause ELSE get_field(reg, DCSR[f])
    BY DEF Unpack
  <2> HIDE DEF after
  <2>2. get_field(first, DCSR.cause) = cause
    BY <1>2, <1>8, <1>9, GetAfterSet
  <2>3. get_field(last, DCSR.prv) = prv
    <3> HIDE DEF first
    <3> QED  BY <1>2, <1>7, <1>8, <1>9, GetAfterSet
  <2>4. ASSUME f # "prv" PROVE get_field(last, DCSR[f]) = get_field(first, DCSR[f])
    <3> HIDE DEF first
    <3>1. Mask(DCSR.prv) \cap Mask(DCSR[f]) = {}
      BY <1>1, <1>9, <2>4 DEF Disjoint
    <3> QED  BY <3>1, <1>7, <1>8, <1>9, SetKeepsOthers
  <2>5. ASSUME f # "cause" PROVE get_field(first, DCSR[f]) = get_field(reg, DCSR[f])
    <3>1. Mask(DCSR.cause) \cap Mask(DCSR[f]) = {}
      BY <1>1, <1>9, <2>5 DEF Disjoint
    <3> QED  BY <3>1, <1>8, <1>9, SetKeepsOthers
  <2> HIDE DEF first, last
  <2> QED  BY <2>1, <2>2, <2>3, <2>4, <2>5, <1>9
<1>11. Unpack(DCSR, last) = [f \in DOMAIN DCSR |-> get_field(last, DCSR[f])]
  BY DEF Unpack
<1>12. after = [f \in DOMAIN DCSR |-> after[f]]
  BY DEF Unpack
<1> HIDE DEF after, last
<1>13. Unpack(DCSR, last) = after
  BY <1>10, <1>11, <1>12
<1> QED  BY <1>6, <1>13 DEF DcsrEntered, after

\* Whatever a debugger packs into the command register is what
\* perform_abstract_command decodes.
THEOREM CommandDecoded ==
    ASSUME NEW values, Fits(ACCESS_REGISTER, values),
           values = [f \in DOMAIN ACCESS_REGISTER |-> values[f]]
    PROVE  decode_command(Pack(ACCESS_REGISTER, values)) = values
<1>1. Disjoint(ACCESS_REGISTER)
  BY LayoutsDisjoint DEF Layouts
<1>2. Tells(ACCESS_REGISTER, Pack(ACCESS_REGISTER, values), values)
  BY <1>1, PackedTells
<1> QED  BY <1>2 DEF Tells, decode_command

\* The masks of bits.h, by which the hart keeps dcsr, are those of debug_defines.h.
THEOREM OneDcsr == DcsrAgrees
BY DEF DcsrAgrees, DCSR, HART_DCSR

\* The word of abstractauto tells which accesses repeat the command.
THEOREM AutoTells ==
    ASSUME NEW progbuf \in SUBSET (0..15), NEW auto \in {{}, {0}}
    PROVE  Tells(ABSTRACTAUTO, read_abstractauto(progbuf, auto),
                 [autoexecprogbuf |-> progbuf, autoexecdata |-> auto])
<1> DEFINE values == [autoexecprogbuf |-> progbuf, autoexecdata |-> auto]
<1>1. Disjoint(ABSTRACTAUTO)
  BY LayoutsDisjoint DEF Layouts
<1>2. Fits(ABSTRACTAUTO, values)
  <2>1. values.autoexecprogbuf \subseteq 0..15 /\ values.autoexecdata \subseteq 0..11
    OBVIOUS
  <2> HIDE DEF values
  <2> QED  BY <2>1 DEF Fits, ABSTRACTAUTO
<1>3. values = [f \in DOMAIN ABSTRACTAUTO |-> values[f]]
  BY DEF ABSTRACTAUTO
<1> HIDE DEF values
<1>4. Tells(ABSTRACTAUTO, Pack(ABSTRACTAUTO, values), values)
  BY <1>1, <1>2, <1>3, PackedTells
<1> QED  BY <1>4 DEF values, read_abstractauto

\* A number of k bits has no bit beyond them.
LEMMA BitsFit ==
    /\ \A n : Bits(n) \subseteq 0..4
    /\ \A n \in 0..7 : Bits(n) \subseteq 0..2
    /\ \A n \in 0..3 : Bits(n) \subseteq 0..1
<1>1. \A n : Bits(n) \subseteq 0..4
  BY DEF Bits
<1>2. \A n : \A i \in 0..4 : i \in Bits(n) <=> (n \div Pow2(i)) % 2 = 1
  BY DEF Bits
<1>3. Pow2(2) = 4 /\ Pow2(3) = 8 /\ Pow2(4) = 16
  BY DEF Pow2
<1>4. \A n \in 0..7 : 3 \notin Bits(n) /\ 4 \notin Bits(n)
  <2> SUFFICES ASSUME NEW n \in 0..7 PROVE 3 \notin Bits(n) /\ 4 \notin Bits(n)
    OBVIOUS
  <2>1. n \div 8 = 0 /\ n \div 16 = 0
    OBVIOUS
  <2> QED  BY <1>2, <1>3, <2>1
<1>5. \A n \in 0..3 : 2 \notin Bits(n)
  <2> SUFFICES ASSUME NEW n \in 0..3 PROVE 2 \notin Bits(n)
    OBVIOUS
  <2>1. n \div 4 = 0
    OBVIOUS
  <2> QED  BY <1>2, <1>3, <2>1
<1> QED  BY <1>1, <1>4, <1>5

\* What the hart keeps of dcsr, a debugger finds in its fields.
THEOREM DcsrTells ==
    ASSUME NEW step \in {{}, {0}}, NEW cause \in SUBSET (0..2), NEW prv \in SUBSET (0..1),
           NEW word, word = enter_dcsr(HartDcsr({}, step, {}), cause, prv)
    PROVE  /\ get_field(word, DCSR.cause) = cause
           /\ get_field(word, DCSR.step) = step
           /\ get_field(word, DCSR.prv) = prv
<1> DEFINE kept == [ f \in DOMAIN DCSR |-> CASE f = "cause" -> {} [] f = "step" -> step
                                             [] f = "prv" -> {} [] OTHER -> {} ]
           before == Pack(DCSR, kept)
<1>1. Disjoint(DCSR)
  BY LayoutsDisjoint DEF Layouts
<1>2. /\ DOMAIN DCSR = { "debugver", "ebreakvs", "ebreakvu", "ebreakm", "ebreaks", "ebreaku", "stepie",
                         "stopcount", "stoptime", "cause", "v", "mprven", "nmip", "step", "prv" }
      /\ DCSR.step = <<2, 1>>
  BY DEF DCSR
<1>3. Fits(DCSR, kept)
  <2>1. ASSUME NEW f \in DOMAIN DCSR PROVE kept[f] \subseteq 0 .. DCSR[f][2] - 1
    <3>1. CASE f = "step"
      <4>1. kept[f] = step /\ DCSR[f][2] = 1
        BY <1>2, <3>1
      <4> QED  BY <4>1
    <3>2. CASE f # "step"
      <4>1. kept[f] = {}
        BY <3>2
      <4> QED  BY <4>1
    <3> QED  BY <3>1, <3>2
  <2> QED  BY <2>1 DEF Fits
<1>4. kept = [f \in DOMAIN DCSR |-> kept[f]]
  OBVIOUS
<1>5. kept["step"] = step
  BY <1>2
<1>6. HartDcsr({}, step, {}) = before
  BY OneDcsr, Zenon DEF HartDcsr, DcsrAgrees
<1> HIDE DEF kept
<1>7. get_field(before, DCSR["step"]) = step
  <2>1. Unpack(DCSR, before) = kept
    BY <1>1, <1>3, <1>4, PackedTells DEF Tells
  <2>2. Unpack(DCSR, before)["step"] = get_field(before, DCSR["step"])
    BY <1>2 DEF Unpack
  <2> QED  BY <1>5, <2>1, <2>2
<1>8. before \in Word
  <2>1. \A f \in DOMAIN DCSR : \A b \in 0 .. DCSR[f][2] - 1 : DCSR[f][1] + b \in 0..31
    <3>1. \A f \in DOMAIN DCSR : DCSR[f][1] \in 0..31 /\ DCSR[f][2] \in 1..32 /\ DCSR[f][1] + DCSR[f][2] <= 32
      BY <1>1 DEF Disjoint, Place
    <3> QED  BY <3>1
  <2>2. ASSUME NEW x \in Pack(DCSR, kept) PROVE x \in 0..31
    <3>1. PICK f \in DOMAIN DCSR : x \in { DCSR[f][1] + b : b \in kept[f] \cap (0 .. DCSR[f][2] - 1) }
      BY <2>2 DEF Pack
    <3> QED  BY <2>1, <3>1
  <2> QED  BY <2>2 DEF Word
<1>9. word = enter_dcsr(before, cause, prv)
  BY <1>6
<1> HIDE DEF before
<1>10. Unpack(DCSR, word) = [Unpack(DCSR, before) EXCEPT !.cause = cause, !.prv = prv]
  <2>1. DcsrEntered(before, cause, prv)
    BY <1>8, DcsrKept
  <2> QED  BY <1>9, <2>1, Zenon DEF DcsrEntered
<1>11. \A f \in {"cause", "step", "prv"} : Unpack(DCSR, word)[f] = get_field(word, DCSR[f])
  BY <1>2 DEF Unpack
<1>12. /\ Unpack(DCSR, word)["cause"] = cause /\ Unpack(DCSR, word)["prv"] = prv
       /\ Unpack(DCSR, word)["step"] = Unpack(DCSR, before)["step"]
  <2>1. DOMAIN Unpack(DCSR, before) = DOMAIN DCSR
    BY DEF Unpack
  <2> QED  BY <1>2, <1>10, <2>1
<1>13. Unpack(DCSR, before)["step"] = get_field(before, DCSR["step"])
  BY <1>2 DEF Unpack
<1> QED  BY <1>7, <1>11, <1>12, <1>13

\* A debugger that writes sbcs back as it has read it keeps its modes and clears the
\* error.
THEOREM SbcsKept == SbcsReadsBack
<1> SUFFICES ASSUME NEW s \in SbMembers
             PROVE  write_sbcs(s, read_sbcs(s)) = [s EXCEPT !.error = {}]
  BY DEF SbcsReadsBack
<1> DEFINE word == read_sbcs(s)
<1>1. Unpack(SBCS, word) = SbcsValues(s)
  BY SbcsTells DEF Tells
<1> HIDE DEF word
<1>2. \A f \in DOMAIN SBCS : get_field(word, SBCS[f]) = SbcsValues(s)[f]
  <2>1. \A f \in DOMAIN SBCS : Unpack(SBCS, word)[f] = get_field(word, SBCS[f])
    BY DEF Unpack
  <2> QED  BY <1>1, <2>1
<1>3. {"sbreadonaddr", "sbaccess", "sbautoincrement", "sbreadondata", "sberror"} \subseteq DOMAIN SBCS
  BY DEF SBCS
<1>4. /\ get_field(word, SBCS.sbreadonaddr) = s.readonaddr
      /\ get_field(word, SBCS.sbaccess) = s.sbaccess
      /\ get_field(word, SBCS.sbautoincrement) = s.autoincrement
      /\ get_field(word, SBCS.sbreadondata) = s.readondata
      /\ get_field(word, SBCS.sberror) = s.error
  BY <1>2, <1>3 DEF SbcsValues
<1>5. write_sbcs(s, word) =
        [ readonaddr |-> s.readonaddr, sbaccess |-> s.sbaccess, autoincrement |-> s.autoincrement,
          readondata |-> s.readondata, error |-> {} ]
  BY <1>4 DEF write_sbcs
<1>6. [s EXCEPT !.error = {}] =
        [ readonaddr |-> s.readonaddr, sbaccess |-> s.sbaccess, autoincrement |-> s.autoincrement,
          readondata |-> s.readondata, error |-> {} ]
  BY DEF SbMembers
<1> QED  BY <1>5, <1>6 DEF word

\* A debugger that changes one field of the dmcontrol it has read changes nothing else.
THEOREM ControlKept == ControlReadsBack
<1> SUFFICES ASSUME NEW c \in Members
             PROVE  write_dmcontrol(read_dmcontrol(c)) = c
  BY DEF ControlReadsBack
<1> DEFINE values ==
             [ haltreq |-> c.haltreq, resumereq |-> c.resumereq, hartreset |-> c.hartreset,
               ackhavereset |-> {}, hasel |-> c.hasel,
               hartsello |-> c.hartsel \cap (0..9), hartselhi |-> FIELD(c.hartsel, 10, 10),
               ndmreset |-> c.ndmreset, dmactive |-> c.dmactive ]
           word == Pack(DMCONTROL, values)
<1>1. Disjoint(DMCONTROL)
  BY LayoutsDisjoint DEF Layouts
<1>2. /\ c.haltreq \subseteq {0} /\ c.resumereq \subseteq {0} /\ c.hartreset \subseteq {0}
      /\ c.ndmreset \subseteq {0} /\ c.dmactive \subseteq {0} /\ c.hasel = {} /\ c.hartsel \subseteq {0}
  BY DEF Members
<1>3. c.hartsel \cap (0..9) = c.hartsel /\ FIELD(c.hartsel, 10, 10) = {}
  <2>1. \A i \in 0..9 : i + 10 # 0
    OBVIOUS
  <2> QED  BY <1>2, <2>1 DEF FIELD
<1>4. Fits(DMCONTROL, values)
  <2>1. /\ values.haltreq \subseteq 0..0 /\ values.resumereq \subseteq 0..0 /\ values.hartreset \subseteq 0..0
        /\ values.ackhavereset \subseteq 0..0 /\ values.hasel \subseteq 0..0
        /\ values.hartsello \subseteq 0..9 /\ values.hartselhi \subseteq 0..9
        /\ values.ndmreset \subseteq 0..0 /\ values.dmactive \subseteq 0..0
    BY <1>2, <1>3
  <2> HIDE DEF values
  <2> QED  BY <2>1 DEF Fits, DMCONTROL
<1>5. values = [f \in DOMAIN DMCONTROL |-> values[f]]
  BY DEF DMCONTROL
<1>6. /\ values.haltreq = c.haltreq /\ values.resumereq = c.resumereq /\ values.hartreset = c.hartreset
      /\ values.ndmreset = c.ndmreset /\ values.dmactive = c.dmactive
      /\ values.hartsello = c.hartsel /\ values.hartselhi = {}
  BY <1>3
<1> HIDE DEF values
<1>7. Unpack(DMCONTROL, word) = values
  BY <1>1, <1>4, <1>5, PackedTells DEF Tells
<1> HIDE DEF word
<1>8. \A f \in DOMAIN DMCONTROL : get_field(word, DMCONTROL[f]) = values[f]
  <2>1. \A f \in DOMAIN DMCONTROL : Unpack(DMCONTROL, word)[f] = get_field(word, DMCONTROL[f])
    BY DEF Unpack
  <2> QED  BY <1>7, <2>1
<1>9. {"haltreq", "resumereq", "hartreset", "ndmreset", "dmactive", "hartsello", "hartselhi"}
        \subseteq DOMAIN DMCONTROL
  BY DEF DMCONTROL
<1>10. Shl({}, 10) = {} /\ (c.hartsel \cup {}) \cap {0} = c.hartsel
  BY <1>2 DEF Shl
<1>11. write_dmcontrol(word) =
         [ haltreq |-> c.haltreq, resumereq |-> c.resumereq, hartreset |-> c.hartreset,
           ndmreset |-> c.ndmreset, dmactive |-> c.dmactive, hasel |-> {}, hartsel |-> c.hartsel ]
  <2>1. /\ get_field(word, DMCONTROL.haltreq) = c.haltreq
        /\ get_field(word, DMCONTROL.resumereq) = c.resumereq
        /\ get_field(word, DMCONTROL.hartreset) = c.hartreset
        /\ get_field(word, DMCONTROL.ndmreset) = c.ndmreset
        /\ get_field(word, DMCONTROL.dmactive) = c.dmactive
        /\ get_field(word, DMCONTROL.hartsello) = c.hartsel
        /\ get_field(word, DMCONTROL.hartselhi) = {}
    BY <1>6, <1>8, <1>9
  <2> QED  BY <1>10, <2>1 DEF write_dmcontrol
<1>12. c = [ haltreq |-> c.haltreq, resumereq |-> c.resumereq, hartreset |-> c.hartreset,
             ndmreset |-> c.ndmreset, dmactive |-> c.dmactive, hasel |-> {}, hartsel |-> c.hartsel ]
  BY <1>2 DEF Members
<1>13. word = read_dmcontrol(c)
  BY DEF word, values, read_dmcontrol
<1> QED  BY <1>11, <1>12, <1>13

\* The masks of jtag_dtm.cpp are the fields of the standard registers, and the six bits of
\* its addresses reach every register of the module.
THEOREM OneTransport == TransportAgrees
<1>1. /\ DTMCONTROL_DMIRESET = Mask(DTMCS.dmireset) /\ DTMCONTROL_DMIHARDRESET = Mask(DTMCS.dmihardreset)
      /\ DMI_OP = Mask(DTM_DMI(abits).op) /\ DMI_DATA = Mask(DTM_DMI(abits).data)
      /\ DMI_ADDRESS = Mask(DTM_DMI(abits).address)
  BY DEF DTMCONTROL_DMIRESET, DTMCONTROL_DMIHARDRESET, DMI_OP, DMI_DATA, DMI_ADDRESS, Mask, DTMCS,
         DTM_DMI, abits
<1>2. Readable(15) \subseteq 0 .. Pow2(abits) - 1
  <2>1. Pow2(abits) = 64
    BY DEF Pow2, abits
  <2>2. \A i \in 0..1 : DM_DATA[i] \in 0..63
    BY DEF DM_DATA
  <2>3. \A i \in 0..14 : DM_PROGBUF[i] \in 0..63
    BY DEF DM_PROGBUF
  <2>4. \A r \in DOMAIN DM_SB : DM_SB[r] \in 0..63
    BY DEF DM_SB
  <2>5. \A r \in DOMAIN DM_CONTROL : DM_CONTROL[r] \in 0..63
    BY DEF DM_CONTROL
  <2>6. DataAddress \subseteq 0..63 /\ ProgBufAddress(15) \subseteq 0..63 /\ SwitchAddress \subseteq 0..63
    BY <2>2, <2>3, <2>4, <2>5 DEF DataAddress, datacount, ProgBufAddress, SwitchAddress
  <2>7. 0 .. Pow2(abits) - 1 = 0..63
    BY <2>1
  <2>8. Readable(15) \subseteq 0..63
    BY <2>6, Zenon DEF Readable
  <2> QED  BY <2>7, <2>8
<1>3. Bits(abits) = {1, 2}
  <2>1. \A i \in 0..4 : i \in Bits(6) <=> (6 \div Pow2(i)) % 2 = 1
    BY DEF Bits
  <2>2. Pow2(0) = 1 /\ Pow2(1) = 2 /\ Pow2(2) = 4 /\ Pow2(3) = 8 /\ Pow2(4) = 16
    BY DEF Pow2
  <2>3. /\ (6 \div 1) % 2 = 0 /\ (6 \div 2) % 2 = 1 /\ (6 \div 4) % 2 = 1
        /\ (6 \div 8) % 2 = 0 /\ (6 \div 16) % 2 = 0
    OBVIOUS
  <2>4. 0 \notin Bits(6) /\ 1 \in Bits(6) /\ 2 \in Bits(6) /\ 3 \notin Bits(6) /\ 4 \notin Bits(6)
    BY <2>1, <2>2, <2>3
  <2>5. Bits(6) \subseteq 0..4
    BY BitsFit
  <2> QED  BY <2>4, <2>5 DEF abits
<1>4. dtmcontrol = {0, 5, 6}
  BY <1>3 DEF dtmcontrol, Shl
<1>5. Unpack(DTMCS, dtmcontrol) = [ dmihardreset |-> {}, dmireset |-> {}, idle |-> {}, dmistat |-> {},
                                    abits |-> Bits(abits), version |-> {0} ]
  <2> DEFINE values == [ dmihardreset |-> {}, dmireset |-> {}, idle |-> {}, dmistat |-> {},
                         abits |-> {1, 2}, version |-> {0} ]
  <2>1. /\ get_field({0, 5, 6}, <<17, 1>>) = {} /\ get_field({0, 5, 6}, <<16, 1>>) = {}
        /\ get_field({0, 5, 6}, <<12, 3>>) = {} /\ get_field({0, 5, 6}, <<10, 2>>) = {}
        /\ get_field({0, 5, 6}, <<4, 6>>) = {1, 2} /\ get_field({0, 5, 6}, <<0, 4>>) = {0}
    BY DEF get_field, FIELD
  <2>2. DOMAIN DTMCS = {"dmihardreset", "dmireset", "idle", "dmistat", "abits", "version"}
    BY DEF DTMCS
  <2>3. \A f \in DOMAIN DTMCS : get_field({0, 5, 6}, DTMCS[f]) = values[f]
    BY <2>1 DEF DTMCS
  <2>4. Unpack(DTMCS, {0, 5, 6}) = values
    BY <2>2, <2>3 DEF Unpack
  <2> QED  BY <1>3, <1>4, <2>4
<1> QED  BY <1>1, <1>2, <1>5 DEF TransportAgrees

-----------------------------------------------------------------------------
(* Addresses.                                                              *)

\* The tests of dmi_read and dmi_write for data and program buffer come before
\* their switches: for every size of the buffer they take no other register's
\* address, and no two registers share one.
THEOREM OneRegisterPerAddress ==
    ASSUME NEW size \in 0..16
    PROVE  /\ DataAddress \cap ProgBufAddress(size) = {}
           /\ (DataAddress \cup ProgBufAddress(size)) \cap SwitchAddress = {}
           /\ \A r, s \in DOMAIN DM_SB : DM_SB[r] = DM_SB[s] => r = s
           /\ \A r, s \in DOMAIN DM_CONTROL : DM_CONTROL[r] = DM_CONTROL[s] => r = s
           /\ \A r \in DOMAIN DM_SB, s \in DOMAIN DM_CONTROL : DM_SB[r] # DM_CONTROL[s]
<1>1. DataAddress \subseteq 4..5
  BY DEF DataAddress, DM_DATA, datacount
<1>2. ProgBufAddress(size) \subseteq 32..47
  <2>1. ASSUME NEW i \in 0 .. size - 1 PROVE i \in 0..15 /\ 32 + i \in 32..47
    OBVIOUS
  <2>2. \A i \in 0 .. size - 1 : DM_PROGBUF[i] \in 32..47
    BY <2>1 DEF DM_PROGBUF
  <2> QED  BY <2>2 DEF ProgBufAddress
<1>3. \A r \in DOMAIN DM_SB : DM_SB[r] \in {55} \cup 57..63
  BY DEF DM_SB
<1>4. \A r \in DOMAIN DM_CONTROL : DM_CONTROL[r] \in 16..24 \cup {48, 50, 56}
  BY DEF DM_CONTROL
<1>5. SwitchAddress \cap (4..5 \cup 32..47) = {}
  BY <1>3, <1>4 DEF SwitchAddress
<1>6. \A r, s \in DOMAIN DM_SB : DM_SB[r] = DM_SB[s] => r = s
  BY DEF DM_SB
<1>7. \A r, s \in DOMAIN DM_CONTROL : DM_CONTROL[r] = DM_CONTROL[s] => r = s
  BY DEF DM_CONTROL
<1>8. \A r \in DOMAIN DM_SB, s \in DOMAIN DM_CONTROL : DM_SB[r] # DM_CONTROL[s]
  <2>1. \A n \in {55} \cup 57..63, m \in 16..24 \cup {48, 50, 56} : n # m
    OBVIOUS
  <2> QED  BY <1>3, <1>4, <2>1, Zenon
<1>9. DataAddress \cap ProgBufAddress(size) = {}
  <2>1. \A n \in 4..5, m \in 32..47 : n # m
    OBVIOUS
  <2> QED  BY <1>1, <1>2, <2>1, Zenon
<1>10. (DataAddress \cup ProgBufAddress(size)) \cap SwitchAddress = {}
  BY <1>1, <1>2, <1>5, Zenon
<1> QED  BY <1>6, <1>7, <1>8, <1>9, <1>10, Zenon

-----------------------------------------------------------------------------
(* The devices of main().                                                  *)

\* The places of the devices' registers, at their values.
LEMMA Places ==
    /\ SPI_FLASH = 1 /\ INTERNAL_FLASH = 4 /\ RST_CLK = 5 /\ UART3 = 8 /\ BKP = 13 /\ PORTA = 17
    /\ PORTB = 18 /\ PORTC = 19 /\ SPI_DISPLAY = 27 /\ TIM4 = 29 /\ PORTD = 31
    /\ Created = {1, 4, 5, 8, 13, 17, 18, 19, 27, 29, 31}
BY SMT DEF Created, SPI_FLASH, INTERNAL_FLASH, RST_CLK, UART3, BKP, PORTA, PORTB, PORTC, SPI_DISPLAY, TIM4, PORTD

\* The number of words of each register file.
LEMMA Sizes ==
    /\ Len(MDR_SSP) = 10 /\ Len(MDR_UART) = 33 /\ Len(MDR_EEPROM_CTRL) = 5
    /\ Len(MDR_RST_CLK) = 12 /\ Len(MDR_BKP) = 21 /\ Len(MDR_TIM) = 36 /\ Len(MDR_GPIO) = 11
BY SMT DEF MDR_SSP, MDR_UART, MDR_EEPROM_CTRL, MDR_RST_CLK, MDR_BKP, MDR_TIM, MDR_GPIO

\* The registers of a device are words, and fewer than its place has room for.
LEMMA RegistersFit ==
    ASSUME NEW i \in Created
    PROVE  Len(registers(i)) \in 1 .. 36
<1>1. registers(1) = MDR_SSP /\ registers(27) = MDR_SSP
  BY SMT, Places DEF registers
<1>2. registers(4) = MDR_EEPROM_CTRL
  BY SMT, Places DEF registers
<1>3. registers(5) = MDR_RST_CLK
  BY SMT, Places DEF registers
<1>4. registers(8) = MDR_UART
  BY SMT, Places DEF registers
<1>5. registers(13) = MDR_BKP
  BY SMT, Places DEF registers
<1>6. registers(17) = MDR_GPIO /\ registers(18) = MDR_GPIO /\ registers(19) = MDR_GPIO /\ registers(31) = MDR_GPIO
  BY SMT, Places DEF registers
<1>7. registers(29) = MDR_TIM
  BY SMT, Places DEF registers
<1>8. i \in {1, 4, 5, 8, 13, 17, 18, 19, 27, 29, 31}
  BY SMT, Places
<1> QED  BY SMT, <1>1, <1>2, <1>3, <1>4, <1>5, <1>6, <1>7, <1>8, Sizes

-----------------------------------------------------------------------------
(* Ranges.                                                                 *)

\* The range of a register file.
LEMMA RegistersRange ==
    ASSUME NEW i \in Created
    PROVE  /\ Registers(i).start = 1073741824 + (i - 1) * 32768 /\ Registers(i).priority = 1
           /\ Registers(i).end - Registers(i).start \in 4 .. 144
           /\ Registers(i).end \in Int /\ Registers(i).end % 4 = 0
           /\ i \in 1..31
<1>1. i \in 1..31
  BY SMT, Places
<1>2. Base(i) = 1073741824 + (i - 1) * 32768
  BY SMT, <1>1 DEF Base, K, M
<1>3. PICK n \in 1..36 : n = Len(registers(i))
  BY SMT, RegistersFit
<1>4. sizeof(registers(i)) = 4 * n
  BY SMT, <1>3 DEF sizeof
<1>5. /\ Registers(i).start = Base(i) /\ Registers(i).end = Base(i) + 4 * n
      /\ Registers(i).priority = 1
  BY SMT, <1>4 DEF Registers, Range
<1> QED  BY SMT, <1>1, <1>2, <1>5

\* The ranges of the devices whose place does not come from the table.
LEMMA FixedRanges ==
    /\ PLIC.start = 201326596 /\ PLIC.end = 203423752 /\ PLIC.priority = 1
    /\ debugModule.start = 0 /\ debugModule.end = 4095 /\ debugModule.priority = 0
    /\ MEM_FLASH.start = 268435456 /\ MEM_FLASH.end = 268697600 /\ MEM_FLASH.priority = 0
    /\ MEM_RAM_TCMA.start = 2147483648 /\ MEM_RAM_TCMA.end = 2147549184 /\ MEM_RAM_TCMA.priority = 0
    /\ MEM_RAM_TCMB.start = 2147549184 /\ MEM_RAM_TCMB.end = 2147581952 /\ MEM_RAM_TCMB.priority = 0
    /\ MEM_RAM_AHB.start = 536870912 /\ MEM_RAM_AHB.end = 536887296 /\ MEM_RAM_AHB.priority = 0
    /\ MEM_PER_AHB.start = 1073741824 /\ MEM_PER_AHB.end = 1074790400 /\ MEM_PER_AHB.priority = 0
BY SMT DEF PLIC, debugModule, MEM_FLASH, MEM_RAM_TCMA, MEM_RAM_TCMB, MEM_RAM_AHB, MEM_PER_AHB,
       Memory, Range, MDR_PLIC_PRI_BASE, MDR_PLIC_ICC, K, M

\* Two register files share no address.
LEMMA RegistersApart ==
    ASSUME NEW i \in Created, NEW j \in Created, NEW addr \in Nat,
           is_within(Registers(i), addr), is_within(Registers(j), addr)
    PROVE  i = j
<1>1. ASSUME NEW k \in Created, is_within(Registers(k), addr)
      PROVE  1073741824 + (k - 1) * 32768 <= addr /\ addr < 1073741824 + (k - 1) * 32768 + 145
  <2> DEFINE start == Registers(k).start
             end == Registers(k).end
  <2>1. start = 1073741824 + (k - 1) * 32768 /\ end - start \in 4..144 /\ end \in Int /\ k \in 1..31
    BY SMT, RegistersRange
  <2>2. start <= addr /\ addr < end
    BY SMT, <1>1 DEF is_within
  <2> HIDE DEF start, end
  <2> QED  BY SMT, <2>1, <2>2
<1>2. i \in 1..31 /\ j \in 1..31
  BY SMT, RegistersRange
<1> QED  BY SMT, <1>1, <1>2

\* The devices of the higher priority: register files and the PLIC.
LEMMA Above ==
    ASSUME NEW d \in Devices, d.priority # 0
    PROVE  d = PLIC \/ \E i \in Created : d = Registers(i)
BY SMT, FixedRanges DEF Devices, Memories

\* The devices of the lower priority: memories and the debug module.
LEMMA Below ==
    ASSUME NEW d \in Devices, d.priority = 0
    PROVE  d \in { debugModule, MEM_FLASH, MEM_RAM_TCMA, MEM_RAM_TCMB, MEM_RAM_AHB, MEM_PER_AHB }
<1>1. ASSUME NEW i \in Created, d = Registers(i) PROVE FALSE
  BY SMT, <1>1, RegistersRange
<1> QED  BY SMT, <1>1, FixedRanges DEF Devices, Memories

-----------------------------------------------------------------------------
(* The bus of main().                                                      *)

\* Bus::get_device takes the first device of the highest priority that covers an
\* address: there is never another, so the order in which main() creates the devices
\* does not matter to any access.
THEOREM OneOwner ==
    ASSUME NEW addr \in Nat, NEW d \in Found(addr), NEW e \in Found(addr)
    PROVE  d = e
<1>1. /\ d \in Devices /\ e \in Devices /\ is_within(d, addr) /\ is_within(e, addr)
      /\ d.priority <= e.priority /\ e.priority <= d.priority
  BY SMT DEF Found
<1>2. \A f \in Devices : f.priority \in {0, 1}
  <2>1. \A i \in Created : Registers(i).priority = 1
    BY SMT, RegistersRange
  <2> QED  BY SMT, <2>1, FixedRanges DEF Devices, Memories
<1>3. d.priority = e.priority
  BY SMT, <1>1, <1>2
<1>4. CASE d.priority = 0
  <2>1. d \in { debugModule, MEM_FLASH, MEM_RAM_TCMA, MEM_RAM_TCMB, MEM_RAM_AHB, MEM_PER_AHB }
    BY SMT, <1>1, <1>4, Below
  <2>2. e.priority = 0
    BY SMT, <1>3, <1>4
  <2>3. e \in { debugModule, MEM_FLASH, MEM_RAM_TCMA, MEM_RAM_TCMB, MEM_RAM_AHB, MEM_PER_AHB }
    BY SMT, <1>1, <2>2, Below
  <2> QED  BY SMT, <2>1, <2>3, <1>1, FixedRanges DEF is_within
<1>5. CASE d.priority # 0
  <2>1. d = PLIC \/ \E i \in Created : d = Registers(i)
    BY SMT, <1>1, <1>5, Above
  <2>2. e = PLIC \/ \E i \in Created : e = Registers(i)
    BY SMT, <1>1, <1>3, <1>5, Above
  <2>3. ASSUME NEW i \in Created, is_within(Registers(i), addr), is_within(PLIC, addr) PROVE FALSE
    BY SMT, <2>3, RegistersRange, FixedRanges DEF is_within
  <2> QED  BY SMT, <1>1, <2>1, <2>2, <2>3, RegistersApart
<1> QED  BY SMT, <1>4, <1>5

\* An aligned access that begins inside a device ends inside it, the debug module
\* apart, whose range is a byte short: no access reaches beyond an array.
THEOREM AccessStaysInside ==
    ASSUME NEW addr \in Nat, NEW len \in {1, 2, 4}, addr % len = 0,
           NEW d \in Devices \ {debugModule}, is_within(d, addr)
    PROVE  addr + len <= d.end
<1>1. d.end \in Int /\ d.end % 4 = 0
  <2>1. \A i \in Created : Registers(i).end \in Int /\ Registers(i).end % 4 = 0
    BY SMT, RegistersRange
  <2> QED  BY SMT, <2>1, FixedRanges DEF Devices, Memories
<1>2. ASSUME NEW n \in Int, n % 4 = 0, addr < n PROVE addr + len <= n
  BY SMT, <1>2
<1> QED  BY SMT, <1>1, <1>2 DEF is_within

\* A peripheral that main() creates no device for is plain memory: its first register
\* belongs to MEM_PER_AHB, where a program reads back what it wrote.
THEOREM OthersAreMemory ==
    ASSUME NEW i \in (DOMAIN Peripherals) \ Created
    PROVE  Found(Base(i)) = {MEM_PER_AHB}
<1>1. Base(i) = 1073741824 + (i - 1) * 32768 /\ Base(i) \in Nat /\ i \in 1..31
  <2>1. DOMAIN Peripherals = 1..31
    BY SMT DEF Peripherals
  <2> QED  BY SMT, <2>1 DEF Base, K, M
<1>2. is_within(MEM_PER_AHB, Base(i)) /\ MEM_PER_AHB \in Devices
  BY SMT, <1>1, FixedRanges DEF is_within, Devices, Memories
<1>3. ASSUME NEW j \in Created PROVE ~is_within(Registers(j), Base(i))
  <2> DEFINE a == Registers(j).start
             b == Registers(j).end
  <2>1. a = 1073741824 + (j - 1) * 32768 /\ b - a \in 4..144 /\ b \in Int /\ j \in 1..31 /\ i # j
    BY SMT, RegistersRange
  <2> HIDE DEF a, b
  <2>2. ~(a <= Base(i) /\ Base(i) < b)
    BY SMT, <1>1, <2>1
  <2> QED  BY SMT, <2>2 DEF is_within, a, b
<1>4. ~is_within(PLIC, Base(i))
  BY SMT, <1>1, FixedRanges DEF is_within
<1>5. ASSUME NEW e \in Devices, is_within(e, Base(i)) PROVE e.priority = 0
  BY SMT, <1>3, <1>4, <1>5, Above
<1>6. MEM_PER_AHB \in Found(Base(i))
  BY SMT, <1>2, <1>5, FixedRanges DEF Found
<1> QED  BY SMT, <1>1, <1>6, OneOwner
=============================================================================
