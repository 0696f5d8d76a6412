-------------------------- MODULE DebugSystemProofs --------------------------
(***************************************************************************)
(* The debugger, the debug module and the hart: the handshake of the ROM   *)
(* with the module, proved for every program, every set of abstract        *)
(* commands, every size of the program buffer and every contents of it     *)
(* that keeps the debugger's rules.                                        *)
(***************************************************************************)
EXTENDS DebugRefinement, HartProofs, SequenceTheorems

LEMMA Constants ==
    /\ DebugAddress \subseteq Address
    /\ Value \subseteq Nat
    /\ Address \subseteq Value
    /\ 0..511 \subseteq Value
    /\ ProgBufSize \in 1..15
    /\ AbstractRti \in Nat
    /\ NoCommand \notin CommandType
    /\ Command \subseteq CommandType
  BY DebugSystemAssumption, DebugModuleAssumption

-----------------------------------------------------------------------------
(* The words of the ROM.                                                   *)

LEMMA RomLength == Len(Rom) = 29
  BY DEF Rom

\* The word i of the ROM lies at 0x7fc + 4 * i.
LEMMA RomAt ==
    ASSUME NEW c, NEW d, NEW i \in 1..29, c.pc = 2044 + 4 * i
    PROVE  c.pc \in RomAddress /\ FetchDebug(c, d) = Rom[i]
<1>1. c.pc \in RomAddress
  BY RomLength DEF RomAddress, DEBUG_ROM_ENTRY
<1>2. (c.pc - DEBUG_ROM_ENTRY) \div 4 + 1 = i
  BY DEF DEBUG_ROM_ENTRY
<1> QED
  BY <1>1, <1>2 DEF FetchDebug

LEMMA RomFetch ==
    ASSUME NEW c, NEW d
    PROVE  /\ c.pc = 2048 => FetchDebug(c, d) = jal(2060)
           /\ c.pc = 2056 => FetchDebug(c, d) = jal(2112)
           /\ c.pc \in {2060, 2104, 2136, 2140} => FetchDebug(c, d) = nop
           /\ c.pc = 2064 => FetchDebug(c, d) = csrw_s0("dscratch0")
           /\ c.pc \in {2068, 2088, 2124, 2148} => FetchDebug(c, d) = mhartid_s0
           /\ c.pc = 2072 => FetchDebug(c, d) = store("HALTED")
           /\ c.pc \in {2076, 2092} => FetchDebug(c, d) = lbu_flags
           /\ c.pc = 2080 => FetchDebug(c, d) = andi_s0("GO")
           /\ c.pc = 2084 => FetchDebug(c, d) = bnez_s0(2124)
           /\ c.pc = 2096 => FetchDebug(c, d) = andi_s0("RESUME")
           /\ c.pc = 2100 => FetchDebug(c, d) = bnez_s0(2148)
           /\ c.pc = 2108 => FetchDebug(c, d) = jal(2068)
           /\ c.pc \in {2112, 2132, 2156} => FetchDebug(c, d) = csrr_s0("dscratch0")
           /\ c.pc = 2116 => FetchDebug(c, d) = store("EXCEPTION")
           /\ c.pc = 2120 => FetchDebug(c, d) = ebreak
           /\ c.pc = 2128 => FetchDebug(c, d) = store("GOING")
           /\ c.pc = 2144 => FetchDebug(c, d) = jal(768)
           /\ c.pc = 2152 => FetchDebug(c, d) = store("RESUMING")
           /\ c.pc = 2160 => FetchDebug(c, d) = [op |-> "dret"]
<1>1. /\ Rom[1] = jal(2060) /\ Rom[3] = jal(2112) /\ Rom[4] = nop
      /\ Rom[5] = csrw_s0("dscratch0") /\ Rom[6] = mhartid_s0 /\ Rom[7] = store("HALTED")
      /\ Rom[8] = lbu_flags /\ Rom[9] = andi_s0("GO") /\ Rom[10] = bnez_s0(2124)
      /\ Rom[11] = mhartid_s0 /\ Rom[12] = lbu_flags /\ Rom[13] = andi_s0("RESUME")
      /\ Rom[14] = bnez_s0(2148) /\ Rom[15] = nop /\ Rom[16] = jal(2068)
      /\ Rom[17] = csrr_s0("dscratch0") /\ Rom[18] = store("EXCEPTION") /\ Rom[19] = ebreak
      /\ Rom[20] = mhartid_s0 /\ Rom[21] = store("GOING") /\ Rom[22] = csrr_s0("dscratch0")
      /\ Rom[23] = nop /\ Rom[24] = nop /\ Rom[25] = jal(768) /\ Rom[26] = mhartid_s0
      /\ Rom[27] = store("RESUMING") /\ Rom[28] = csrr_s0("dscratch0")
      /\ Rom[29] = [op |-> "dret"]
  BY DEF Rom, DEBUG_ROM_WHERETO
<1>2. \A i \in 1..29 : c.pc = 2044 + 4 * i => FetchDebug(c, d) = Rom[i]
  BY RomAt
<1>3. \A p \in {2048, 2056, 2060, 2064, 2068, 2072, 2076, 2080, 2084, 2088, 2092, 2096,
                2100, 2104, 2108, 2112, 2116, 2120, 2124, 2128, 2132, 2136, 2140, 2144,
                2148, 2152, 2156, 2160} :
        c.pc = p => FetchDebug(c, d) = Rom[(p - 2044) \div 4]
  BY <1>2
<1> QED
  BY <1>1, <1>3

-----------------------------------------------------------------------------
(* The code assembled for a command.                                       *)

LEMMA Pair == ASSUME NEW a, NEW b PROVE <<a>> \o <<b>> = <<a, b>>
<1> DEFINE S == {a, b}
<1>1. <<a>> \in Seq(S) /\ <<b>> \in Seq(S) /\ <<a, b>> \in Seq(S)
  OBVIOUS
<1>2. <<a>> \o <<b>> \in Seq(S) /\ Len(<<a>> \o <<b>>) = 2
  BY <1>1, ConcatProperties
<1>3. \A i \in 1..2 : (<<a>> \o <<b>>)[i] = <<a, b>>[i]
  BY <1>1
<1> QED
  BY <1>1, <1>2, <1>3, SeqEqual

LEMMA Triple == ASSUME NEW a, NEW b, NEW c
                PROVE  <<a, b>> \o <<c>> = <<a, b, c>> /\ <<a>> \o <<b, c>> = <<a, b, c>>
<1> DEFINE S == {a, b, c}
<1>1. /\ <<a>> \in Seq(S) /\ <<c>> \in Seq(S) /\ <<a, b>> \in Seq(S) /\ <<b, c>> \in Seq(S)
      /\ <<a, b, c>> \in Seq(S)
  OBVIOUS
<1>2. /\ <<a, b>> \o <<c>> \in Seq(S) /\ Len(<<a, b>> \o <<c>>) = 3
      /\ <<a>> \o <<b, c>> \in Seq(S) /\ Len(<<a>> \o <<b, c>>) = 3
  BY <1>1, ConcatProperties
<1>3. \A i \in 1..3 : (<<a, b>> \o <<c>>)[i] = <<a, b, c>>[i]
                      /\ (<<a>> \o <<b, c>>)[i] = <<a, b, c>>[i]
  BY <1>1
<1> QED
  BY <1>1, <1>2, <1>3, SeqEqual

LEMMA Quadruple == ASSUME NEW a, NEW b, NEW c, NEW d
                   PROVE  <<a, b, c>> \o <<d>> = <<a, b, c, d>>
<1> DEFINE S == {a, b, c, d}
<1>1. <<d>> \in Seq(S) /\ <<a, b, c>> \in Seq(S) /\ <<a, b, c, d>> \in Seq(S)
  OBVIOUS
<1>2. <<a, b, c>> \o <<d>> \in Seq(S) /\ Len(<<a, b, c>> \o <<d>>) = 4
  BY <1>1, ConcatProperties
<1>3. \A i \in 1..4 : (<<a, b, c>> \o <<d>>)[i] = <<a, b, c, d>>[i]
  BY <1>1
<1> QED
  BY <1>1, <1>2, <1>3, SeqEqual

LEMMA Quintuple == ASSUME NEW a, NEW b, NEW c, NEW d, NEW e
                   PROVE  <<a, b, c, d>> \o <<e>> = <<a, b, c, d, e>>
<1> DEFINE S == {a, b, c, d, e}
<1>1. <<e>> \in Seq(S) /\ <<a, b, c, d>> \in Seq(S) /\ <<a, b, c, d, e>> \in Seq(S)
  OBVIOUS
<1>2. <<a, b, c, d>> \o <<e>> \in Seq(S) /\ Len(<<a, b, c, d>> \o <<e>>) = 5
  BY <1>1, ConcatProperties
<1>3. \A i \in 1..5 : (<<a, b, c, d>> \o <<e>>)[i] = <<a, b, c, d, e>>[i]
  BY <1>1
<1> QED
  BY <1>1, <1>2, <1>3, SeqEqual

\* The last word of the code.
Ending(cmd) == IF cmd.postexec THEN jal(debug_progbuf_start) ELSE ebreak

\* The five shapes perform_abstract_command assembles.
LEMMA CodeShape ==
    ASSUME NEW cmd
    PROVE  /\ ~cmd.transfer => AbstractCode(cmd) = <<Ending(cmd)>>
           /\ cmd.transfer /\ cmd.regno \in CsrRegno /\ cmd.write =>
                 AbstractCode(cmd) = <<csrw_s0("dscratch0"), lw_data("s0"), csrw_s0(cmd.regno),
                                       csrr_s0("dscratch0"), Ending(cmd)>>
           /\ cmd.transfer /\ cmd.regno \in CsrRegno /\ ~cmd.write =>
                 AbstractCode(cmd) = <<csrw_s0("dscratch0"), csrr_s0(cmd.regno), sw_data("s0"),
                                       csrr_s0("dscratch0"), Ending(cmd)>>
           /\ cmd.transfer /\ cmd.regno \notin CsrRegno /\ cmd.write /\ cmd.regno = "s0" =>
                 AbstractCode(cmd) = <<lw_data("s0"), csrw_s0("dscratch0"), Ending(cmd)>>
           /\ cmd.transfer /\ cmd.regno \notin CsrRegno /\ cmd.write /\ cmd.regno # "s0" =>
                 AbstractCode(cmd) = <<lw_data(cmd.regno), Ending(cmd)>>
           /\ cmd.transfer /\ cmd.regno \notin CsrRegno /\ ~cmd.write =>
                 AbstractCode(cmd) = <<sw_data(cmd.regno), Ending(cmd)>>
<1>1. CASE ~cmd.transfer
  <2>1. <<>> \o <<Ending(cmd)>> = <<Ending(cmd)>>
    BY ConcatEmptySeq
  <2> QED
    BY <1>1, <2>1, Zenon DEF AbstractCode, Ending
<1>2. CASE cmd.transfer /\ cmd.regno \in CsrRegno /\ cmd.write
  <2> DEFINE save    == csrw_s0("dscratch0")
             first   == lw_data("s0")
             second  == csrw_s0(cmd.regno)
             restore == csrr_s0("dscratch0")
  <2>1. TransferCode(cmd) = <<save>> \o <<first, second>> \o <<restore>>
    BY <1>2, Zenon DEF TransferCode
  <2>2. AbstractCode(cmd) = TransferCode(cmd) \o <<Ending(cmd)>>
    BY <1>2, Zenon DEF AbstractCode, Ending
  <2> HIDE DEF save, first, second, restore
  <2>3. TransferCode(cmd) = <<save, first, second, restore>>
    <3>1. <<save>> \o <<first, second>> = <<save, first, second>>
      BY Triple
    <3>2. <<save, first, second>> \o <<restore>> = <<save, first, second, restore>>
      BY Quadruple
    <3> QED
      BY <2>1, <3>1, <3>2, Zenon
  <2>4. AbstractCode(cmd) = <<save, first, second, restore, Ending(cmd)>>
    BY <2>2, <2>3, Quintuple, Zenon
  <2> USE DEF save, first, second, restore
  <2> QED
    BY <1>2, <2>4
<1>3. CASE cmd.transfer /\ cmd.regno \in CsrRegno /\ ~cmd.write
  <2> DEFINE save    == csrw_s0("dscratch0")
             first   == csrr_s0(cmd.regno)
             second  == sw_data("s0")
             restore == csrr_s0("dscratch0")
  <2>1. TransferCode(cmd) = <<save>> \o <<first, second>> \o <<restore>>
    BY <1>3, Zenon DEF TransferCode
  <2>2. AbstractCode(cmd) = TransferCode(cmd) \o <<Ending(cmd)>>
    BY <1>3, Zenon DEF AbstractCode, Ending
  <2> HIDE DEF save, first, second, restore
  <2>3. TransferCode(cmd) = <<save, first, second, restore>>
    <3>1. <<save>> \o <<first, second>> = <<save, first, second>>
      BY Triple
    <3>2. <<save, first, second>> \o <<restore>> = <<save, first, second, restore>>
      BY Quadruple
    <3> QED
      BY <2>1, <3>1, <3>2, Zenon
  <2>4. AbstractCode(cmd) = <<save, first, second, restore, Ending(cmd)>>
    BY <2>2, <2>3, Quintuple, Zenon
  <2> USE DEF save, first, second, restore
  <2> QED
    BY <1>3, <2>4
<1>4. CASE cmd.transfer /\ cmd.regno \notin CsrRegno /\ cmd.write /\ cmd.regno = "s0"
  <2>1. TransferCode(cmd) = <<lw_data("s0"), csrw_s0("dscratch0")>>
    BY <1>4, Pair, Zenon DEF TransferCode
  <2> QED
    BY <1>4, <2>1, Triple, Zenon DEF AbstractCode, Ending
<1>5. CASE cmd.transfer /\ cmd.regno \notin CsrRegno /\ cmd.write /\ cmd.regno # "s0"
  <2>1. TransferCode(cmd) = <<lw_data(cmd.regno)>> \o <<>>
    BY <1>5, Zenon DEF TransferCode
  <2>2. <<lw_data(cmd.regno)>> \o <<>> = <<lw_data(cmd.regno)>>
    BY ConcatEmptySeq
  <2> QED
    BY <1>5, <2>1, <2>2, Pair, Zenon DEF AbstractCode, Ending
<1>6. CASE cmd.transfer /\ cmd.regno \notin CsrRegno /\ ~cmd.write
  <2>1. TransferCode(cmd) = <<sw_data(cmd.regno)>>
    BY <1>6, Zenon DEF TransferCode
  <2> QED
    BY <1>6, <2>1, Pair, Zenon DEF AbstractCode, Ending
<1> QED
  BY <1>1, <1>2, <1>3, <1>4, <1>5, <1>6

-----------------------------------------------------------------------------
(* One CPU::step.                                                          *)

\* No single step expires and no interrupt is taken in a session, so a step is
\* the instruction and nothing else.
LEMMA UnarmedEndStep ==
    ASSUME NEW c \in HartState, c.single_step = 0
    PROVE  EndStep(c) = c
<1>1. EndStep(c) = [c EXCEPT !.single_step = 0]
  BY DEF EndStep
<1> QED
  BY <1>1 DEF HartState

LEMMA SessionEffect ==
    ASSUME NEW c \in HartState, c.debug_mode, c.single_step = 0,
           NEW inst \in Instruction, inst.op # "dret",
           FallsThrough(inst) => c.pc + inst.len \in Address
    PROVE  StepEffect(c, inst) =
               IF inst.op = "fault"
                 THEN HandleException(c, [interrupt |-> FALSE, code |-> inst.code])
                 ELSE Execute(c, inst)
<1> DEFINE r == RunInstruction(c, inst)
           e == Execute(c, inst)
<1>1. StepEffect(c, inst) = EndStep(r)
  BY DEF StepEffect, BeginStep
<1>2. r \in HartState
  BY RunInstructionType
<1>3. CASE inst.op = "fault"
  <2>1. r = HandleException(c, [interrupt |-> FALSE, code |-> inst.code])
    BY <1>3 DEF RunInstruction, Faults, FaultCode
  <2>2. r.single_step = 0
    BY <2>1, HandleExceptionFrame
  <2> HIDE DEF r
  <2> QED
    BY <1>1, <1>2, <1>3, <2>1, <2>2, UnarmedEndStep
<1>4. CASE inst.op # "fault"
  <2>1. ~Faults(c, inst)
    BY <1>4 DEF Faults
  <2>2. e.debug_mode /\ e.single_step = 0
    <3>1. CASE inst.op = "ebreak"
      <4>1. e = EnterDebugMode(c, DCSR_CAUSE_SWBP)
        BY <3>1 DEF Execute
      <4> HIDE DEF e
      <4> QED
        BY <4>1, EnterDebugModeFrame
    <3>2. CASE inst.op # "ebreak"
      BY <2>1, <3>2, ExecuteFrame
    <3> QED
      BY <3>1, <3>2
  <2>3. r = e
    BY <2>1, <2>2 DEF RunInstruction, TakeInterrupt, InterruptEnabled
  <2> HIDE DEF r, e
  <2>4. EndStep(r) = r
    BY <1>2, <2>2, <2>3, UnarmedEndStep
  <2> QED
    BY <1>1, <1>4, <2>3, <2>4 DEF e
<1> QED
  BY <1>3, <1>4

\* dret leaves the session, and arms the step that dcsr asks for.
LEMMA LeaveEffect ==
    ASSUME NEW c \in HartState, c.debug_mode, c.single_step = 0, c.mip = {},
           NEW inst, inst.op = "dret"
    PROVE  LET t == StepEffect(c, inst)
           IN  /\ ~t.debug_mode
               /\ t.single_step = IF c.dcsr.step THEN 1 ELSE 0
               /\ t.pc = c.dpc
               /\ t.regs = c.regs
               /\ t.mip = {}
               /\ t.halt_request = c.halt_request
               /\ t.privilege = c.dcsr.prv /\ t.dcsr = c.dcsr
<1> DEFINE left == IF c.dcsr.step THEN 2 ELSE 0
           e    == ExecuteDRET(c)
           prv  == c.dcsr.prv
<1>1. /\ e \in HartState
      /\ ~e.debug_mode /\ e.single_step = left /\ e.pc = c.dpc
      /\ e.regs = c.regs /\ e.mip = {} /\ e.halt_request = c.halt_request
      /\ e.privilege = prv /\ e.dcsr = c.dcsr
  <2>1. e = [c EXCEPT !.pc = c.dpc, !.privilege = prv, !.debug_mode = FALSE,
                      !.single_step = left]
    BY DEF ExecuteDRET
  <2>2. left \in 0..2 /\ prv \in Privilege /\ c.dpc \in Address
    BY DEF HartState, DCsr
  <2> HIDE DEF left, prv
  <2> QED
    BY <2>1, <2>2 DEF HartState
<1> HIDE DEF e
<1>2. TakeInterrupt(e) = e
  BY <1>1 DEF TakeInterrupt, InterruptEnabled
<1>3. RunInstruction(c, inst) = e
  BY <1>2 DEF RunInstruction, Execute, Faults, e
<1>4. StepEffect(c, inst) = EndStep(e)
  BY <1>3 DEF StepEffect, BeginStep
<1>5. EndStep(e) = [e EXCEPT !.single_step = IF c.dcsr.step THEN 1 ELSE 0]
  <2>1. CASE c.dcsr.step
    BY <1>1, <2>1 DEF EndStep
  <2>2. CASE ~c.dcsr.step
    BY <1>1, <2>2 DEF EndStep
  <2> QED
    BY <2>1, <2>2
<1> DEFINE n == IF c.dcsr.step THEN 1 ELSE 0
<1> HIDE DEF n
<1>6. StepEffect(c, inst) = [e EXCEPT !.single_step = n]
  BY <1>4, <1>5 DEF n
<1>7. LET t == StepEffect(c, inst)
      IN  /\ ~t.debug_mode /\ t.single_step = n /\ t.pc = e.pc /\ t.regs = e.regs
          /\ t.mip = e.mip /\ t.halt_request = e.halt_request
          /\ t.privilege = e.privilege /\ t.dcsr = e.dcsr
  BY <1>1, <1>6 DEF HartState
<1> QED
  BY <1>1, <1>7 DEF n

\* Debug mode saves where the hart was and what it ran as.
Saves(c, t, at) == t.dpc = at /\ t.dcsr.prv = c.privilege /\ t.dcsr.step = c.dcsr.step

\* A hart that honours a halt request executes the first word of the ROM; an
\* armed step that expires with it starts the ROM again.
LEMMA HaltEffect ==
    ASSUME NEW c \in HartState, ~c.debug_mode, c.halt_request, c.single_step \in {0, 1},
           2060 \in Address
    PROVE  LET t == StepEffect(c, jal(2060))
           IN  /\ t.debug_mode
               /\ t.single_step = 0
               /\ t.pc \in {2048, 2060}
               /\ t.regs = c.regs
               /\ t.mip = c.mip
               /\ t.halt_request
               /\ t.dcsr.cause = DCSR_CAUSE_DEBUGINT
               /\ Saves(c, t, c.pc)
<1> DEFINE b == EnterDebugMode(c, DCSR_CAUSE_DEBUGINT)
           r == [b EXCEPT !.pc = 2060]
<1>1. BeginStep(c) = b
  BY DEF BeginStep
<1>2. b \in HartState
  BY EnterDebugModeType DEF DCSR_CAUSE_DEBUGINT
<1>3. /\ b.debug_mode
      /\ b.single_step = c.single_step
      /\ b.regs = c.regs
      /\ b.mip = c.mip
      /\ b.halt_request
      /\ b.dcsr.cause = DCSR_CAUSE_DEBUGINT
      /\ Saves(c, b, c.pc)
  <2> DEFINE dcsr == [c.dcsr EXCEPT !.cause = DCSR_CAUSE_DEBUGINT, !.prv = c.privilege]
  <2>1. /\ dcsr.cause = DCSR_CAUSE_DEBUGINT /\ dcsr.prv = c.privilege
        /\ dcsr.step = c.dcsr.step
    BY DEF HartState, DCsr
  <2>2. b = [c EXCEPT !.debug_mode = TRUE, !.dcsr = dcsr, !.privilege = PRV_M,
                      !.dpc = c.pc, !.pc = DEBUG_ROM_ENTRY]
    BY DEF EnterDebugMode
  <2> HIDE DEF dcsr
  <2> QED
    BY <2>1, <2>2 DEF HartState, Saves
<1> HIDE DEF b
<1>4. RunInstruction(b, jal(2060)) = r
  <2>1. ~Faults(b, jal(2060))
    BY DEF Faults, jal
  <2>2. Execute(b, jal(2060)) = r
    BY DEF Execute, jal
  <2>3. TakeInterrupt(r) = r
    BY <1>2, <1>3 DEF TakeInterrupt, InterruptEnabled, HartState
  <2> QED
    BY <2>1, <2>2, <2>3 DEF RunInstruction
<1>5. /\ r \in HartState
      /\ r.debug_mode
      /\ r.single_step = c.single_step
      /\ r.regs = c.regs
      /\ r.mip = c.mip
      /\ r.halt_request
      /\ r.dcsr.cause = DCSR_CAUSE_DEBUGINT
      /\ Saves(c, r, c.pc)
      /\ r.pc = 2060
  BY <1>2, <1>3 DEF HartState, Saves
<1>6. StepEffect(c, jal(2060)) = EndStep(r)
  BY <1>1, <1>4 DEF StepEffect
<1> HIDE DEF r
<1>7. CASE c.single_step = 0
  BY <1>5, <1>6, <1>7, UnarmedEndStep
<1>8. CASE c.single_step = 1
  <2> DEFINE d == [r EXCEPT !.pc = DEBUG_ROM_ENTRY]
  <2>1. EndStep(r) = [d EXCEPT !.single_step = 0]
    BY <1>5, <1>8 DEF EndStep, EnterDebugMode
  <2>2. /\ d \in HartState
        /\ d.debug_mode /\ d.regs = r.regs /\ d.mip = r.mip /\ d.dcsr = r.dcsr /\ d.pc = 2048
        /\ d.dpc = r.dpc /\ d.halt_request
    BY <1>5, FixedAddresses DEF HartState, DEBUG_ROM_ENTRY
  <2> HIDE DEF d
  <2> QED
    BY <1>5, <1>6, <2>1, <2>2 DEF HartState, Saves
<1> QED
  BY <1>7, <1>8

\* What an instruction of the program does: it runs on, or an ebreak or the armed
\* step sends the hart to the ROM.
Runs(c, inst, t) ==
    LET next == IF inst.op = "jump" THEN inst.to ELSE c.pc + 4
    IN  /\ ~t.halt_request
        /\ t.regs = IF inst.op = "set" THEN [c.regs EXCEPT ![inst.reg] = inst.val] ELSE c.regs
        /\ IF c.single_step = 1 \/ inst.op = "ebreak"
             THEN /\ t.debug_mode /\ t.pc = 2048
                  /\ t.dcsr.cause = IF inst.op = "ebreak" THEN DCSR_CAUSE_SWBP ELSE DCSR_CAUSE_STEP
                  /\ Saves(c, t, IF inst.op = "ebreak" THEN c.pc ELSE next)
             ELSE /\ ~t.debug_mode /\ t.pc = next
                  /\ t.privilege = c.privilege /\ t.dcsr = c.dcsr

LEMMA ProgramEffect ==
    ASSUME NEW c \in HartState, ~c.debug_mode, ~c.halt_request, c.single_step \in {0, 1},
           c.mip = {}, NEW inst \in ProgramInst, Fetchable(c, inst)
    PROVE  LET t == StepEffect(c, inst)
           IN  t.single_step = 0 /\ t.mip = {} /\ Runs(c, inst, t)
<1> DEFINE e == Execute(c, inst)
           regs == IF inst.op = "set" THEN [c.regs EXCEPT ![inst.reg] = inst.val] ELSE c.regs
           next == IF inst.op = "jump" THEN inst.to ELSE c.pc + 4
           Enters(s, t, cause) ==
               /\ t.debug_mode /\ t.pc = 2048 /\ t.dcsr.cause = cause
               /\ t.single_step = s.single_step /\ t.mip = s.mip
               /\ t.halt_request = s.halt_request /\ t.regs = s.regs /\ Saves(s, t, s.pc)
<1>1. /\ inst.op \in {"alu", "set", "jump", "ebreak"}
      /\ inst.op \in {"alu", "set"} => inst.len = 4
      /\ inst.op = "set" => inst.reg \in Reg /\ inst.val \in Value
      /\ inst.op = "jump" => inst.to \in Address
      /\ inst \in Instruction
  BY DebugSystemAssumption DEF Instruction
<1>2. FallsThrough(inst) => c.pc + inst.len \in Address
  BY DEF Fetchable
<1>3. ~Faults(c, inst)
  BY <1>1 DEF Faults
<1>4. e \in HartState
  BY <1>1, <1>2, <1>3, ExecuteType
<1>5. ASSUME NEW s \in HartState, ~s.debug_mode, NEW cause
      PROVE  Enters(s, EnterDebugMode(s, cause), cause)
  <2> DEFINE dcsr == [s.dcsr EXCEPT !.cause = cause, !.prv = s.privilege]
  <2>1. dcsr.cause = cause /\ dcsr.prv = s.privilege /\ dcsr.step = s.dcsr.step
    BY DEF HartState, DCsr
  <2>2. EnterDebugMode(s, cause) = [s EXCEPT !.debug_mode = TRUE, !.dcsr = dcsr,
                                             !.privilege = PRV_M, !.dpc = s.pc, !.pc = 2048]
    BY <1>5 DEF EnterDebugMode, DEBUG_ROM_ENTRY
  <2> HIDE DEF dcsr
  <2> QED
    BY <2>1, <2>2 DEF HartState, Saves
<1>6. /\ e.single_step = c.single_step /\ e.mip = {} /\ e.halt_request = c.halt_request
      /\ e.regs = regs
      /\ IF inst.op = "ebreak"
           THEN e.debug_mode /\ e.pc = 2048 /\ e.dcsr.cause = DCSR_CAUSE_SWBP /\ Saves(c, e, c.pc)
           ELSE ~e.debug_mode /\ e.pc = next /\ e.privilege = c.privilege /\ e.dcsr = c.dcsr
  <2>1. CASE inst.op = "ebreak"
    BY <1>5, <2>1 DEF Execute
  <2>2. CASE inst.op = "alu"
    BY <1>1, <2>2 DEF Execute, HartState
  <2>3. CASE inst.op = "set"
    <3>1. e = [c EXCEPT !.pc = c.pc + inst.len, !.regs = [c.regs EXCEPT ![inst.reg] = inst.val]]
      BY <2>3 DEF Execute
    <3> QED
      BY <1>1, <2>3, <3>1 DEF HartState
  <2>4. CASE inst.op = "jump"
    BY <1>1, <2>4 DEF Execute, HartState
  <2> QED
    BY <1>1, <2>1, <2>2, <2>3, <2>4
<1>7. StepEffect(c, inst) = EndStep(e)
  <2>1. TakeInterrupt(e) = e
    BY <1>6 DEF TakeInterrupt, InterruptEnabled
  <2> QED
    BY <1>3, <2>1 DEF StepEffect, BeginStep, RunInstruction
<1> HIDE DEF e, regs, next
<1>8. CASE c.single_step = 0
  <2>1. StepEffect(c, inst) = e
    BY <1>4, <1>6, <1>7, <1>8, UnarmedEndStep
  <2> QED
    BY <1>6, <1>8, <2>1 DEF regs, next, Runs
<1>9. CASE c.single_step = 1
  <2> DEFINE d == EnterDebugMode(e, DCSR_CAUSE_STEP)
  <2>1. EndStep(e) = [d EXCEPT !.single_step = 0]
    BY <1>6, <1>9 DEF EndStep
  <2>2. d \in HartState
    BY <1>4, EnterDebugModeType DEF DCSR_CAUSE_STEP
  <2>3. /\ d.debug_mode /\ d.pc = 2048 /\ d.mip = {}
        /\ d.halt_request = c.halt_request /\ d.regs = regs
        /\ d.dcsr.cause = IF inst.op = "ebreak" THEN DCSR_CAUSE_SWBP ELSE DCSR_CAUSE_STEP
        /\ Saves(c, d, IF inst.op = "ebreak" THEN c.pc ELSE next)
    <3>1. CASE inst.op = "ebreak"
      <4>1. d = [e EXCEPT !.pc = DEBUG_ROM_ENTRY]
        BY <1>6, <3>1 DEF EnterDebugMode
      <4> HIDE DEF d
      <4> QED
        BY <1>4, <1>6, <3>1, <4>1 DEF HartState, DEBUG_ROM_ENTRY, Saves
    <3>2. CASE inst.op # "ebreak"
      BY <1>4, <1>5, <1>6, <3>2 DEF Saves
    <3> QED
      BY <3>1, <3>2
  <2> HIDE DEF d
  <2> QED
    BY <1>7, <1>9, <2>1, <2>2, <2>3 DEF HartState, regs, next, Runs, Saves
<1> QED
  BY <1>8, <1>9

-----------------------------------------------------------------------------
(* One CPU::step that begins and ends in debug mode.                       *)

\* From c to t the hart stays in the session and goes to an address.
Moves(c, t, to) ==
    /\ t.debug_mode /\ t.single_step = 0 /\ t.mip = c.mip
    /\ t.halt_request = c.halt_request
    /\ t.pc = to

\* The registers of the session are left alone.
KeepsRegs(c, t) == t.regs = c.regs
KeepsCsrs(c, t) == t.dscratch0 = c.dscratch0 /\ t.dpc = c.dpc /\ t.dcsr = c.dcsr
Keeps(c, t) == KeepsRegs(c, t) /\ KeepsCsrs(c, t)

\* What an instruction that stays in the session does.
Effect(c, inst, t) ==
    /\ inst.op = "alu" => Moves(c, t, c.pc + inst.len) /\ Keeps(c, t)
    /\ inst.op = "jump" => Moves(c, t, inst.to) /\ Keeps(c, t)
    /\ inst.op = "ebreak" => Moves(c, t, 2048) /\ Keeps(c, t)
    /\ inst.op = "fault" => Moves(c, t, 2056) /\ Keeps(c, t)
    /\ inst.op = "set" =>
          /\ Moves(c, t, c.pc + inst.len) /\ KeepsCsrs(c, t)
          /\ t.regs = [c.regs EXCEPT ![inst.reg] = inst.val]
    /\ inst.op = "csr" /\ inst.csr # "mip" =>
          /\ Moves(c, t, c.pc + inst.len) /\ KeepsRegs(c, t)
          /\ t.dscratch0 = IF inst.csr = "dscratch0" THEN inst.val ELSE c.dscratch0
          /\ t.dpc = IF inst.csr = "dpc" THEN inst.val ELSE c.dpc
          /\ t.dcsr = IF inst.csr = "dcsr" THEN inst.val ELSE c.dcsr

LEMMA InstructionEffect ==
    ASSUME NEW c \in HartState, c.debug_mode, c.single_step = 0, NEW inst \in Instruction,
           FallsThrough(inst) => c.pc + inst.len \in Address
    PROVE  Effect(c, inst, StepEffect(c, inst))
<1> DEFINE t == StepEffect(c, inst)
<1>1. CASE inst.op = "alu"
  <2>1. t = [c EXCEPT !.pc = c.pc + inst.len]
    BY <1>1, SessionEffect DEF Execute
  <2> HIDE DEF t
  <2>2. Moves(c, t, c.pc + inst.len) /\ Keeps(c, t)
    BY <2>1 DEF HartState, Moves, Keeps, KeepsRegs, KeepsCsrs
  <2> QED
    BY <1>1, <2>2 DEF t, Effect
<1>2. CASE inst.op = "jump"
  <2>1. t = [c EXCEPT !.pc = inst.to]
    BY <1>2, SessionEffect DEF Execute
  <2> HIDE DEF t
  <2>2. Moves(c, t, inst.to) /\ Keeps(c, t)
    BY <2>1 DEF HartState, Moves, Keeps, KeepsRegs, KeepsCsrs
  <2> QED
    BY <1>2, <2>2 DEF t, Effect
<1>3. CASE inst.op = "ebreak"
  <2>1. t = [c EXCEPT !.pc = 2048]
    <3>1. t = EnterDebugMode(c, DCSR_CAUSE_SWBP)
      BY <1>3, SessionEffect DEF Execute
    <3> QED
      BY <3>1 DEF EnterDebugMode, DEBUG_ROM_ENTRY
  <2> HIDE DEF t
  <2>2. Moves(c, t, 2048) /\ Keeps(c, t)
    BY <2>1 DEF HartState, Moves, Keeps, KeepsRegs, KeepsCsrs
  <2> QED
    BY <1>3, <2>2 DEF t, Effect
<1>4. CASE inst.op = "fault"
  <2>1. t = HandleException(c, [interrupt |-> FALSE, code |-> inst.code])
    BY <1>4, SessionEffect
  <2> HIDE DEF t
  <2>2. Moves(c, t, 2056) /\ Keeps(c, t)
    BY <2>1 DEF HandleException, DEBUG_ROM_TVEC, HartState, Moves, Keeps, KeepsRegs, KeepsCsrs
  <2> QED
    BY <1>4, <2>2 DEF t, Effect
<1>5. CASE inst.op = "set"
  <2> DEFINE regs == [c.regs EXCEPT ![inst.reg] = inst.val]
  <2>1. t = [c EXCEPT !.pc = c.pc + inst.len, !.regs = regs]
    BY <1>5, SessionEffect DEF Execute
  <2> HIDE DEF t, regs, Effect
  <2>2. Moves(c, t, c.pc + inst.len) /\ KeepsCsrs(c, t) /\ t.regs = regs
    BY <2>1 DEF HartState, Moves, KeepsCsrs
  <2> QED
    BY <1>5, <2>2 DEF t, regs, Effect
<1>6. CASE inst.op = "csr" /\ inst.csr # "mip"
  <2>1. t = [c EXCEPT !.pc = c.pc + inst.len, ![inst.csr] = inst.val]
    BY <1>6, SessionEffect DEF Execute
  <2>2. inst.csr \in {"mstatus", "mtvec", "mepc", "dpc", "mcause", "mie", "dcsr", "dscratch0"}
    BY <1>6 DEF Instruction, CsrWrite
  <2> HIDE DEF t
  <2>3. /\ Moves(c, t, c.pc + inst.len) /\ KeepsRegs(c, t)
        /\ t.dscratch0 = IF inst.csr = "dscratch0" THEN inst.val ELSE c.dscratch0
        /\ t.dpc = IF inst.csr = "dpc" THEN inst.val ELSE c.dpc
        /\ t.dcsr = IF inst.csr = "dcsr" THEN inst.val ELSE c.dcsr
    <3>1. /\ t.debug_mode /\ t.single_step = 0 /\ t.mip = c.mip
          /\ t.halt_request = c.halt_request
      BY <2>1, <2>2 DEF HartState
    <3>2. t.pc = c.pc + inst.len /\ t.regs = c.regs
      BY <2>1, <2>2 DEF HartState
    <3>3. t.dscratch0 = IF inst.csr = "dscratch0" THEN inst.val ELSE c.dscratch0
      BY <2>1, <2>2 DEF HartState
    <3>4. t.dpc = IF inst.csr = "dpc" THEN inst.val ELSE c.dpc
      BY <2>1, <2>2 DEF HartState
    <3>5. t.dcsr = IF inst.csr = "dcsr" THEN inst.val ELSE c.dcsr
      BY <2>1, <2>2 DEF HartState
    <3> QED
      BY <3>1, <3>2, <3>3, <3>4, <3>5 DEF Moves, KeepsRegs
  <2> QED
    BY <1>6, <2>3 DEF t, Effect
<1> QED
  BY <1>1, <1>2, <1>3, <1>4, <1>5, <1>6 DEF Effect

\* In a session CoreStep executes the word at pc.
LEMMA FetchedWord ==
    ASSUME cpu \in HartState, cpu.debug_mode, cpu.single_step = 0,
           ghost \in Ghost, cpu.pc \in DebugAddress, CoreStep
    PROVE  LET word == FetchDebug(cpu, dm)
               inst == Resolve(word, cpu, dm)
           IN  /\ FallsThrough(inst) => cpu.pc + inst.len \in Address
               /\ cpu' = StepEffect(cpu, inst)
               /\ dm' = HartStore(dm, word, cpu)
               /\ accessed' = "none"
               /\ inst \in Instruction => ghost' \in Ghost
               /\ ghost'.command = ghost.command
               /\ ghost'.s0 = IF inst.op = "set" /\ inst.reg = "s0" /\ word.op = "lw_data"
                                   /\ ghost.command.regno = "s0"
                                THEN inst.val ELSE ghost.s0
               /\ ghost'.entered = IF cpu.pc = 768 /\ ghost.entered < 2 THEN ghost.entered + 1
                                                                        ELSE ghost.entered
               /\ ghost'.faulted = (ghost.faulted \/ inst.op = "fault")
               /\ ghost'.resuming = (ghost.resuming /\ word # store("RESUMING"))
               /\ ghost'.stepping = IF inst.op = "dret" THEN IF cpu.dcsr.step THEN "due" ELSE "free"
                                                        ELSE "free"
<1>1. BeginStep(cpu) = cpu
  BY DEF BeginStep
<1>2. Fetched(cpu) = {FetchDebug(cpu, dm)}
  BY DEF Fetched
<1> DEFINE word == FetchDebug(cpu, dm)
           inst == Resolve(word, cpu, dm)
<1>3. Fetchable(cpu, inst) /\ HartStep(word) /\ ObserveStep(word) /\ accessed' = "none"
  BY <1>1, <1>2 DEF CoreStep
<1>4. cpu' = StepEffect(cpu, inst) /\ dm' = HartStore(dm, word, cpu)
  BY <1>1, <1>3 DEF HartStep
<1> HIDE DEF word
<1> DEFINE writes == inst.op = "set" /\ inst.reg = "s0"
                       /\ (~cpu.debug_mode \/ (word.op = "lw_data" /\ ghost.command.regno = "s0"))
           enters == cpu.debug_mode /\ cpu.pc = DEBUG_ROM_WHERETO
<1>5. ghost' = [ghost EXCEPT
            !.s0       = IF writes THEN inst.val ELSE @,
            !.entered  = IF enters /\ @ < 2 THEN @ + 1 ELSE @,
            !.faulted  = @ \/ (cpu.debug_mode /\ Faults(cpu, inst)),
            !.resuming = @ /\ word # store("RESUMING"),
            !.stepping = Stepped(cpu, inst)]
  BY <1>1, <1>3, Zenon DEF ObserveStep
<1>6. Stepped(cpu, inst) = IF inst.op = "dret" THEN IF cpu.dcsr.step THEN "due" ELSE "free"
                                               ELSE "free"
  BY DEF Stepped
<1>7. /\ ghost'.command = ghost.command
      /\ ghost'.s0 = IF writes THEN inst.val ELSE ghost.s0
      /\ ghost'.entered = IF enters /\ ghost.entered < 2 THEN ghost.entered + 1 ELSE ghost.entered
      /\ ghost'.faulted = (ghost.faulted \/ (cpu.debug_mode /\ Faults(cpu, inst)))
      /\ ghost'.resuming = (ghost.resuming /\ word # store("RESUMING"))
      /\ ghost'.stepping = Stepped(cpu, inst)
  <2> HIDE DEF writes, enters
  <2> QED
    BY <1>5 DEF Ghost
<1> HIDE DEF inst
<1>8. writes = (inst.op = "set" /\ inst.reg = "s0" /\ word.op = "lw_data"
                  /\ ghost.command.regno = "s0")
  OBVIOUS
<1>9. enters = (cpu.pc = 768)
  BY DEF DEBUG_ROM_WHERETO
<1>10. (cpu.debug_mode /\ Faults(cpu, inst)) = (inst.op = "fault")
  BY DEF Faults
<1>11. ASSUME inst \in Instruction
       PROVE  ghost' \in Ghost
  <2> DEFINE s0 == IF writes THEN inst.val ELSE ghost.s0
             entered == IF enters /\ ghost.entered < 2 THEN ghost.entered + 1 ELSE ghost.entered
             faulted == ghost.faulted \/ (cpu.debug_mode /\ Faults(cpu, inst))
             resuming == ghost.resuming /\ word # store("RESUMING")
             stepping == Stepped(cpu, inst)
  <2>1. s0 \in Value
    BY <1>8, <1>11 DEF Instruction, CsrWrite, Ghost
  <2>2. entered \in 0..2
    BY DEF Ghost
  <2>3. faulted \in BOOLEAN /\ resuming \in BOOLEAN
    OBVIOUS
  <2>4. stepping \in {"free", "due", "ran_one", "ran_more"}
    BY <1>6
  <2>5. ghost' = [ghost EXCEPT !.s0 = s0, !.entered = entered, !.faulted = faulted,
                               !.resuming = resuming, !.stepping = stepping]
    BY <1>5, Zenon
  <2> HIDE DEF s0, entered, faulted, resuming, stepping
  <2> QED
    BY <2>1, <2>2, <2>3, <2>4, <2>5 DEF Ghost
<1> HIDE DEF writes, enters
<1> QED
  BY <1>3, <1>4, <1>6, <1>7, <1>8, <1>9, <1>10, <1>11 DEF Fetchable, word, inst

\* The ROM without the jump to the code and the dret.
Handshake == Entering \cup ParkLoop \cup Exception \cup Launching \cup {2132, 2136, 2140, 2144}
               \cup Leaving \cup {2156}

Sequential == {2060, 2064, 2068, 2072, 2076, 2080, 2088, 2092, 2096, 2104, 2112, 2116, 2124,
               2128, 2132, 2136, 2140, 2148, 2152, 2156}

\* What a step at an address of the ROM does.
RomPc ==
    /\ cpu.pc \in Sequential => cpu'.pc = cpu.pc + 4
    /\ cpu.pc = 2048 => cpu'.pc = 2060
    /\ cpu.pc = 2056 => cpu'.pc = 2112
    /\ cpu.pc = 2084 => cpu'.pc = IF cpu.regs["s0"] # 0 THEN 2124 ELSE 2088
    /\ cpu.pc = 2100 => cpu'.pc = IF cpu.regs["s0"] # 0 THEN 2148 ELSE 2104
    /\ cpu.pc = 2108 => cpu'.pc = 2068
    /\ cpu.pc = 2120 => cpu'.pc = 2048
    /\ cpu.pc = 2144 => cpu'.pc = 768

RomS0 ==
    /\ cpu.pc \in {2068, 2088, 2124, 2148} => cpu'.regs["s0"] = 0
    /\ cpu.pc \in {2076, 2092} => cpu'.regs["s0"] = FlagsByte(dm)
    /\ cpu.pc = 2080 => cpu'.regs["s0"] = FlagBit(cpu.regs["s0"], "GO")
    /\ cpu.pc = 2096 => cpu'.regs["s0"] = FlagBit(cpu.regs["s0"], "RESUME")
    /\ cpu.pc \in {2112, 2132, 2156} => cpu'.regs["s0"] = cpu.dscratch0
    /\ cpu.pc \notin {2068, 2088, 2124, 2148, 2076, 2092, 2080, 2096, 2112, 2132, 2156}
          => cpu'.regs["s0"] = cpu.regs["s0"]

RomStores ==
    /\ cpu.pc = 2072 => dm' = NoteHalted(dm)
    /\ cpu.pc = 2116 => dm' = NoteException(dm)
    /\ cpu.pc = 2128 => dm' = NoteGoing(dm)
    /\ cpu.pc = 2152 => dm' = NoteResuming(dm)
    /\ cpu.pc \notin {2072, 2116, 2128, 2152} => dm' = dm

InSession == cpu.debug_mode /\ cpu.single_step = 0

\* The instructions the words of the ROM stand for.
LEMMA RomInstructions ==
    /\ nop \in Instruction /\ ebreak \in Instruction
    /\ \A to \in Address : jal(to) \in Instruction
    /\ \A v \in Value : SetS0(v) \in Instruction
    /\ \A v \in Value : [op |-> "csr", csr |-> "dscratch0", val |-> v, len |-> 4] \in Instruction
  BY DEF nop, ebreak, jal, SetS0, Instruction, CsrWrite, Reg

LEMMA RomValues ==
    ASSUME NEW v \in Nat, dm.debug_rom_flags \in SUBSET {"GO", "RESUME"}
    PROVE  /\ 0 \in Value /\ FlagsByte(dm) \in Value
           /\ FlagBit(v, "GO") \in Value /\ FlagBit(v, "RESUME") \in Value
<1>1. FlagsByte(dm) \in 0..3
  BY DEF FlagsByte
<1>2. FlagBit(v, "GO") \in 0..1 /\ FlagBit(v, "RESUME") \in 0..2
  BY DEF FlagBit
<1> QED
  BY <1>1, <1>2, Constants

LEMMA RomAddresses ==
    \A p \in Handshake \cup {768, 2160} : p \in DebugAddress /\ p \in Address
<1>1. \A i \in 1..29 : 2044 + 4 * i \in RomAddress
  BY RomLength DEF RomAddress, DEBUG_ROM_ENTRY
<1>2. \A p \in Handshake \cup {2160} : \E i \in 1..29 : p = 2044 + 4 * i
  <2>1. \A p \in Handshake \cup {2160} : (p - 2044) \div 4 \in 1..29
                                          /\ p = 2044 + 4 * ((p - 2044) \div 4)
    BY DEF Handshake, Entering, ParkLoop, Exception, Launching, Leaving
  <2> QED
    BY <2>1
<1>3. \A p \in Handshake \cup {768, 2160} : p \in DebugAddress
  BY <1>1, <1>2 DEF DebugAddress, DEBUG_ROM_WHERETO
<1> QED
  <2>1. DebugAddress \subseteq Address
    BY Constants
  <2> QED
    BY <1>3, <2>1

KeepsAccount ==
    /\ ghost'.s0 = ghost.s0 /\ ghost'.command = ghost.command
    /\ ghost'.entered = ghost.entered /\ ghost'.faulted = ghost.faulted

LEMMA RomStep ==
    ASSUME cpu \in HartState, dm.dmdata \in Value, dm.debug_rom_flags \in SUBSET {"GO", "RESUME"},
           ghost \in Ghost, InSession, cpu.pc \in Handshake, CoreStep
    PROVE  /\ cpu' \in HartState
           /\ Moves(cpu, cpu', cpu'.pc)
           /\ cpu'.regs["s1"] = cpu.regs["s1"]
           /\ cpu'.dpc = cpu.dpc /\ cpu'.dcsr = cpu.dcsr
           /\ cpu'.dscratch0 = IF cpu.pc = 2064 THEN cpu.regs["s0"] ELSE cpu.dscratch0
           /\ RomPc /\ RomS0 /\ RomStores
           /\ accessed' = "none"
           /\ ghost' \in Ghost /\ ghost'.stepping = "free"
           /\ ghost'.resuming = (ghost.resuming /\ cpu.pc # 2152)
           /\ KeepsAccount
<1> DEFINE word == FetchDebug(cpu, dm)
           inst == Resolve(word, cpu, dm)
           Done == /\ cpu' \in HartState
                   /\ Moves(cpu, cpu', cpu'.pc)
                   /\ cpu'.regs["s1"] = cpu.regs["s1"]
                   /\ cpu'.dpc = cpu.dpc /\ cpu'.dcsr = cpu.dcsr
                   /\ cpu'.dscratch0 = IF cpu.pc = 2064 THEN cpu.regs["s0"] ELSE cpu.dscratch0
                   /\ RomPc /\ RomS0 /\ RomStores
                   /\ accessed' = "none"
                   /\ ghost' \in Ghost /\ ghost'.stepping = "free"
                   /\ ghost'.resuming = (ghost.resuming /\ cpu.pc # 2152)
                   /\ KeepsAccount
<1>1. cpu.pc \in DebugAddress
  BY RomAddresses
<1>2. /\ FallsThrough(inst) => cpu.pc + inst.len \in Address
      /\ cpu' = StepEffect(cpu, inst)
      /\ dm' = HartStore(dm, word, cpu)
      /\ accessed' = "none"
      /\ inst \in Instruction => ghost' \in Ghost
      /\ ghost'.command = ghost.command
      /\ word.op # "lw_data" => ghost'.s0 = ghost.s0
      /\ cpu.pc # 768 => ghost'.entered = ghost.entered
      /\ inst.op # "fault" => ghost'.faulted = ghost.faulted
      /\ ghost'.resuming = (ghost.resuming /\ word # store("RESUMING"))
      /\ inst.op # "dret" => ghost'.stepping = "free"
  BY <1>1, FetchedWord DEF InSession, Ghost
<1>3. BeginStep(cpu) = cpu
  BY DEF BeginStep, InSession
<1>4. ASSUME inst \in Instruction
      PROVE  cpu' \in HartState /\ Effect(cpu, inst, cpu')
  BY <1>2, <1>3, <1>4, StepEffectType, InstructionEffect DEF Fetchable, InSession
<1>5. cpu.regs["s0"] \in Value /\ cpu.regs["s0"] \in Nat /\ cpu.dscratch0 \in Value
  BY Constants DEF HartState, Reg
<1>6. CASE cpu.pc \in {2060, 2104, 2136, 2140}
  <2>1. word = nop
    BY <1>6, RomFetch
  <2>2. inst = nop
    BY <2>1 DEF Resolve, nop, store, ebreak
  <2>3. inst \in Instruction
    BY <2>2, RomInstructions
  <2> HIDE DEF word, inst
  <2>4. Moves(cpu, cpu', cpu.pc + 4) /\ Keeps(cpu, cpu')
    BY <1>4, <2>2, <2>3 DEF Effect, nop, ebreak
  <2>5. RomStores
    BY <1>2, <1>6, <2>1 DEF RomStores, HartStore, store, nop, ebreak
  <2>6. ghost' \in Ghost /\ ghost'.stepping = "free" /\ KeepsAccount
        /\ ghost'.resuming = (ghost.resuming /\ cpu.pc # 2152)
    BY <1>2, <1>6, <2>1, <2>2, <2>3 DEF KeepsAccount, store, nop, ebreak, SetS0, jal, nop
  <2> QED
    BY <1>2, <1>4, <1>5, <1>6, <2>2, <2>3, <2>4, <2>5, <2>6
    DEF RomPc, Sequential, RomS0, Moves, Keeps, KeepsRegs, KeepsCsrs, SetS0, HartState, Reg
<1>7. CASE cpu.pc = 2048
  <2>1. word = jal(2060)
    BY <1>7, RomFetch
  <2>2. inst = jal(2060)
    BY <2>1 DEF Resolve, jal
  <2>3. inst \in Instruction
    BY <2>2, RomInstructions, RomAddresses DEF Handshake, Entering, ParkLoop, Exception, Launching, Leaving
  <2> HIDE DEF word, inst
  <2>4. Moves(cpu, cpu', 2060) /\ Keeps(cpu, cpu')
    BY <1>4, <2>2, <2>3 DEF Effect, jal
  <2>5. RomStores
    BY <1>2, <1>7, <2>1 DEF RomStores, HartStore, store, jal
  <2>6. ghost' \in Ghost /\ ghost'.stepping = "free" /\ KeepsAccount
        /\ ghost'.resuming = (ghost.resuming /\ cpu.pc # 2152)
    BY <1>2, <1>7, <2>1, <2>2, <2>3 DEF KeepsAccount, store, jal, SetS0, jal, nop
  <2> QED
    BY <1>2, <1>4, <1>5, <1>7, <2>2, <2>3, <2>4, <2>5, <2>6
    DEF RomPc, Sequential, RomS0, Moves, Keeps, KeepsRegs, KeepsCsrs, SetS0, HartState, Reg
<1>8. CASE cpu.pc = 2056
  <2>1. word = jal(2112)
    BY <1>8, RomFetch
  <2>2. inst = jal(2112)
    BY <2>1 DEF Resolve, jal
  <2>3. inst \in Instruction
    BY <2>2, RomInstructions, RomAddresses DEF Handshake, Entering, ParkLoop, Exception, Launching, Leaving
  <2> HIDE DEF word, inst
  <2>4. Moves(cpu, cpu', 2112) /\ Keeps(cpu, cpu')
    BY <1>4, <2>2, <2>3 DEF Effect, jal
  <2>5. RomStores
    BY <1>2, <1>8, <2>1 DEF RomStores, HartStore, store, jal
  <2>6. ghost' \in Ghost /\ ghost'.stepping = "free" /\ KeepsAccount
        /\ ghost'.resuming = (ghost.resuming /\ cpu.pc # 2152)
    BY <1>2, <1>8, <2>1, <2>2, <2>3 DEF KeepsAccount, store, jal, SetS0, jal, nop
  <2> QED
    BY <1>2, <1>4, <1>5, <1>8, <2>2, <2>3, <2>4, <2>5, <2>6
    DEF RomPc, Sequential, RomS0, Moves, Keeps, KeepsRegs, KeepsCsrs, SetS0, HartState, Reg
<1>9. CASE cpu.pc = 2108
  <2>1. word = jal(2068)
    BY <1>9, RomFetch
  <2>2. inst = jal(2068)
    BY <2>1 DEF Resolve, jal
  <2>3. inst \in Instruction
    BY <2>2, RomInstructions, RomAddresses DEF Handshake, Entering, ParkLoop, Exception, Launching, Leaving
  <2> HIDE DEF word, inst
  <2>4. Moves(cpu, cpu', 2068) /\ Keeps(cpu, cpu')
    BY <1>4, <2>2, <2>3 DEF Effect, jal
  <2>5. RomStores
    BY <1>2, <1>9, <2>1 DEF RomStores, HartStore, store, jal
  <2>6. ghost' \in Ghost /\ ghost'.stepping = "free" /\ KeepsAccount
        /\ ghost'.resuming = (ghost.resuming /\ cpu.pc # 2152)
    BY <1>2, <1>9, <2>1, <2>2, <2>3 DEF KeepsAccount, store, jal, SetS0, jal, nop
  <2> QED
    BY <1>2, <1>4, <1>5, <1>9, <2>2, <2>3, <2>4, <2>5, <2>6
    DEF RomPc, Sequential, RomS0, Moves, Keeps, KeepsRegs, KeepsCsrs, SetS0, HartState, Reg
<1>10. CASE cpu.pc = 2144
  <2>1. word = jal(768)
    BY <1>10, RomFetch
  <2>2. inst = jal(768)
    BY <2>1 DEF Resolve, jal
  <2>3. inst \in Instruction
    BY <2>2, RomInstructions, RomAddresses DEF Handshake, Entering, ParkLoop, Exception, Launching, Leaving
  <2> HIDE DEF word, inst
  <2>4. Moves(cpu, cpu', 768) /\ Keeps(cpu, cpu')
    BY <1>4, <2>2, <2>3 DEF Effect, jal
  <2>5. RomStores
    BY <1>2, <1>10, <2>1 DEF RomStores, HartStore, store, jal
  <2>6. ghost' \in Ghost /\ ghost'.stepping = "free" /\ KeepsAccount
        /\ ghost'.resuming = (ghost.resuming /\ cpu.pc # 2152)
    BY <1>2, <1>10, <2>1, <2>2, <2>3 DEF KeepsAccount, store, jal, SetS0, jal, nop
  <2> QED
    BY <1>2, <1>4, <1>5, <1>10, <2>2, <2>3, <2>4, <2>5, <2>6
    DEF RomPc, Sequential, RomS0, Moves, Keeps, KeepsRegs, KeepsCsrs, SetS0, HartState, Reg
<1>11. CASE cpu.pc = 2064
  <2>1. word = csrw_s0("dscratch0")
    BY <1>11, RomFetch
  <2>2. inst = [op |-> "csr", csr |-> "dscratch0", val |-> cpu.regs["s0"], len |-> 4]
    BY <2>1 DEF Resolve, csrw_s0, CsrValue
  <2>3. inst \in Instruction
    BY <2>2, RomInstructions, <1>5
  <2> HIDE DEF word, inst
  <2>4. Moves(cpu, cpu', cpu.pc + 4) /\ KeepsRegs(cpu, cpu') /\ cpu'.dpc = cpu.dpc
        /\ cpu'.dcsr = cpu.dcsr /\ cpu'.dscratch0 = inst.val
    BY <1>4, <2>2, <2>3 DEF Effect
  <2>5. RomStores
    BY <1>2, <1>11, <2>1 DEF RomStores, HartStore, store, csrw_s0
  <2>6. ghost' \in Ghost /\ ghost'.stepping = "free" /\ KeepsAccount
        /\ ghost'.resuming = (ghost.resuming /\ cpu.pc # 2152)
    BY <1>2, <1>11, <2>1, <2>2, <2>3 DEF KeepsAccount, store, csrw_s0, SetS0, jal, nop
  <2> QED
    BY <1>2, <1>4, <1>5, <1>11, <2>2, <2>3, <2>4, <2>5, <2>6
    DEF RomPc, Sequential, RomS0, Moves, Keeps, KeepsRegs, KeepsCsrs, SetS0, HartState, Reg
<1>12. CASE cpu.pc \in {2068, 2088, 2124, 2148}
  <2>1. word = mhartid_s0
    BY <1>12, RomFetch
  <2>2. inst = SetS0(0)
    BY <2>1 DEF Resolve, mhartid_s0, lbu_flags, andi_s0, csrr_s0, CsrWord
  <2>3. inst \in Instruction
    BY <2>2, RomInstructions, RomValues, <1>5
  <2> HIDE DEF word, inst
  <2>4. Moves(cpu, cpu', cpu.pc + 4) /\ KeepsCsrs(cpu, cpu')
        /\ cpu'.regs = [cpu.regs EXCEPT !["s0"] = inst.val]
    BY <1>4, <2>2, <2>3 DEF Effect, SetS0
  <2>5. RomStores
    BY <1>2, <1>12, <2>1 DEF RomStores, HartStore, store, mhartid_s0, lbu_flags, andi_s0, csrr_s0
  <2>6. ghost' \in Ghost /\ ghost'.stepping = "free" /\ KeepsAccount
        /\ ghost'.resuming = (ghost.resuming /\ cpu.pc # 2152)
    BY <1>2, <1>12, <2>1, <2>2, <2>3 DEF KeepsAccount, store, mhartid_s0, lbu_flags, andi_s0, csrr_s0, SetS0, jal, nop
  <2> QED
    BY <1>2, <1>4, <1>5, <1>12, <2>2, <2>3, <2>4, <2>5, <2>6
    DEF RomPc, Sequential, RomS0, Moves, Keeps, KeepsRegs, KeepsCsrs, SetS0, HartState, Reg
<1>13. CASE cpu.pc \in {2076, 2092}
  <2>1. word = lbu_flags
    BY <1>13, RomFetch
  <2>2. inst = SetS0(FlagsByte(dm))
    BY <2>1 DEF Resolve, mhartid_s0, lbu_flags, andi_s0, csrr_s0, CsrWord
  <2>3. inst \in Instruction
    BY <2>2, RomInstructions, RomValues, <1>5
  <2> HIDE DEF word, inst
  <2>4. Moves(cpu, cpu', cpu.pc + 4) /\ KeepsCsrs(cpu, cpu')
        /\ cpu'.regs = [cpu.regs EXCEPT !["s0"] = inst.val]
    BY <1>4, <2>2, <2>3 DEF Effect, SetS0
  <2>5. RomStores
    BY <1>2, <1>13, <2>1 DEF RomStores, HartStore, store, mhartid_s0, lbu_flags, andi_s0, csrr_s0
  <2>6. ghost' \in Ghost /\ ghost'.stepping = "free" /\ KeepsAccount
        /\ ghost'.resuming = (ghost.resuming /\ cpu.pc # 2152)
    BY <1>2, <1>13, <2>1, <2>2, <2>3 DEF KeepsAccount, store, mhartid_s0, lbu_flags, andi_s0, csrr_s0, SetS0, jal, nop
  <2> QED
    BY <1>2, <1>4, <1>5, <1>13, <2>2, <2>3, <2>4, <2>5, <2>6
    DEF RomPc, Sequential, RomS0, Moves, Keeps, KeepsRegs, KeepsCsrs, SetS0, HartState, Reg
<1>14. CASE cpu.pc = 2080
  <2>1. word = andi_s0("GO")
    BY <1>14, RomFetch
  <2>2. inst = SetS0(FlagBit(cpu.regs["s0"], "GO"))
    BY <2>1 DEF Resolve, mhartid_s0, lbu_flags, andi_s0, csrr_s0, CsrWord
  <2>3. inst \in Instruction
    BY <2>2, RomInstructions, RomValues, <1>5
  <2> HIDE DEF word, inst
  <2>4. Moves(cpu, cpu', cpu.pc + 4) /\ KeepsCsrs(cpu, cpu')
        /\ cpu'.regs = [cpu.regs EXCEPT !["s0"] = inst.val]
    BY <1>4, <2>2, <2>3 DEF Effect, SetS0
  <2>5. RomStores
    BY <1>2, <1>14, <2>1 DEF RomStores, HartStore, store, mhartid_s0, lbu_flags, andi_s0, csrr_s0
  <2>6. ghost' \in Ghost /\ ghost'.stepping = "free" /\ KeepsAccount
        /\ ghost'.resuming = (ghost.resuming /\ cpu.pc # 2152)
    BY <1>2, <1>14, <2>1, <2>2, <2>3 DEF KeepsAccount, store, mhartid_s0, lbu_flags, andi_s0, csrr_s0, SetS0, jal, nop
  <2> QED
    BY <1>2, <1>4, <1>5, <1>14, <2>2, <2>3, <2>4, <2>5, <2>6
    DEF RomPc, Sequential, RomS0, Moves, Keeps, KeepsRegs, KeepsCsrs, SetS0, HartState, Reg
<1>15. CASE cpu.pc = 2096
  <2>1. word = andi_s0("RESUME")
    BY <1>15, RomFetch
  <2>2. inst = SetS0(FlagBit(cpu.regs["s0"], "RESUME"))
    BY <2>1 DEF Resolve, mhartid_s0, lbu_flags, andi_s0, csrr_s0, CsrWord
  <2>3. inst \in Instruction
    BY <2>2, RomInstructions, RomValues, <1>5
  <2> HIDE DEF word, inst
  <2>4. Moves(cpu, cpu', cpu.pc + 4) /\ KeepsCsrs(cpu, cpu')
        /\ cpu'.regs = [cpu.regs EXCEPT !["s0"] = inst.val]
    BY <1>4, <2>2, <2>3 DEF Effect, SetS0
  <2>5. RomStores
    BY <1>2, <1>15, <2>1 DEF RomStores, HartStore, store, mhartid_s0, lbu_flags, andi_s0, csrr_s0
  <2>6. ghost' \in Ghost /\ ghost'.stepping = "free" /\ KeepsAccount
        /\ ghost'.resuming = (ghost.resuming /\ cpu.pc # 2152)
    BY <1>2, <1>15, <2>1, <2>2, <2>3 DEF KeepsAccount, store, mhartid_s0, lbu_flags, andi_s0, csrr_s0, SetS0, jal, nop
  <2> QED
    BY <1>2, <1>4, <1>5, <1>15, <2>2, <2>3, <2>4, <2>5, <2>6
    DEF RomPc, Sequential, RomS0, Moves, Keeps, KeepsRegs, KeepsCsrs, SetS0, HartState, Reg
<1>16. CASE cpu.pc \in {2112, 2132, 2156}
  <2>1. word = csrr_s0("dscratch0")
    BY <1>16, RomFetch
  <2>2. inst = SetS0(cpu.dscratch0)
    BY <2>1 DEF Resolve, mhartid_s0, lbu_flags, andi_s0, csrr_s0, CsrWord
  <2>3. inst \in Instruction
    BY <2>2, RomInstructions, RomValues, <1>5
  <2> HIDE DEF word, inst
  <2>4. Moves(cpu, cpu', cpu.pc + 4) /\ KeepsCsrs(cpu, cpu')
        /\ cpu'.regs = [cpu.regs EXCEPT !["s0"] = inst.val]
    BY <1>4, <2>2, <2>3 DEF Effect, SetS0
  <2>5. RomStores
    BY <1>2, <1>16, <2>1 DEF RomStores, HartStore, store, mhartid_s0, lbu_flags, andi_s0, csrr_s0
  <2>6. ghost' \in Ghost /\ ghost'.stepping = "free" /\ KeepsAccount
        /\ ghost'.resuming = (ghost.resuming /\ cpu.pc # 2152)
    BY <1>2, <1>16, <2>1, <2>2, <2>3 DEF KeepsAccount, store, mhartid_s0, lbu_flags, andi_s0, csrr_s0, SetS0, jal, nop
  <2> QED
    BY <1>2, <1>4, <1>5, <1>16, <2>2, <2>3, <2>4, <2>5, <2>6
    DEF RomPc, Sequential, RomS0, Moves, Keeps, KeepsRegs, KeepsCsrs, SetS0, HartState, Reg
<1>17. CASE cpu.pc = 2084
  <2>1. word = bnez_s0(2124)
    BY <1>17, RomFetch
  <2>2. inst = IF cpu.regs["s0"] # 0 THEN jal(2124) ELSE nop
    BY <2>1 DEF Resolve, bnez_s0
  <2>3. inst \in Instruction
    BY <2>2, RomInstructions, RomAddresses DEF Handshake, Entering, ParkLoop, Exception, Launching, Leaving
  <2> HIDE DEF word, inst
  <2>4. Moves(cpu, cpu', IF cpu.regs["s0"] # 0 THEN 2124 ELSE cpu.pc + 4) /\ Keeps(cpu, cpu')
    BY <1>4, <2>2, <2>3 DEF Effect, jal, nop
  <2>5. RomStores
    BY <1>2, <1>17, <2>1 DEF RomStores, HartStore, store, bnez_s0
  <2>6. ghost' \in Ghost /\ ghost'.stepping = "free" /\ KeepsAccount
        /\ ghost'.resuming = (ghost.resuming /\ cpu.pc # 2152)
    BY <1>2, <1>17, <2>1, <2>2, <2>3 DEF KeepsAccount, store, bnez_s0, SetS0, jal, nop
  <2> QED
    BY <1>2, <1>4, <1>5, <1>17, <2>2, <2>3, <2>4, <2>5, <2>6
    DEF RomPc, Sequential, RomS0, Moves, Keeps, KeepsRegs, KeepsCsrs, SetS0, HartState, Reg
<1>18. CASE cpu.pc = 2100
  <2>1. word = bnez_s0(2148)
    BY <1>18, RomFetch
  <2>2. inst = IF cpu.regs["s0"] # 0 THEN jal(2148) ELSE nop
    BY <2>1 DEF Resolve, bnez_s0
  <2>3. inst \in Instruction
    BY <2>2, RomInstructions, RomAddresses DEF Handshake, Entering, ParkLoop, Exception, Launching, Leaving
  <2> HIDE DEF word, inst
  <2>4. Moves(cpu, cpu', IF cpu.regs["s0"] # 0 THEN 2148 ELSE cpu.pc + 4) /\ Keeps(cpu, cpu')
    BY <1>4, <2>2, <2>3 DEF Effect, jal, nop
  <2>5. RomStores
    BY <1>2, <1>18, <2>1 DEF RomStores, HartStore, store, bnez_s0
  <2>6. ghost' \in Ghost /\ ghost'.stepping = "free" /\ KeepsAccount
        /\ ghost'.resuming = (ghost.resuming /\ cpu.pc # 2152)
    BY <1>2, <1>18, <2>1, <2>2, <2>3 DEF KeepsAccount, store, bnez_s0, SetS0, jal, nop
  <2> QED
    BY <1>2, <1>4, <1>5, <1>18, <2>2, <2>3, <2>4, <2>5, <2>6
    DEF RomPc, Sequential, RomS0, Moves, Keeps, KeepsRegs, KeepsCsrs, SetS0, HartState, Reg
<1>19. CASE cpu.pc = 2072
  <2>1. word = store("HALTED")
    BY <1>19, RomFetch
  <2>2. inst = nop
    BY <2>1 DEF Resolve, nop, store, ebreak
  <2>3. inst \in Instruction
    BY <2>2, RomInstructions
  <2> HIDE DEF word, inst
  <2>4. Moves(cpu, cpu', cpu.pc + 4) /\ Keeps(cpu, cpu')
    BY <1>4, <2>2, <2>3 DEF Effect, nop, ebreak
  <2>5. RomStores
    BY <1>2, <1>19, <2>1 DEF RomStores, HartStore, store, nop, ebreak
  <2>6. ghost' \in Ghost /\ ghost'.stepping = "free" /\ KeepsAccount
        /\ ghost'.resuming = (ghost.resuming /\ cpu.pc # 2152)
    BY <1>2, <1>19, <2>1, <2>2, <2>3 DEF KeepsAccount, store, nop, ebreak, SetS0, jal, nop
  <2> QED
    BY <1>2, <1>4, <1>5, <1>19, <2>2, <2>3, <2>4, <2>5, <2>6
    DEF RomPc, Sequential, RomS0, Moves, Keeps, KeepsRegs, KeepsCsrs, SetS0, HartState, Reg
<1>20. CASE cpu.pc = 2116
  <2>1. word = store("EXCEPTION")
    BY <1>20, RomFetch
  <2>2. inst = nop
    BY <2>1 DEF Resolve, nop, store, ebreak
  <2>3. inst \in Instruction
    BY <2>2, RomInstructions
  <2> HIDE DEF word, inst
  <2>4. Moves(cpu, cpu', cpu.pc + 4) /\ Keeps(cpu, cpu')
    BY <1>4, <2>2, <2>3 DEF Effect, nop, ebreak
  <2>5. RomStores
    BY <1>2, <1>20, <2>1 DEF RomStores, HartStore, store, nop, ebreak
  <2>6. ghost' \in Ghost /\ ghost'.stepping = "free" /\ KeepsAccount
        /\ ghost'.resuming = (ghost.resuming /\ cpu.pc # 2152)
    BY <1>2, <1>20, <2>1, <2>2, <2>3 DEF KeepsAccount, store, nop, ebreak, SetS0, jal, nop
  <2> QED
    BY <1>2, <1>4, <1>5, <1>20, <2>2, <2>3, <2>4, <2>5, <2>6
    DEF RomPc, Sequential, RomS0, Moves, Keeps, KeepsRegs, KeepsCsrs, SetS0, HartState, Reg
<1>21. CASE cpu.pc = 2128
  <2>1. word = store("GOING")
    BY <1>21, RomFetch
  <2>2. inst = nop
    BY <2>1 DEF Resolve, nop, store, ebreak
  <2>3. inst \in Instruction
    BY <2>2, RomInstructions
  <2> HIDE DEF word, inst
  <2>4. Moves(cpu, cpu', cpu.pc + 4) /\ Keeps(cpu, cpu')
    BY <1>4, <2>2, <2>3 DEF Effect, nop, ebreak
  <2>5. RomStores
    BY <1>2, <1>21, <2>1 DEF RomStores, HartStore, store, nop, ebreak
  <2>6. ghost' \in Ghost /\ ghost'.stepping = "free" /\ KeepsAccount
        /\ ghost'.resuming = (ghost.resuming /\ cpu.pc # 2152)
    BY <1>2, <1>21, <2>1, <2>2, <2>3 DEF KeepsAccount, store, nop, ebreak, SetS0, jal, nop
  <2> QED
    BY <1>2, <1>4, <1>5, <1>21, <2>2, <2>3, <2>4, <2>5, <2>6
    DEF RomPc, Sequential, RomS0, Moves, Keeps, KeepsRegs, KeepsCsrs, SetS0, HartState, Reg
<1>22. CASE cpu.pc = 2152
  <2>1. word = store("RESUMING")
    BY <1>22, RomFetch
  <2>2. inst = nop
    BY <2>1 DEF Resolve, nop, store, ebreak
  <2>3. inst \in Instruction
    BY <2>2, RomInstructions
  <2> HIDE DEF word, inst
  <2>4. Moves(cpu, cpu', cpu.pc + 4) /\ Keeps(cpu, cpu')
    BY <1>4, <2>2, <2>3 DEF Effect, nop, ebreak
  <2>5. RomStores
    BY <1>2, <1>22, <2>1 DEF RomStores, HartStore, store, nop, ebreak
  <2>6. ghost' \in Ghost /\ ghost'.stepping = "free" /\ KeepsAccount
        /\ ghost'.resuming = (ghost.resuming /\ cpu.pc # 2152)
    BY <1>2, <1>22, <2>1, <2>2, <2>3 DEF KeepsAccount, store, nop, ebreak, SetS0, jal, nop
  <2> QED
    BY <1>2, <1>4, <1>5, <1>22, <2>2, <2>3, <2>4, <2>5, <2>6
    DEF RomPc, Sequential, RomS0, Moves, Keeps, KeepsRegs, KeepsCsrs, SetS0, HartState, Reg
<1>23. CASE cpu.pc = 2120
  <2>1. word = ebreak
    BY <1>23, RomFetch
  <2>2. inst = ebreak
    BY <2>1 DEF Resolve, nop, store, ebreak
  <2>3. inst \in Instruction
    BY <2>2, RomInstructions
  <2> HIDE DEF word, inst
  <2>4. Moves(cpu, cpu', 2048) /\ Keeps(cpu, cpu')
    BY <1>4, <2>2, <2>3 DEF Effect, nop, ebreak
  <2>5. RomStores
    BY <1>2, <1>23, <2>1 DEF RomStores, HartStore, store, nop, ebreak
  <2>6. ghost' \in Ghost /\ ghost'.stepping = "free" /\ KeepsAccount
        /\ ghost'.resuming = (ghost.resuming /\ cpu.pc # 2152)
    BY <1>2, <1>23, <2>1, <2>2, <2>3 DEF KeepsAccount, store, nop, ebreak, SetS0, jal, nop
  <2> QED
    BY <1>2, <1>4, <1>5, <1>23, <2>2, <2>3, <2>4, <2>5, <2>6
    DEF RomPc, Sequential, RomS0, Moves, Keeps, KeepsRegs, KeepsCsrs, SetS0, HartState, Reg
<1> QED
  BY <1>6, <1>7, <1>8, <1>9, <1>10, <1>11, <1>12, <1>13, <1>14, <1>15, <1>16, <1>17, <1>18, <1>19, <1>20, <1>21, <1>22, <1>23
  DEF Handshake, Entering, ParkLoop, Exception, Launching, Leaving

-----------------------------------------------------------------------------
(* The code of a command and the program buffer.                           *)

LEMMA AssembledFetch ==
    ASSUME NEW c, NEW d, NEW i \in 1..5, c.pc = 784 + 4 * i
    PROVE  c.pc \in DebugAddress /\ FetchDebug(c, d) = d.debug_abstract[i]
<1>1. c.pc \in AbstractAddress
  <2>1. i - 1 \in 0..11 /\ c.pc = 788 + 4 * (i - 1)
    OBVIOUS
  <2> QED
    BY <2>1 DEF AbstractAddress, debug_abstract_start
<1>2. c.pc \notin RomAddress /\ c.pc # DEBUG_ROM_WHERETO
  BY RomLength DEF RomAddress, DEBUG_ROM_ENTRY, DEBUG_ROM_WHERETO
<1>3. (c.pc - debug_abstract_start) \div 4 + 1 = i
  BY DEF debug_abstract_start
<1> QED
  BY <1>1, <1>2, <1>3 DEF DebugAddress, FetchDebug

\* A word of the program buffer, or the word after it.
LEMMA BufferedFetch ==
    ASSUME NEW c, NEW d, c.pc \in Buffered
    PROVE  /\ c.pc \in DebugAddress
           /\ \/ /\ c.pc \in ProgBufAddress
                 /\ \E i \in 1..ProgBufSize : FetchDebug(c, d) = d.program_buffer[i]
              \/ FetchDebug(c, d) = [op |-> "fault", code |-> EXC_II]
<1>1. ProgBufSize \in 1..15
  BY Constants
<1>2. c.pc \in 836..896 /\ c.pc \in DebugAddress
  BY <1>1 DEF Buffered, ProgBufAddress, debug_progbuf_start, DebugAddress
<1>3. c.pc \notin RomAddress /\ c.pc # DEBUG_ROM_WHERETO /\ c.pc \notin AbstractAddress
  BY <1>2, RomLength
  DEF RomAddress, DEBUG_ROM_ENTRY, DEBUG_ROM_WHERETO, AbstractAddress, debug_abstract_start
<1>4. CASE c.pc \in ProgBufAddress
  <2>1. PICK i \in 0 .. ProgBufSize - 1 : c.pc = 836 + 4 * i
    BY <1>4 DEF ProgBufAddress, debug_progbuf_start
  <2>2. (c.pc - debug_progbuf_start) \div 4 + 1 = i + 1 /\ i + 1 \in 1..ProgBufSize
    BY <1>1, <2>1 DEF debug_progbuf_start
  <2>3. FetchDebug(c, d) = d.program_buffer[i + 1]
    BY <1>3, <1>4, <2>2 DEF FetchDebug
  <2> QED
    BY <1>2, <1>4, <2>2, <2>3
<1>5. CASE c.pc \notin ProgBufAddress
  BY <1>2, <1>3, <1>5 DEF FetchDebug
<1> QED
  BY <1>4, <1>5

LEMMA ProgBufNext ==
    ASSUME NEW p \in ProgBufAddress
    PROVE  p + 4 \in Buffered
<1>1. PICK i \in 0 .. ProgBufSize - 1 : p = 836 + 4 * i
  BY DEF ProgBufAddress, debug_progbuf_start
<1>2. CASE i = ProgBufSize - 1
  BY <1>1, <1>2, Constants DEF Buffered, debug_progbuf_start
<1>3. CASE i # ProgBufSize - 1
  <2>1. i + 1 \in 0 .. ProgBufSize - 1 /\ p + 4 = 836 + 4 * (i + 1)
    BY <1>1, <1>3, Constants
  <2> QED
    BY <2>1 DEF Buffered, ProgBufAddress, debug_progbuf_start
<1> QED
  BY <1>2, <1>3

LEMMA ProgBufStart == debug_progbuf_start \in ProgBufAddress /\ 836 \in Buffered /\ 836 \in Address
<1>1. 0 \in 0 .. ProgBufSize - 1 /\ 836 = 836 + 4 * 0
  BY Constants
<1>2. 836 \in ProgBufAddress
  BY <1>1 DEF ProgBufAddress, debug_progbuf_start
<1>3. 836 \in Address
  <2>1. 836 \in DebugAddress
    BY <1>2 DEF DebugAddress
  <2> QED
    BY <2>1, Constants
<1> QED
  BY <1>2, <1>3 DEF Buffered, debug_progbuf_start

LEMMA BufferWords ==
    ASSUME NEW word \in BufferWord
    PROVE  word \in Instruction /\ Confined(word)
<1>1. Unwritten \in Instruction /\ Confined(Unwritten)
  BY DEF Unwritten, Instruction, CsrWrite, ExceptionCode, EXC_II, Confined
<1>2. ProgBufWord \subseteq { w \in Instruction : Confined(w) }
  BY DebugSystemAssumption
<1> QED
  BY <1>1, <1>2 DEF BufferWord

\* A step in the program buffer stays there, or ends or faults.
LEMMA BufferedStep ==
    ASSUME cpu \in HartState, ghost \in Ghost, InSession, cpu.pc \in Buffered,
           \A i \in 1..ProgBufSize : dm.program_buffer[i] \in BufferWord, CoreStep
    PROVE  /\ cpu' \in HartState
           /\ \E word \in BufferWord :
                 /\ Effect(cpu, word, cpu')
                 /\ (cpu'.pc = 2056) = (word.op = "fault")
                 /\ ghost'.faulted = (ghost.faulted \/ word.op = "fault")
           /\ Moves(cpu, cpu', cpu'.pc)
           /\ cpu'.pc \in Buffered \cup {2048, 2056}
           /\ dm' = dm /\ accessed' = "none" /\ ghost' \in Ghost
           /\ ghost'.stepping = "free" /\ ghost'.resuming = ghost.resuming
           /\ ghost'.s0 = ghost.s0 /\ ghost'.command = ghost.command
           /\ ghost'.entered = ghost.entered
<1> DEFINE word == FetchDebug(cpu, dm)
           inst == Resolve(word, cpu, dm)
<1>1. /\ cpu.pc \in DebugAddress
      /\ word \in BufferWord
      /\ cpu.pc \in ProgBufAddress \/ word = Unwritten
  BY BufferedFetch DEF BufferWord, Unwritten
<1>2. word \in Instruction /\ Confined(word)
  BY <1>1, BufferWords
<1>3. cpu.pc # 768
  BY Constants DEF Buffered, ProgBufAddress, debug_progbuf_start
<1>4. /\ FallsThrough(inst) => cpu.pc + inst.len \in Address
      /\ cpu' = StepEffect(cpu, inst)
      /\ dm' = HartStore(dm, word, cpu)
      /\ accessed' = "none"
      /\ inst \in Instruction => ghost' \in Ghost
      /\ ghost'.command = ghost.command
      /\ word.op # "lw_data" => ghost'.s0 = ghost.s0
      /\ cpu.pc # 768 => ghost'.entered = ghost.entered
      /\ ghost'.faulted = (ghost.faulted \/ inst.op = "fault")
      /\ ghost'.resuming = (ghost.resuming /\ word # store("RESUMING"))
      /\ inst.op # "dret" => ghost'.stepping = "free"
  BY <1>1, FetchedWord DEF InSession, Ghost
<1>5. word.op \in {"alu", "set", "csr", "jump", "ebreak", "fault"}
  BY <1>2 DEF Confined
<1>6. inst = word
  BY <1>5 DEF Resolve
<1> HIDE DEF word, inst
<1>7. cpu' \in HartState /\ Effect(cpu, word, cpu')
  <2>1. BeginStep(cpu) = cpu
    BY DEF BeginStep, InSession
  <2> QED
    BY <1>2, <1>4, <1>6, <2>1, StepEffectType, InstructionEffect DEF Fetchable, InSession
<1>8. Moves(cpu, cpu', cpu'.pc) /\ cpu'.pc \in Buffered \cup {2048, 2056}
      /\ (cpu'.pc = 2056) = (word.op = "fault")
  <2>1. cpu.pc \in Nat /\ \A p \in Buffered : p # 2056
    BY Constants DEF Buffered, ProgBufAddress, debug_progbuf_start
  <2>2. CASE word.op = "fault"
    BY <1>7, <2>2 DEF Effect, Moves
  <2>3. CASE word.op = "ebreak"
    BY <1>7, <2>3 DEF Effect, Moves
  <2>4. CASE word.op = "jump"
    <3>1. word.to \in Buffered
      BY <1>2, <2>4 DEF Confined, Buffered
    <3> QED
      BY <1>7, <2>1, <2>4, <3>1 DEF Effect, Moves
  <2>5. CASE word.op \in {"alu", "set", "csr"}
    <3>1. word.len = 4
      BY <1>2, <2>5 DEF Confined, Instruction, CsrWrite
    <3>2. cpu.pc + 4 \in Buffered
      BY <1>1, <2>5, ProgBufNext DEF Unwritten
    <3>3. word.op = "csr" => word.csr # "mip"
      BY <1>2, <2>5 DEF Confined
    <3>4. Moves(cpu, cpu', cpu.pc + 4)
      BY <1>7, <2>5, <3>1, <3>3 DEF Effect
    <3> QED
      BY <2>1, <2>5, <3>2, <3>4 DEF Moves
  <2> QED
    BY <1>5, <2>2, <2>3, <2>4, <2>5
<1>9. dm' = dm
  BY <1>4, <1>5 DEF HartStore, store
<1>10. \E w \in BufferWord : /\ Effect(cpu, w, cpu')
                             /\ (cpu'.pc = 2056) = (w.op = "fault")
                             /\ ghost'.faulted = (ghost.faulted \/ w.op = "fault")
  BY <1>1, <1>4, <1>6, <1>7, <1>8
<1>11. /\ ghost' \in Ghost /\ ghost'.stepping = "free" /\ ghost'.resuming = ghost.resuming
       /\ ghost'.s0 = ghost.s0
  BY <1>2, <1>4, <1>5, <1>6 DEF store, Ghost
<1> QED
  BY <1>3, <1>4, <1>7, <1>8, <1>9, <1>10, <1>11

\* What a CSR instruction of an abstract command moves.
LEMMA CsrWordType ==
    ASSUME NEW c \in HartState, NEW csr \in CsrRegno
    PROVE  CsrWord(c, csr) \in Value
<1>1. CASE csr = "dcsr"
  <2>1. c.dcsr.cause \in 0..7 /\ c.dcsr.prv \in 0..3
    BY DEF HartState, DCsr, Privilege
  <2>2. CsrWord(c, csr) \in 0..511
    BY <1>1, <2>1 DEF CsrWord
  <2> QED
    BY <2>2, Constants
<1>2. CASE csr = "dpc"
  <2>1. CsrWord(c, csr) = c.dpc
    BY <1>2 DEF CsrWord
  <2>2. c.dpc \in Address
    BY DEF HartState
  <2> QED
    BY <2>1, <2>2, Constants
<1>3. CASE csr = "dscratch0"
  BY <1>3 DEF CsrWord, HartState
<1> QED
  BY <1>1, <1>2, <1>3 DEF CsrRegno

LEMMA CsrWriteType ==
    ASSUME NEW csr \in CsrRegno, NEW w \in Value, csr = "dpc" => Value \subseteq Address
    PROVE  [op |-> "csr", csr |-> csr, val |-> CsrValue(csr, w), len |-> 4] \in Instruction
<1>1. CASE csr = "dcsr"
  <2>1. w \in Nat
    BY Constants
  <2>2. (w \div 64) % 8 \in 0..7 /\ w % 4 \in 0..3
    BY <2>1
  <2>3. CsrValue(csr, w) \in DCsr
    BY <1>1, <2>2 DEF CsrValue, DCsr, Privilege
  <2> QED
    BY <1>1, <2>3 DEF Instruction, CsrWrite
<1>2. CASE csr = "dpc"
  BY <1>2 DEF CsrValue, Instruction, CsrWrite
<1>3. CASE csr = "dscratch0"
  BY <1>3 DEF CsrValue, Instruction, CsrWrite
<1> QED
  BY <1>1, <1>2, <1>3 DEF CsrRegno

\* The registers and the data word after a step that falls through.
Puts(regs, scratch, dpc, dcsr, data) ==
    /\ Moves(cpu, cpu', cpu.pc + 4)
    /\ cpu'.regs = regs /\ cpu'.dscratch0 = scratch /\ cpu'.dpc = dpc /\ cpu'.dcsr = dcsr
    /\ dm' = [dm EXCEPT !.dmdata = data] /\ dm'.dmdata = data

SetReg(reg, v) == [cpu.regs EXCEPT ![reg] = v]

\* The words abstract commands are assembled from, and the account of a step
\* that executes one.
CodeWord(word) ==
    /\ \A csr \in CsrRegno : word = csrw_s0(csr) =>
          Puts(cpu.regs,
               IF csr = "dscratch0" THEN cpu.regs["s0"] ELSE cpu.dscratch0,
               IF csr = "dpc" THEN cpu.regs["s0"] ELSE cpu.dpc,
               IF csr = "dcsr" THEN CsrValue("dcsr", cpu.regs["s0"]) ELSE cpu.dcsr, dm.dmdata)
    /\ \A csr \in CsrRegno : word = csrr_s0(csr) =>
          Puts(SetReg("s0", CsrWord(cpu, csr)), cpu.dscratch0, cpu.dpc, cpu.dcsr, dm.dmdata)
    /\ \A reg \in Reg : word = lw_data(reg) =>
          Puts(SetReg(reg, dm.dmdata), cpu.dscratch0, cpu.dpc, cpu.dcsr, dm.dmdata)
    /\ \A reg \in Reg : word = sw_data(reg) =>
          Puts(cpu.regs, cpu.dscratch0, cpu.dpc, cpu.dcsr, cpu.regs[reg])
    /\ word = jal(836) => Moves(cpu, cpu', 836) /\ Keeps(cpu, cpu') /\ dm' = dm
    /\ word = ebreak => Moves(cpu, cpu', 2048) /\ Keeps(cpu, cpu') /\ dm' = dm

CodeAccount(word) ==
    /\ ghost' \in Ghost /\ ghost'.stepping = "free" /\ ghost'.resuming = ghost.resuming
    /\ ghost'.command = ghost.command /\ ghost'.entered = ghost.entered
    /\ ghost'.faulted = ghost.faulted
    /\ ghost'.s0 = IF word = lw_data("s0") /\ ghost.command.regno = "s0" THEN dm.dmdata
                                                                         ELSE ghost.s0

IsCodeWord(word) ==
    \/ \E csr \in CsrRegno : word = csrw_s0(csr) /\ (csr = "dpc" => Value \subseteq Address)
    \/ \E csr \in CsrRegno : word = csrr_s0(csr)
    \/ \E reg \in Reg : word = lw_data(reg) \/ word = sw_data(reg)
    \/ word = jal(836)
    \/ word = ebreak

LEMMA CodeWordStep ==
    ASSUME cpu \in HartState, dm \in ModuleState, ghost \in Ghost, InSession,
           cpu.pc \in DebugAddress, cpu.pc # 768, NEW word, word = FetchDebug(cpu, dm),
           IsCodeWord(word), CoreStep
    PROVE  /\ cpu' \in HartState /\ accessed' = "none"
           /\ CodeWord(word) /\ CodeAccount(word)
<1> DEFINE inst == Resolve(word, cpu, dm)
<1>1. /\ FallsThrough(inst) => cpu.pc + inst.len \in Address
      /\ cpu' = StepEffect(cpu, inst)
      /\ dm' = HartStore(dm, word, cpu)
      /\ accessed' = "none"
      /\ inst \in Instruction => ghost' \in Ghost
      /\ ghost'.command = ghost.command
      /\ ghost'.s0 = IF inst.op = "set" /\ inst.reg = "s0" /\ word.op = "lw_data"
                          /\ ghost.command.regno = "s0"
                       THEN inst.val ELSE ghost.s0
      /\ ghost'.entered = ghost.entered
      /\ ghost'.faulted = (ghost.faulted \/ inst.op = "fault")
      /\ ghost'.resuming = (ghost.resuming /\ word # store("RESUMING"))
      /\ inst.op # "dret" => ghost'.stepping = "free"
  BY FetchedWord DEF InSession, Ghost
<1>2. BeginStep(cpu) = cpu
  BY DEF BeginStep, InSession
<1>3. ASSUME inst \in Instruction
      PROVE  cpu' \in HartState /\ Effect(cpu, inst, cpu')
  BY <1>1, <1>2, <1>3, StepEffectType, InstructionEffect DEF Fetchable, InSession
<1>4. /\ cpu.regs["s0"] \in Value /\ cpu.regs \in [Reg -> Value] /\ dm.dmdata \in Value
      /\ dm = [dm EXCEPT !.dmdata = dm.dmdata]
      /\ \A v : [dm EXCEPT !.dmdata = v].dmdata = v
      /\ ghost.faulted \in BOOLEAN /\ ghost.resuming \in BOOLEAN
  BY DEF HartState, ModuleState, Reg, Ghost
<1> DEFINE Done == cpu' \in HartState /\ CodeWord(word) /\ CodeAccount(word)
<1>5. ASSUME NEW csr \in CsrRegno, word = csrw_s0(csr), csr = "dpc" => Value \subseteq Address
      PROVE  Done
  <2>1. inst = [op |-> "csr", csr |-> csr, val |-> CsrValue(csr, cpu.regs["s0"]), len |-> 4]
    BY <1>5 DEF Resolve, csrw_s0
  <2>2. inst \in Instruction
    BY <1>4, <1>5, <2>1, CsrWriteType
  <2>3. dm' = dm
    BY <1>1, <1>5 DEF HartStore, csrw_s0, store
  <2> HIDE DEF inst
  <2>4. /\ Moves(cpu, cpu', cpu.pc + 4) /\ KeepsRegs(cpu, cpu')
        /\ cpu'.dscratch0 = IF csr = "dscratch0" THEN CsrValue(csr, cpu.regs["s0"]) ELSE cpu.dscratch0
        /\ cpu'.dpc = IF csr = "dpc" THEN CsrValue(csr, cpu.regs["s0"]) ELSE cpu.dpc
        /\ cpu'.dcsr = IF csr = "dcsr" THEN CsrValue(csr, cpu.regs["s0"]) ELSE cpu.dcsr
    BY <1>3, <2>1, <2>2 DEF Effect, CsrRegno
  <2>5. Puts(cpu.regs,
             IF csr = "dscratch0" THEN cpu.regs["s0"] ELSE cpu.dscratch0,
             IF csr = "dpc" THEN cpu.regs["s0"] ELSE cpu.dpc,
             IF csr = "dcsr" THEN CsrValue("dcsr", cpu.regs["s0"]) ELSE cpu.dcsr, dm.dmdata)
    BY <1>4, <2>3, <2>4 DEF Puts, KeepsRegs, CsrValue
  <2>6. CodeWord(word)
    BY <1>5, <2>5 DEF CodeWord, csrw_s0, csrr_s0, lw_data, sw_data, jal, ebreak
  <2>7. CodeAccount(word)
    BY <1>1, <1>4, <1>5, <2>1, <2>2 DEF CodeAccount, csrw_s0, lw_data, store
  <2> QED
    BY <1>3, <2>2, <2>6, <2>7
<1>6. ASSUME NEW csr \in CsrRegno, word = csrr_s0(csr)
      PROVE  Done
  <2>1. inst = SetS0(CsrWord(cpu, csr))
    BY <1>6 DEF Resolve, csrr_s0
  <2>2. inst \in Instruction
    BY <2>1, CsrWordType, RomInstructions
  <2>3. dm' = dm
    BY <1>1, <1>6 DEF HartStore, csrr_s0, store
  <2> HIDE DEF inst
  <2>4. Puts(SetReg("s0", CsrWord(cpu, csr)), cpu.dscratch0, cpu.dpc, cpu.dcsr, dm.dmdata)
    BY <1>3, <1>4, <2>1, <2>2, <2>3 DEF Effect, SetS0, Puts, SetReg, KeepsCsrs
  <2>5. CodeWord(word)
    BY <1>6, <2>4 DEF CodeWord, csrw_s0, csrr_s0, lw_data, sw_data, jal, ebreak
  <2>6. CodeAccount(word)
    BY <1>1, <1>4, <1>6, <2>1, <2>2 DEF CodeAccount, csrr_s0, lw_data, store, SetS0
  <2> QED
    BY <1>3, <2>2, <2>5, <2>6
<1>7. ASSUME NEW reg \in Reg, word = lw_data(reg)
      PROVE  Done
  <2>1. inst = [op |-> "set", reg |-> reg, val |-> dm.dmdata, len |-> 4]
    BY <1>7 DEF Resolve, lw_data
  <2>2. inst \in Instruction
    BY <1>4, <2>1 DEF Instruction
  <2>3. dm' = dm
    BY <1>1, <1>7 DEF HartStore, lw_data, store
  <2> HIDE DEF inst
  <2>4. Puts(SetReg(reg, dm.dmdata), cpu.dscratch0, cpu.dpc, cpu.dcsr, dm.dmdata)
    BY <1>3, <1>4, <2>1, <2>2, <2>3 DEF Effect, Puts, SetReg, KeepsCsrs
  <2>5. CodeWord(word)
    BY <1>7, <2>4 DEF CodeWord, csrw_s0, csrr_s0, lw_data, sw_data, jal, ebreak
  <2>6. CodeAccount(word)
    BY <1>1, <1>4, <1>7, <2>1, <2>2 DEF CodeAccount, lw_data, store
  <2> QED
    BY <1>3, <2>2, <2>5, <2>6
<1>8. ASSUME NEW reg \in Reg, word = sw_data(reg)
      PROVE  Done
  <2>1. inst = nop
    BY <1>8 DEF Resolve, sw_data
  <2>2. inst \in Instruction
    BY <2>1, RomInstructions
  <2>3. dm' = [dm EXCEPT !.dmdata = cpu.regs[reg]]
    BY <1>1, <1>8 DEF HartStore, sw_data, store
  <2> HIDE DEF inst
  <2>4. Puts(cpu.regs, cpu.dscratch0, cpu.dpc, cpu.dcsr, cpu.regs[reg])
    BY <1>3, <1>4, <2>1, <2>2, <2>3 DEF Effect, Puts, Keeps, KeepsRegs, KeepsCsrs, nop
  <2>5. CodeWord(word)
    BY <1>8, <2>4 DEF CodeWord, csrw_s0, csrr_s0, lw_data, sw_data, jal, ebreak
  <2>6. CodeAccount(word)
    BY <1>1, <1>4, <1>8, <2>1, <2>2 DEF CodeAccount, sw_data, lw_data, store, nop
  <2> QED
    BY <1>3, <2>2, <2>5, <2>6
<1>9. ASSUME word \in {jal(836), ebreak}
      PROVE  Done
  <2>1. inst = word
    BY <1>9 DEF Resolve, jal, ebreak
  <2>2. inst \in Instruction
    BY <1>9, <2>1, ProgBufStart, RomInstructions
  <2>3. dm' = dm
    BY <1>1, <1>9 DEF HartStore, jal, ebreak, store
  <2> HIDE DEF inst
  <2>4. CodeWord(word)
    BY <1>3, <1>9, <2>1, <2>2, <2>3
    DEF Effect, CodeWord, csrw_s0, csrr_s0, lw_data, sw_data, jal, ebreak
  <2>5. CodeAccount(word)
    BY <1>1, <1>4, <1>9, <2>1, <2>2 DEF CodeAccount, jal, ebreak, lw_data, store
  <2> QED
    BY <1>3, <2>2, <2>4, <2>5
<1> QED
  BY <1>1, <1>5, <1>6, <1>7, <1>8, <1>9 DEF IsCodeWord

\* The word of the code for a command at an address, address by address.
CsrCode(p, word, cmd) ==
    \/ p = 788 /\ word = csrw_s0("dscratch0")
    \/ p = 792 /\ word = IF cmd.write THEN lw_data("s0") ELSE csrr_s0(cmd.regno)
    \/ p = 796 /\ word = IF cmd.write THEN csrw_s0(cmd.regno) ELSE sw_data("s0")
    \/ p = 800 /\ word = csrr_s0("dscratch0")
    \/ p = 804 /\ word = Ending(cmd)

RegCode(p, word, cmd) ==
    \/ p = 788 /\ word = IF cmd.write THEN lw_data(cmd.regno) ELSE sw_data(cmd.regno)
    \/ p = 792 /\ word = IF cmd.write /\ cmd.regno = "s0" THEN csrw_s0("dscratch0") ELSE Ending(cmd)
    \/ p = 796 /\ cmd.write /\ cmd.regno = "s0" /\ word = Ending(cmd)

Holds(cmd) ==
    /\ cmd \in Command
    /\ dm.debug_abstract = AbstractCode(cmd)
    /\ cmd.transfer => cmd.regno \in Reg \cup CsrRegno

Shape(cmd) ==
    IF ~cmd.transfer THEN {788}
    ELSE IF cmd.regno \in CsrRegno THEN {788, 792, 796, 800, 804}
    ELSE IF cmd.write /\ cmd.regno = "s0" THEN {788, 792, 796}
    ELSE {788, 792}

LEMMA AssembledShape ==
    ASSUME NEW cmd, Holds(cmd)
    PROVE  Assembled = Shape(cmd)
<1> DEFINE Codes(n) == { debug_abstract_start + 4 * i : i \in 0 .. n - 1 }
<1>1. /\ Codes(1) = {788} /\ Codes(2) = {788, 792} /\ Codes(3) = {788, 792, 796}
      /\ Codes(5) = {788, 792, 796, 800, 804}
  <2>1. /\ 0..(1 - 1) = {0} /\ 0..(2 - 1) = {0, 1} /\ 0..(3 - 1) = {0, 1, 2}
        /\ 0..(5 - 1) = {0, 1, 2, 3, 4}
    OBVIOUS
  <2>2. Codes(1) = {788}
    BY <2>1 DEF debug_abstract_start
  <2>3. Codes(2) = {788, 792}
    BY <2>1 DEF debug_abstract_start
  <2>4. Codes(3) = {788, 792, 796}
    BY <2>1 DEF debug_abstract_start
  <2>5. Codes(5) = {788, 792, 796, 800, 804}
    BY <2>1 DEF debug_abstract_start
  <2> QED
    BY <2>2, <2>3, <2>4, <2>5
<1>2. Len(dm.debug_abstract) =
         IF ~cmd.transfer THEN 1
         ELSE IF cmd.regno \in CsrRegno THEN 5
         ELSE IF cmd.write /\ cmd.regno = "s0" THEN 3 ELSE 2
  BY CodeShape DEF Holds
<1>3. Assembled = Codes(Len(dm.debug_abstract))
  BY DEF Assembled, CodeAddress
<1> DEFINE n == Len(dm.debug_abstract)
<1> HIDE DEF Codes, n
<1>4. Assembled = Codes(n)
  BY <1>3 DEF n
<1>5. CASE ~cmd.transfer
  <2>1. n = 1
    BY <1>2, <1>5 DEF n
  <2> QED
    BY <1>1, <1>4, <1>5, <2>1 DEF Shape
<1>6. CASE cmd.transfer /\ cmd.regno \in CsrRegno
  <2>1. n = 5
    BY <1>2, <1>6 DEF n
  <2> QED
    BY <1>1, <1>4, <1>6, <2>1 DEF Shape
<1>7. CASE cmd.transfer /\ cmd.regno \notin CsrRegno /\ cmd.write /\ cmd.regno = "s0"
  <2>1. n = 3
    BY <1>2, <1>7 DEF n
  <2> QED
    BY <1>1, <1>4, <1>7, <2>1 DEF Shape
<1>8. CASE cmd.transfer /\ cmd.regno \notin CsrRegno /\ ~(cmd.write /\ cmd.regno = "s0")
  <2>1. n = 2
    BY <1>2, <1>8 DEF n
  <2> QED
    BY <1>1, <1>4, <1>8, <2>1 DEF Shape
<1> QED
  BY <1>5, <1>6, <1>7, <1>8

LEMMA AssembledWord ==
    ASSUME NEW cmd, Holds(cmd), cpu.pc \in Assembled
    PROVE  LET word == FetchDebug(cpu, dm)
           IN  /\ cpu.pc \in DebugAddress /\ cpu.pc # 768
               /\ IsCodeWord(word)
               /\ ~cmd.transfer => cpu.pc = 788 /\ word = Ending(cmd)
               /\ cmd.transfer /\ cmd.regno \in CsrRegno => CsrCode(cpu.pc, word, cmd)
               /\ cmd.transfer /\ cmd.regno \notin CsrRegno => RegCode(cpu.pc, word, cmd)
<1> DEFINE word == FetchDebug(cpu, dm)
<1>1. \A i \in 1..5 : cpu.pc = 784 + 4 * i => cpu.pc \in DebugAddress /\ word = dm.debug_abstract[i]
  BY AssembledFetch
<1>2. /\ cpu.pc \in {788, 792, 796, 800, 804} => cpu.pc \in DebugAddress
      /\ cpu.pc = 788 => word = dm.debug_abstract[1]
      /\ cpu.pc = 792 => word = dm.debug_abstract[2]
      /\ cpu.pc = 796 => word = dm.debug_abstract[3]
      /\ cpu.pc = 800 => word = dm.debug_abstract[4]
      /\ cpu.pc = 804 => word = dm.debug_abstract[5]
  BY <1>1
<1> HIDE DEF word
<1>3. cpu.pc \in Shape(cmd)
  BY AssembledShape
<1>4. dm.debug_abstract = AbstractCode(cmd) /\ (cmd.transfer => cmd.regno \in Reg \cup CsrRegno)
  BY DEF Holds
<1>5. cmd.write /\ cmd.regno = "dpc" => Value \subseteq Address
  BY DebugSystemAssumption DEF Holds
<1>6. Ending(cmd) \in {jal(836), ebreak}
  BY DEF Ending, debug_progbuf_start
<1>7. CASE ~cmd.transfer
  <2>1. AbstractCode(cmd) = <<Ending(cmd)>>
    BY <1>7, CodeShape
  <2>2. cpu.pc = 788
    BY <1>3, <1>7 DEF Shape
  <2>3. word = Ending(cmd)
    BY <1>2, <1>4, <2>1, <2>2
  <2> QED
    BY <1>2, <1>6, <1>7, <2>2, <2>3 DEF IsCodeWord, word
<1>8. CASE cmd.transfer /\ cmd.regno \in CsrRegno
  <2>1. AbstractCode(cmd) =
            IF cmd.write
              THEN <<csrw_s0("dscratch0"), lw_data("s0"), csrw_s0(cmd.regno),
                     csrr_s0("dscratch0"), Ending(cmd)>>
              ELSE <<csrw_s0("dscratch0"), csrr_s0(cmd.regno), sw_data("s0"),
                     csrr_s0("dscratch0"), Ending(cmd)>>
    BY <1>8, CodeShape
  <2>2. cpu.pc \in {788, 792, 796, 800, 804}
    BY <1>3, <1>8 DEF Shape
  <2>3. CsrCode(cpu.pc, word, cmd)
    BY <1>2, <1>4, <2>1, <2>2 DEF CsrCode
  <2>4. IsCodeWord(word)
    BY <1>5, <1>6, <1>8, <2>3 DEF CsrCode, IsCodeWord, CsrRegno, Reg
  <2> QED
    BY <1>2, <1>8, <2>2, <2>3, <2>4 DEF word
<1>9. CASE cmd.transfer /\ cmd.regno \notin CsrRegno
  <2>1. /\ cmd.write /\ cmd.regno = "s0" =>
              AbstractCode(cmd) = <<lw_data("s0"), csrw_s0("dscratch0"), Ending(cmd)>>
        /\ cmd.write /\ cmd.regno # "s0" => AbstractCode(cmd) = <<lw_data(cmd.regno), Ending(cmd)>>
        /\ ~cmd.write => AbstractCode(cmd) = <<sw_data(cmd.regno), Ending(cmd)>>
    BY <1>9, CodeShape
  <2>2. cpu.pc \in {788, 792, 796} /\ (cpu.pc = 796 => cmd.write /\ cmd.regno = "s0")
    BY <1>3, <1>9 DEF Shape
  <2>3. RegCode(cpu.pc, word, cmd)
    BY <1>2, <1>4, <2>1, <2>2 DEF RegCode
  <2>4. IsCodeWord(word)
    BY <1>4, <1>6, <1>9, <2>3 DEF RegCode, IsCodeWord, CsrRegno, Reg
  <2> QED
    BY <1>2, <1>9, <2>2, <2>3, <2>4 DEF word
<1> QED
  BY <1>7, <1>8, <1>9

-----------------------------------------------------------------------------
(* perform_abstract_command and the accesses that may call it.             *)

\* From d to e a command is launched.
Launched(d, e) ==
    /\ ~d.busy /\ d.halted
    /\ d.cmderr = CMDERR_NONE /\ e.cmderr = CMDERR_NONE
    /\ e.busy /\ ~e.completed /\ e.debug_rom_flags = d.debug_rom_flags \cup {"GO"}
    /\ e.command \in Command
    /\ e.debug_abstract = AbstractCode(e.command)
    /\ e.command.access_register /\ e.command.aarsize32
    /\ e.command.transfer => e.command.regno \in Reg \cup CsrRegno

\* From d to e an error is recorded where there was none: what the access met.
Errs(d, e) ==
    /\ d.cmderr = CMDERR_NONE
    /\ IF d.busy THEN e.cmderr = CMDERR_BUSY
       ELSE e.cmderr = CMDERR_NOTSUP \/ (e.cmderr = CMDERR_HALTRESUME /\ ~d.halted)

\* From d to e nothing happens that the hart can see; an error is not cleared,
\* nor is the data word changed while a command executes.
Quiet(d, e) ==
    /\ e.busy = d.busy /\ e.completed = d.completed /\ e.debug_rom_flags = d.debug_rom_flags
    /\ e.debug_abstract = d.debug_abstract
    /\ e.cmderr = d.cmderr \/ Errs(d, e)
    /\ d.busy => e.dmdata = d.dmdata

\* The fields no abstract command touches.
SameLines(d, e) ==
    /\ e.dmactive = d.dmactive /\ e.haltreq = d.haltreq /\ e.halted = d.halted
    /\ e.autoexecdata = d.autoexecdata /\ e.autoexecprogbuf = d.autoexecprogbuf

LEMMA PerformOutcome ==
    ASSUME NEW d \in ModuleState, d.command \in Command
    PROVE  LET e == PerformAbstractCommand(d)
           IN  /\ e \in ModuleState /\ SameLines(d, e)
               /\ e.command = d.command /\ e.program_buffer = d.program_buffer
               /\ Quiet(d, e) \/ Launched(d, e)
<1> DEFINE e == PerformAbstractCommand(d)
           Done(x) == /\ x \in ModuleState /\ SameLines(d, x)
                      /\ x.command = d.command /\ x.program_buffer = d.program_buffer
                      /\ Quiet(d, x) \/ Launched(d, x)
<1>1. CASE d.cmderr # CMDERR_NONE
  <2>1. e = d
    BY <1>1 DEF PerformAbstractCommand
  <2>2. Done(d)
    BY DEF SameLines, Quiet
  <2> QED
    BY <2>1, <2>2
<1>2. CASE d.cmderr = CMDERR_NONE /\ Refusal(d) # CMDERR_NONE
  <2> DEFINE r == Refusal(d)
  <2>1. e = [d EXCEPT !.cmderr = r]
    BY <1>2 DEF PerformAbstractCommand
  <2>2. r \in 1..4
    BY <1>2 DEF Refusal, CMDERR_NONE, CMDERR_BUSY, CMDERR_NOTSUP, CMDERR_HALTRESUME
  <2> HIDE DEF r, e
  <2>3. Done(e)
    <3>1. e \in ModuleState
      BY <2>1, <2>2 DEF ModuleState
    <3>2. SameLines(d, e) /\ e.command = d.command /\ e.program_buffer = d.program_buffer
      BY <2>1 DEF ModuleState, SameLines
    <3>3. e.cmderr = r
      BY <2>1 DEF ModuleState
    <3>4. Errs(d, e)
      BY <1>2, <3>3 DEF Errs, r, Refusal, CMDERR_NONE, CMDERR_BUSY, CMDERR_NOTSUP, CMDERR_HALTRESUME
    <3>5. Quiet(d, e)
      BY <2>1, <3>4 DEF ModuleState, Quiet
    <3> QED
      BY <3>1, <3>2, <3>5
  <2> QED
    BY <2>3 DEF e
<1>3. CASE Accepted(d)
  <2>1. e = Launch(d)
    BY <1>3 DEF PerformAbstractCommand, Accepted
  <2>2. /\ ~d.busy /\ d.halted /\ d.cmderr = CMDERR_NONE
        /\ d.command.access_register /\ d.command.aarsize32
    BY <1>3 DEF Accepted, Refusal, CMDERR_NONE, CMDERR_BUSY, CMDERR_NOTSUP, CMDERR_HALTRESUME
  <2>3. d.command.transfer => d.command.regno \in Reg \cup CsrRegno
    <3>1. d.command \in CommandType
      BY Constants
    <3>2. d.command.transfer => d.command.regno \notin {"none", "custom"}
      BY <1>3
      DEF Accepted, Refusal, CMDERR_NONE, CMDERR_BUSY, CMDERR_NOTSUP, CMDERR_HALTRESUME
    <3> QED
      BY <3>1, <3>2 DEF CommandType
  <2> DEFINE code == AbstractCode(d.command)
             flags == d.debug_rom_flags \cup {"GO"}
             l == Launch(d)
  <2>4. l = [d EXCEPT !.debug_abstract = code, !.debug_rom_flags = flags,
                      !.rti_remaining = AbstractRti, !.completed = FALSE, !.busy = TRUE]
    BY DEF Launch
  <2>5. /\ code \in {<<>>} \cup { AbstractCode(cmd) : cmd \in Command }
        /\ flags \in SUBSET {"GO", "RESUME"}
        /\ AbstractRti \in 0..AbstractRti
    <3>1. code \in { AbstractCode(cmd) : cmd \in Command }
      OBVIOUS
    <3>2. flags \in SUBSET {"GO", "RESUME"}
      BY DEF ModuleState
    <3>3. AbstractRti \in 0..AbstractRti
      BY Constants
    <3> QED
      BY <3>1, <3>2, <3>3
  <2> HIDE DEF code, flags, l
  <2>6. /\ l \in ModuleState /\ SameLines(d, l)
        /\ l.command = d.command /\ l.program_buffer = d.program_buffer
        /\ l.busy /\ ~l.completed /\ l.debug_rom_flags = flags /\ l.debug_abstract = code
        /\ l.cmderr = d.cmderr
    BY <2>4, <2>5 DEF ModuleState, SameLines
  <2>7. Launched(d, l)
    BY <2>2, <2>3, <2>6 DEF Launched, code, flags
  <2> QED
    BY <2>1, <2>6, <2>7 DEF l
<1>4. CASE d.cmderr = CMDERR_NONE /\ Refusal(d) = CMDERR_NONE /\ ~Accepted(d)
  <2>1. e = AccessCustom(d)
    BY <1>4 DEF PerformAbstractCommand
  <2>2. ~d.busy
    BY <1>4 DEF Refusal, CMDERR_NONE, CMDERR_BUSY
  <2>3. d.dmdata \in Value /\ d.custom_base \in Value
    BY DEF ModuleState
  <2>4. CASE d.command.write
    <3>1. e = [d EXCEPT !.custom_base = d.dmdata]
      BY <2>1, <2>4 DEF AccessCustom
    <3> HIDE DEF e
    <3>2. Done(e)
      BY <2>2, <2>3, <3>1 DEF ModuleState, SameLines, Quiet
    <3> QED
      BY <3>2 DEF e
  <2>5. CASE ~d.command.write
    <3>1. e = [d EXCEPT !.dmdata = d.custom_base]
      BY <2>1, <2>5 DEF AccessCustom
    <3> HIDE DEF e
    <3>2. Done(e)
      BY <2>2, <2>3, <3>1 DEF ModuleState, SameLines, Quiet
    <3> QED
      BY <3>2 DEF e
  <2> QED
    BY <2>4, <2>5
<1> QED
  BY <1>1, <1>2, <1>3, <1>4 DEF Accepted

\* From d to e the program buffer holds only what it may hold, and a command
\* that was written stays written.
Preserves(d, e) ==
    /\ d.command # NoCommand => e.command # NoCommand
    /\ (\A i \in 1..ProgBufSize : d.program_buffer[i] \in BufferWord)
          => \A i \in 1..ProgBufSize : e.program_buffer[i] \in BufferWord

\* What an access to the command, data and program buffer registers does.
Served(d, e) ==
    /\ e \in ModuleState
    /\ SameLines(d, e) /\ Preserves(d, e)
    /\ Quiet(d, e) \/ Launched(d, e)

LEMMA TouchThenPerform ==
    ASSUME NEW d \in ModuleState, NEW x \in ModuleState, x.command \in Command,
           SameLines(d, x), Preserves(d, x), Quiet(d, x)
    PROVE  Served(d, PerformAbstractCommand(x))
<1> DEFINE e == PerformAbstractCommand(x)
<1>1. /\ e \in ModuleState /\ SameLines(x, e)
      /\ e.command = x.command /\ e.program_buffer = x.program_buffer
      /\ Quiet(x, e) \/ Launched(x, e)
  BY PerformOutcome
<1> HIDE DEF e
<1>2. SameLines(d, e) /\ Preserves(d, e)
  BY <1>1 DEF SameLines, Preserves
<1>3. Errs(d, x) => x.cmderr # CMDERR_NONE
  BY DEF Errs, CMDERR_NONE, CMDERR_BUSY, CMDERR_NOTSUP, CMDERR_HALTRESUME
<1>4. Quiet(x, e) => Quiet(d, e)
  <2>1. x.busy = d.busy /\ x.halted = d.halted
    BY DEF Quiet, SameLines
  <2>2. Errs(x, e) => Errs(d, e)
    BY <1>3, <2>1 DEF Quiet, Errs
  <2>3. Errs(d, x) /\ e.cmderr = x.cmderr => Errs(d, e)
    BY DEF Errs
  <2> QED
    BY <2>2, <2>3 DEF Quiet
<1>5. Launched(x, e) => Launched(d, e)
  <2>1. Launched(x, e) => d.cmderr = CMDERR_NONE
    BY <1>3 DEF Launched, Quiet
  <2> QED
    BY <2>1 DEF Launched, SameLines, Quiet
<1> QED
  BY <1>1, <1>2, <1>4, <1>5 DEF Served, e

LEMMA Untouched ==
    ASSUME NEW d \in ModuleState
    PROVE  Served(d, d) /\ SameLines(d, d) /\ Preserves(d, d) /\ Quiet(d, d)
  BY DEF Served, SameLines, Preserves, Quiet

\* BusyError records an error when the module is busy, and nothing else.
LEMMA BusyErrorTouch ==
    ASSUME NEW d \in ModuleState
    PROVE  LET x == BusyError(d)
           IN  /\ x \in ModuleState /\ x.command = d.command /\ x.busy = d.busy
               /\ SameLines(d, x) /\ Preserves(d, x) /\ Quiet(d, x)
<1> DEFINE err == IF d.busy /\ d.cmderr = CMDERR_NONE THEN CMDERR_BUSY ELSE d.cmderr
           x == BusyError(d)
<1>1. x = [d EXCEPT !.cmderr = err]
  BY DEF BusyError
<1>2. /\ err \in 0..4
      /\ err = d.cmderr \/ (d.busy /\ d.cmderr = CMDERR_NONE /\ err = CMDERR_BUSY)
  BY DEF ModuleState, CMDERR_BUSY
<1> HIDE DEF err, x
<1>3. x \in ModuleState
  BY <1>1, <1>2 DEF ModuleState
<1>4. /\ x.command = d.command /\ x.busy = d.busy /\ x.program_buffer = d.program_buffer
      /\ SameLines(d, x) /\ Quiet(d, x)
  BY <1>1, <1>2 DEF ModuleState, SameLines, Quiet, Errs
<1>5. Preserves(d, x)
  BY <1>4 DEF Preserves
<1> QED
  BY <1>3, <1>4, <1>5 DEF x

\* Autoexec launches the command left in the command register, or does nothing.
LEMMA AutoexecServes ==
    ASSUME NEW d \in ModuleState, NEW x \in ModuleState, NEW on, on => x.command \in Command,
           SameLines(d, x), Preserves(d, x), Quiet(d, x)
    PROVE  Served(d, x) /\ Served(d, IF ~d.busy /\ on THEN PerformAbstractCommand(x) ELSE x)
<1>1. Served(d, x)
  BY DEF Served
<1>2. on => Served(d, PerformAbstractCommand(x))
  BY TouchThenPerform
<1> QED
  BY <1>1, <1>2

\* An access to the abstract command interface, as the rest of the system sees it.
AbstractEffect ==
    /\ cpu' = cpu
    /\ accessed = "none" /\ accessed' = "abstract"
    /\ dm.dmactive /\ ~Resuming
    /\ Served(dm, dm')
    /\ ghost' = IF dm'.busy /\ ~dm.busy THEN Opened(ghost, dm'.command) ELSE ghost

\* Autoexec finds a command in the command register, and the program buffer
\* holds words that stay in it.
AutoexecInv ==
    /\ dm.autoexecdata \/ dm.autoexecprogbuf # {} => dm.command # NoCommand
    /\ \A i \in 1..ProgBufSize : dm.program_buffer[i] \in BufferWord

LEMMA AutoexecCommand ==
    ASSUME dm \in ModuleState, AutoexecInv
    PROVE  /\ dm.autoexecdata => dm.command \in Command
           /\ \A i : i \in dm.autoexecprogbuf => dm.command \in Command
  BY DEF ModuleState, AutoexecInv

LEMMA IssueCommandEffect ==
    ASSUME dm \in ModuleState, NEW cmd \in Command, IssueCommand(cmd)
    PROVE  AbstractEffect
<1> DEFINE x == [dm EXCEPT !.command = cmd]
<1>1. dm' = PerformAbstractCommand(x) /\ cpu' = cpu
  BY DEF IssueCommand, Access, WriteCommand
<1>2. cmd # NoCommand
  BY DebugModuleAssumption
<1>3. x \in ModuleState /\ x.command = cmd
  BY DEF ModuleState
<1>4. SameLines(dm, x) /\ Preserves(dm, x) /\ Quiet(dm, x)
  BY <1>2 DEF ModuleState, SameLines, Preserves, Quiet
<1> HIDE DEF x
<1>5. Served(dm, dm')
  BY <1>1, <1>3, <1>4, TouchThenPerform
<1> QED
  BY <1>1, <1>5 DEF IssueCommand, Access, ObserveAccess, AbstractEffect, Acknowledged, Resuming

LEMMA UseDataEffect ==
    ASSUME dm \in ModuleState, AutoexecInv, UseData
    PROVE  AbstractEffect
<1>1. dm.autoexecdata => dm.command \in Command
  BY AutoexecCommand
<1>2. ASSUME ReadData
      PROVE  Served(dm, dm') /\ cpu' = cpu
  <2> DEFINE x == BusyError(dm)
  <2>1. dm' = Autoexec(x, dm.autoexecdata) /\ cpu' = cpu
    BY <1>2 DEF ReadData
  <2>2. /\ x \in ModuleState /\ x.command = dm.command
        /\ SameLines(dm, x) /\ Preserves(dm, x) /\ Quiet(dm, x)
    BY BusyErrorTouch
  <2> HIDE DEF x
  <2>3. Served(dm, IF ~dm.busy /\ dm.autoexecdata THEN PerformAbstractCommand(x) ELSE x)
    BY <1>1, <2>2, AutoexecServes
  <2> QED
    BY <2>1, <2>3 DEF Autoexec
<1>3. ASSUME NEW v \in Data, WriteData(v)
      PROVE  Served(dm, dm') /\ cpu' = cpu
  <2> DEFINE w == IF dm.busy THEN dm ELSE [dm EXCEPT !.dmdata = v]
             x == BusyError(w)
  <2>1. dm' = Autoexec(x, dm.autoexecdata) /\ cpu' = cpu
    BY <1>3 DEF WriteData
  <2>2. v \in Value
    BY DebugSystemAssumption
  <2>3. w \in ModuleState /\ w.command = dm.command
    BY <2>2 DEF ModuleState
  <2>4. SameLines(dm, w) /\ Preserves(dm, w) /\ Quiet(dm, w)
    BY DEF ModuleState, SameLines, Preserves, Quiet
  <2> HIDE DEF w
  <2>5. /\ x \in ModuleState /\ x.command = w.command
        /\ SameLines(w, x) /\ Preserves(w, x) /\ Quiet(w, x)
    BY <2>3, BusyErrorTouch
  <2> HIDE DEF x
  <2>6. SameLines(dm, x) /\ Preserves(dm, x) /\ Quiet(dm, x)
    <3>1. SameLines(dm, x) /\ Preserves(dm, x)
      BY <2>4, <2>5 DEF SameLines, Preserves
    <3>2. w.cmderr = dm.cmderr
      BY DEF ModuleState, w
    <3> QED
      BY <2>4, <2>5, <3>1, <3>2 DEF SameLines, Quiet, Errs
  <2>7. Served(dm, IF ~dm.busy /\ dm.autoexecdata THEN PerformAbstractCommand(x) ELSE x)
    BY <1>1, <2>3, <2>5, <2>6, AutoexecServes
  <2> QED
    BY <2>1, <2>7 DEF Autoexec
<1>4. Served(dm, dm') /\ cpu' = cpu
  BY <1>2, <1>3 DEF UseData, Access
<1> QED
  BY <1>4 DEF UseData, Access, ObserveAccess, AbstractEffect, Acknowledged, Resuming

LEMMA UseProgBufEffect ==
    ASSUME dm \in ModuleState, AutoexecInv, UseProgBuf
    PROVE  AbstractEffect
<1>1. \A i : i \in dm.autoexecprogbuf => dm.command \in Command
  BY AutoexecCommand
<1>2. ASSUME NEW i \in 1..ProgBufSize, ReadProgBuf(i)
      PROVE  Served(dm, dm') /\ cpu' = cpu
  <2>1. dm' = Autoexec(dm, i \in dm.autoexecprogbuf) /\ cpu' = cpu
    BY <1>2 DEF ReadProgBuf
  <2>2. SameLines(dm, dm) /\ Preserves(dm, dm) /\ Quiet(dm, dm)
    BY Untouched
  <2>3. Served(dm, IF ~dm.busy /\ i \in dm.autoexecprogbuf THEN PerformAbstractCommand(dm) ELSE dm)
    BY <1>1, <2>2, AutoexecServes
  <2> QED
    BY <2>1, <2>3 DEF Autoexec
<1>3. ASSUME NEW i \in 1..ProgBufSize, NEW word \in ProgBufWord, WriteProgBuf(i, word)
      PROVE  Served(dm, dm') /\ cpu' = cpu
  <2> DEFINE words == [dm.program_buffer EXCEPT ![i] = word]
             x == IF dm.busy THEN dm ELSE [dm EXCEPT !.program_buffer = words]
  <2>1. dm' = Autoexec(x, i \in dm.autoexecprogbuf) /\ cpu' = cpu
    BY <1>3 DEF WriteProgBuf
  <2>2. word \in Instruction /\ word \in BufferWord
    BY BufferWords DEF BufferWord
  <2>3. /\ words \in [1..ProgBufSize -> Instruction]
        /\ (\A j \in 1..ProgBufSize : dm.program_buffer[j] \in BufferWord)
              => \A j \in 1..ProgBufSize : words[j] \in BufferWord
    BY <2>2 DEF ModuleState
  <2> HIDE DEF words
  <2>4. x \in ModuleState /\ x.command = dm.command
    BY <2>3 DEF ModuleState
  <2>5. SameLines(dm, x) /\ Quiet(dm, x)
    BY DEF ModuleState, SameLines, Quiet
  <2>6. Preserves(dm, x)
    <3>1. x.program_buffer \in {dm.program_buffer, words}
      BY DEF ModuleState
    <3> QED
      BY <2>3, <2>4, <3>1 DEF Preserves
  <2> HIDE DEF x
  <2>7. Served(dm, IF ~dm.busy /\ i \in dm.autoexecprogbuf THEN PerformAbstractCommand(x) ELSE x)
    BY <1>1, <2>4, <2>5, <2>6, AutoexecServes
  <2> QED
    BY <2>1, <2>7 DEF Autoexec
<1>4. Served(dm, dm') /\ cpu' = cpu
  BY <1>2, <1>3 DEF UseProgBuf, Access
<1> QED
  BY <1>4 DEF UseProgBuf, Access, ObserveAccess, AbstractEffect, Acknowledged, Resuming

-----------------------------------------------------------------------------
(* The debugger's accesses to dmcontrol, abstractcs and abstractauto, and  *)
(* the cycles of the transport.                                            *)

\* What the handshake depends on, but for the flags.
SameHart ==
    /\ cpu'.debug_mode = cpu.debug_mode /\ cpu'.single_step = cpu.single_step
    /\ cpu'.mip = cpu.mip /\ cpu'.pc = cpu.pc /\ cpu'.regs = cpu.regs
    /\ cpu'.dpc = cpu.dpc /\ cpu'.dcsr = cpu.dcsr /\ cpu'.dscratch0 = cpu.dscratch0
    /\ cpu'.privilege = cpu.privilege

SameModule(d, e) ==
    /\ e.busy = d.busy /\ e.completed = d.completed /\ e.halted = d.halted
    /\ e.debug_abstract = d.debug_abstract /\ e.program_buffer = d.program_buffer
    /\ e.command = d.command /\ e.dmdata = d.dmdata

\* A step that the handshake does not notice.
Unnoticed ==
    /\ cpu' \in HartState /\ dm' \in ModuleState /\ ghost' = ghost
    /\ SameHart /\ SameModule(dm, dm') /\ dm'.debug_rom_flags = dm.debug_rom_flags
    /\ AutoexecInv'
    /\ ~dm'.dmactive => ~dm.busy /\ ~Resuming
    /\ dm'.cmderr = dm.cmderr \/ (~dm.busy /\ dm'.cmderr = CMDERR_NONE)
    /\ \/ accessed = "none" /\ accessed' = "control"
       \/ accessed' = accessed /\ cpu' = cpu

LEMMA RequestHart ==
    ASSUME cpu \in HartState, NEW b \in BOOLEAN, cpu' = [cpu EXCEPT !.halt_request = b]
    PROVE  cpu' \in HartState /\ SameHart
  BY DEF HartState, SameHart

\* From d to e an active module is given the word v.
Controlled(d, v, e) ==
    /\ e \in ModuleState /\ SameModule(d, e) /\ e.dmactive
    /\ e.cmderr = d.cmderr
    /\ e.autoexecdata = d.autoexecdata /\ e.autoexecprogbuf = d.autoexecprogbuf
    /\ e.debug_rom_flags = IF v.resumereq THEN d.debug_rom_flags \cup {"RESUME"}
                                          ELSE d.debug_rom_flags

LEMMA ControlModuleFrame ==
    ASSUME NEW d \in ModuleState, NEW v, v.haltreq \in BOOLEAN
    PROVE  Controlled(d, v, ControlModule(d, v))
<1> DEFINE flags == IF v.resumereq THEN d.debug_rom_flags \cup {"RESUME"} ELSE d.debug_rom_flags
           havereset == d.havereset /\ ~v.ackhavereset
           resumeack == d.resumeack /\ ~v.resumereq
           e == ControlModule(d, v)
<1>1. e = [d EXCEPT !.dmactive = TRUE, !.haltreq = v.haltreq, !.havereset = havereset,
                    !.debug_rom_flags = flags, !.resumeack = resumeack]
  BY DEF ControlModule
<1>2. flags \in SUBSET {"GO", "RESUME"} /\ havereset \in BOOLEAN /\ resumeack \in BOOLEAN
  BY DEF ModuleState
<1> HIDE DEF flags, havereset, resumeack, e
<1>3. e \in ModuleState
  BY <1>1, <1>2 DEF ModuleState
<1>4. /\ SameModule(d, e) /\ e.dmactive /\ e.cmderr = d.cmderr
      /\ e.autoexecdata = d.autoexecdata /\ e.autoexecprogbuf = d.autoexecprogbuf
      /\ e.debug_rom_flags = flags
  BY <1>1, <1>2 DEF ModuleState, SameModule
<1> QED
  BY <1>3, <1>4 DEF e, flags, Controlled

LEMMA ResetModuleFrame ==
    ASSUME NEW d \in ModuleState, ~d.busy
    PROVE  LET e == ResetModule(d)
           IN  /\ e \in ModuleState /\ SameModule(d, e)
               /\ e.debug_rom_flags = d.debug_rom_flags
               /\ ~e.autoexecdata /\ e.autoexecprogbuf = {} /\ e.cmderr = CMDERR_NONE
<1> DEFINE e == ResetModule(d)
<1>1. e = [d EXCEPT !.dmactive = FALSE, !.haltreq = FALSE, !.busy = FALSE, !.cmderr = 0,
                    !.autoexecdata = FALSE, !.autoexecprogbuf = {}]
  BY DEF ResetModule, CMDERR_NONE
<1> HIDE DEF e
<1>2. e \in ModuleState
  <2> DEFINE none == {}
  <2>1. none \in SUBSET (1..ProgBufSize) /\ 0 \in 0..4
    OBVIOUS
  <2>2. e = [d EXCEPT !.dmactive = FALSE, !.haltreq = FALSE, !.busy = FALSE, !.cmderr = 0,
                      !.autoexecdata = FALSE, !.autoexecprogbuf = none]
    BY <1>1
  <2> HIDE DEF none
  <2> QED
    BY <2>1, <2>2 DEF ModuleState
<1>3. /\ SameModule(d, e) /\ e.debug_rom_flags = d.debug_rom_flags
      /\ ~e.autoexecdata /\ e.autoexecprogbuf = {} /\ e.cmderr = CMDERR_NONE
  BY <1>1 DEF ModuleState, SameModule, CMDERR_NONE
<1> QED
  BY <1>2, <1>3 DEF e

LEMMA ActivateEffect ==
    ASSUME cpu \in HartState, dm \in ModuleState, AutoexecInv, ~dm.busy, Activate
    PROVE  Unnoticed
<1> DEFINE r == ResetModule(dm)
<1>1. /\ ~dm.dmactive /\ accessed = "none" /\ accessed' = "control" /\ ghost' = ghost
      /\ WriteDmcontrol(Quiescent)
  BY DEF Activate, Access
<1>2. dm' = ControlModule(r, Quiescent)
  BY <1>1 DEF WriteDmcontrol, Quiescent
<1>3. cpu' = [cpu EXCEPT !.halt_request = FALSE]
  BY <1>1 DEF WriteDmcontrol, Quiescent, ControlHart, HartState
<1>4. /\ r \in ModuleState /\ SameModule(dm, r)
      /\ r.debug_rom_flags = dm.debug_rom_flags
      /\ ~r.autoexecdata /\ r.autoexecprogbuf = {} /\ r.cmderr = CMDERR_NONE
  BY ResetModuleFrame
<1> HIDE DEF r
<1>5. /\ dm' \in ModuleState /\ SameModule(r, dm') /\ dm'.dmactive
      /\ ~dm'.autoexecdata /\ dm'.autoexecprogbuf = {}
      /\ dm'.debug_rom_flags = r.debug_rom_flags /\ dm'.cmderr = r.cmderr
  <2>1. Quiescent.haltreq \in BOOLEAN /\ ~Quiescent.resumereq
    BY DEF Quiescent
  <2> QED
    <3>1. Controlled(r, Quiescent, dm')
      BY <1>2, <1>4, <2>1, ControlModuleFrame
    <3> QED
      BY <1>4, <2>1, <3>1 DEF Controlled
<1>6. AutoexecInv' /\ SameModule(dm, dm')
  BY <1>4, <1>5 DEF AutoexecInv, SameModule
<1> QED
  BY <1>1, <1>3, <1>4, <1>5, <1>6, RequestHart DEF Unnoticed

LEMMA DeactivateEffect ==
    ASSUME cpu \in HartState, dm \in ModuleState, AutoexecInv, Deactivate
    PROVE  Unnoticed
<1>1. /\ accessed = "none" /\ accessed' = "control" /\ ghost' = ghost
      /\ WriteDmcontrol([Quiescent EXCEPT !.dmactive = FALSE]) /\ ~Resuming /\ ~dm.busy
  BY DEF Deactivate, Access, Idle, Acknowledged, Resuming
<1>2. dm' = [dm EXCEPT !.dmactive = FALSE] /\ cpu' = cpu
  BY <1>1 DEF WriteDmcontrol, Quiescent
<1>3. dm' \in ModuleState
  BY <1>2 DEF ModuleState
<1>4. /\ SameModule(dm, dm') /\ dm'.debug_rom_flags = dm.debug_rom_flags
      /\ dm'.autoexecdata = dm.autoexecdata /\ dm'.autoexecprogbuf = dm.autoexecprogbuf
  BY <1>2 DEF ModuleState, SameModule
<1>5. AutoexecInv'
  BY <1>4 DEF AutoexecInv, SameModule
<1> QED
  BY <1>1, <1>2, <1>3, <1>4, <1>5 DEF Unnoticed, SameHart

LEMMA RequestHaltEffect ==
    ASSUME cpu \in HartState, dm \in ModuleState, AutoexecInv, NEW on \in BOOLEAN, RequestHalt(on)
    PROVE  Unnoticed
<1> DEFINE v == [Quiescent EXCEPT !.haltreq = on]
<1>1. /\ dm.dmactive /\ accessed = "none" /\ accessed' = "control" /\ ghost' = ghost
      /\ WriteDmcontrol(v)
  BY DEF RequestHalt, Access
<1>2. /\ v.dmactive /\ v.haltreq = on /\ ~v.resumereq /\ ~v.hartreset /\ ~v.ndmreset
  BY DEF Quiescent
<1> HIDE DEF v
<1>3. dm' = ControlModule(dm, v) /\ cpu' = [cpu EXCEPT !.halt_request = on]
  BY <1>1, <1>2 DEF WriteDmcontrol, ControlHart
<1>4. /\ dm' \in ModuleState /\ SameModule(dm, dm') /\ dm'.dmactive
      /\ dm'.cmderr = dm.cmderr
      /\ dm'.autoexecdata = dm.autoexecdata /\ dm'.autoexecprogbuf = dm.autoexecprogbuf
      /\ dm'.debug_rom_flags = dm.debug_rom_flags
  <2>1. Controlled(dm, v, dm')
    BY <1>2, <1>3, ControlModuleFrame
  <2> QED
    BY <1>2, <2>1 DEF Controlled
<1>5. AutoexecInv'
  BY <1>4 DEF AutoexecInv, SameModule
<1> QED
  BY <1>1, <1>3, <1>4, <1>5, RequestHart DEF Unnoticed

LEMMA ClearCmderrEffect ==
    ASSUME cpu \in HartState, dm \in ModuleState, AutoexecInv, ClearCmderr
    PROVE  Unnoticed
<1>1. /\ dm.dmactive /\ accessed = "none" /\ accessed' = "control" /\ ghost' = ghost
      /\ ~dm.busy /\ dm' = [dm EXCEPT !.cmderr = CMDERR_NONE] /\ cpu' = cpu
  BY DEF ClearCmderr, Access, Idle, WriteAbstractcs
<1>2. dm' \in ModuleState
  BY <1>1 DEF ModuleState, CMDERR_NONE
<1>3. /\ SameModule(dm, dm') /\ dm'.debug_rom_flags = dm.debug_rom_flags /\ dm'.dmactive
      /\ dm'.autoexecdata = dm.autoexecdata /\ dm'.autoexecprogbuf = dm.autoexecprogbuf
  BY <1>1 DEF ModuleState, SameModule
<1>4. AutoexecInv'
  BY <1>3 DEF AutoexecInv, SameModule
<1> QED
  BY <1>1, <1>2, <1>3, <1>4 DEF Unnoticed, SameHart

LEMMA SetAutoEffect ==
    ASSUME cpu \in HartState, dm \in ModuleState, AutoexecInv, NEW auto \in AutoMask, SetAuto(auto)
    PROVE  Unnoticed
<1>1. /\ dm.dmactive /\ accessed = "none" /\ accessed' = "control" /\ ghost' = ghost
      /\ dm.command # NoCommand /\ cpu' = cpu
      /\ dm' = [dm EXCEPT !.autoexecdata = auto.data, !.autoexecprogbuf = auto.progbuf]
  BY DEF SetAuto, Access, WriteAbstractauto
<1>2. auto.data \in BOOLEAN /\ auto.progbuf \in SUBSET (1..ProgBufSize)
  BY DebugSystemAssumption
<1>3. dm' \in ModuleState
  BY <1>1, <1>2 DEF ModuleState
<1>4. /\ SameModule(dm, dm') /\ dm'.debug_rom_flags = dm.debug_rom_flags /\ dm'.dmactive
      /\ dm'.cmderr = dm.cmderr
  BY <1>1 DEF ModuleState, SameModule
<1>5. AutoexecInv'
  BY <1>1, <1>4 DEF AutoexecInv, SameModule
<1> QED
  BY <1>1, <1>3, <1>4, <1>5 DEF Unnoticed, SameHart

\* The debugger asks a halted hart to resume.
ResumeEffect ==
    /\ cpu' \in HartState /\ dm' \in ModuleState /\ SameHart /\ SameModule(dm, dm')
    /\ dm.halted /\ ~dm.busy /\ ~Resuming /\ cpu.dpc \notin DebugMemory
    /\ ~cpu'.halt_request /\ dm'.cmderr = dm.cmderr
    /\ dm'.dmactive /\ dm'.debug_rom_flags = dm.debug_rom_flags \cup {"RESUME"}
    /\ AutoexecInv'
    /\ accessed = "none" /\ accessed' = "control"
    /\ ghost' = [ghost EXCEPT !.resuming = TRUE]

LEMMA RequestResumeEffect ==
    ASSUME cpu \in HartState, dm \in ModuleState, AutoexecInv, RequestResume
    PROVE  ResumeEffect
<1> DEFINE v == [Quiescent EXCEPT !.resumereq = TRUE]
<1>1. /\ dm.dmactive /\ accessed = "none" /\ accessed' = "control"
      /\ ~dm.busy /\ dm.halted /\ ~Resuming /\ cpu.dpc \notin DebugMemory
      /\ ghost' = [ghost EXCEPT !.resuming = TRUE]
      /\ WriteDmcontrol(v)
  BY DEF RequestResume, Access, Idle, Acknowledged, Resuming
<1>2. /\ v.dmactive /\ v.haltreq = FALSE /\ v.haltreq \in BOOLEAN
      /\ v.resumereq /\ ~v.hartreset /\ ~v.ndmreset
  BY DEF Quiescent
<1> HIDE DEF v
<1>3. dm' = ControlModule(dm, v) /\ cpu' = [cpu EXCEPT !.halt_request = FALSE]
  BY <1>1, <1>2 DEF WriteDmcontrol, ControlHart
<1>4. /\ dm' \in ModuleState /\ SameModule(dm, dm') /\ dm'.dmactive /\ dm'.cmderr = dm.cmderr
      /\ dm'.autoexecdata = dm.autoexecdata /\ dm'.autoexecprogbuf = dm.autoexecprogbuf
      /\ dm'.debug_rom_flags = dm.debug_rom_flags \cup {"RESUME"}
  <2>1. Controlled(dm, v, dm')
    BY <1>2, <1>3, ControlModuleFrame
  <2> QED
    BY <1>2, <2>1 DEF Controlled
<1>5. AutoexecInv'
  BY <1>4 DEF AutoexecInv, SameModule
<1>6. ~cpu'.halt_request
  BY <1>3 DEF HartState
<1> QED
  BY <1>1, <1>3, <1>4, <1>5, <1>6, RequestHart DEF ResumeEffect

\* A reset of the hart: one that was in debug mode will halt again.
ResetEffect ==
    /\ cpu' \in HartState /\ dm' \in ModuleState /\ SameModule(dm, dm')
    /\ ~cpu'.debug_mode /\ cpu'.single_step = 0 /\ cpu'.mip = {} /\ cpu'.pc = START_PC
    /\ cpu'.regs["s0"] = 0
    /\ cpu.debug_mode => cpu'.halt_request
    /\ cpu' = [ResetState EXCEPT !.halt_request = cpu.debug_mode] /\ dm'.cmderr = dm.cmderr
    /\ ~dm.busy /\ ~Resuming
    /\ dm'.dmactive /\ dm'.debug_rom_flags = dm.debug_rom_flags
    /\ AutoexecInv'
    /\ accessed = "none" /\ accessed' = "control"
    /\ ghost' = [ghost EXCEPT !.s0 = 0, !.stepping = "free"]

LEMMA ResetLineEffect ==
    ASSUME cpu \in HartState, dm \in ModuleState, AutoexecInv,
           NEW lines \in ResetLines, NEW halt \in BOOLEAN, ResetLine(lines, halt)
    PROVE  ResetEffect
<1> DEFINE v == [Quiescent EXCEPT !.hartreset = "hartreset" \in lines,
                                  !.ndmreset  = "ndmreset" \in lines, !.haltreq = halt]
           requested == [cpu EXCEPT !.halt_request = halt]
<1>1. /\ dm.dmactive /\ accessed = "none" /\ accessed' = "control"
      /\ ~dm.busy /\ ~Resuming
      /\ ghost' = [ghost EXCEPT !.s0 = 0, !.stepping = "free"]
      /\ WriteDmcontrol(v)
  BY DEF ResetLine, Access, Idle, Acknowledged, Resuming
<1>2. /\ v.dmactive /\ v.haltreq = halt /\ ~v.resumereq
      /\ v.hartreset = ("hartreset" \in lines) /\ v.ndmreset = ("ndmreset" \in lines)
  BY DEF Quiescent
<1>3. lines \in {{"hartreset"}, {"ndmreset"}}
  BY DebugSystemAssumption
<1> HIDE DEF v, requested
<1>4. dm' = ControlModule(dm, v) /\ cpu' = ControlHart(cpu, v)
  BY <1>1, <1>2 DEF WriteDmcontrol
<1>5. cpu' = ResetHart(requested)
  BY <1>2, <1>3, <1>4 DEF ControlHart, requested
<1>6. requested \in HartState /\ requested.debug_mode = cpu.debug_mode
  BY DEF requested, HartState
<1>7. cpu' = [ResetState EXCEPT !.halt_request = cpu.debug_mode]
  BY <1>5, <1>6 DEF ResetHart
<1>8. /\ ~cpu'.debug_mode /\ cpu'.single_step = 0 /\ cpu'.mip = {} /\ cpu'.pc = START_PC
      /\ cpu'.regs["s0"] = 0 /\ cpu'.halt_request = cpu.debug_mode
  BY <1>7 DEF ResetState, Reg
<1>9. cpu' \in HartState
  BY <1>5, <1>6, ResetHartType
<1>10. /\ dm' \in ModuleState /\ SameModule(dm, dm') /\ dm'.dmactive /\ dm'.cmderr = dm.cmderr
       /\ dm'.autoexecdata = dm.autoexecdata /\ dm'.autoexecprogbuf = dm.autoexecprogbuf
       /\ dm'.debug_rom_flags = dm.debug_rom_flags
  <2>1. Controlled(dm, v, dm')
    BY <1>2, <1>4, ControlModuleFrame
  <2> QED
    BY <1>2, <2>1 DEF Controlled
<1>11. AutoexecInv'
  BY <1>10 DEF AutoexecInv, SameModule
<1> QED
  BY <1>1, <1>7, <1>8, <1>9, <1>10, <1>11 DEF ResetEffect

\* The cycle that completes a command clears busy and closes its account.
CompletionEffect ==
    /\ cpu' = cpu /\ accessed' = accessed
    /\ dm' \in ModuleState
    /\ dm.busy /\ dm.completed /\ ~dm'.busy
    /\ dm'.completed = dm.completed /\ dm'.halted = dm.halted /\ dm'.dmdata = dm.dmdata
    /\ dm'.debug_abstract = dm.debug_abstract /\ dm'.debug_rom_flags = dm.debug_rom_flags
    /\ dm'.cmderr = dm.cmderr
    /\ AutoexecInv'
    /\ ghost' = Opened(ghost, NoCommand)

LEMMA RunTestIdleEffect ==
    ASSUME cpu \in HartState, dm \in ModuleState, AutoexecInv, ~dm.dmactive => ~dm.busy /\ ~Resuming,
           RunTestIdle
    PROVE  Unnoticed \/ CompletionEffect
<1> DEFINE left == IF dm.rti_remaining > 0 THEN dm.rti_remaining - 1 ELSE 0
           busy == dm.busy /\ ~(left = 0 /\ dm.completed)
<1>1. /\ dm' = [dm EXCEPT !.rti_remaining = left, !.busy = busy]
      /\ cpu' = cpu /\ accessed' = accessed
      /\ ghost' = IF dm.busy /\ ~dm'.busy THEN Opened(ghost, NoCommand) ELSE ghost
  BY DEF RunTestIdle, run_test_idle, TickRunTestIdle, ObserveIdle, Completes
<1>2. left \in 0..AbstractRti /\ busy \in BOOLEAN
  <2>1. dm.rti_remaining \in 0..AbstractRti /\ AbstractRti \in Nat /\ dm.busy \in BOOLEAN
    BY Constants DEF ModuleState
  <2> QED
    BY <2>1
<1>3. busy \in {dm.busy, FALSE} /\ (dm.busy /\ ~busy => dm.completed)
  OBVIOUS
<1> HIDE DEF left, busy
<1>4. dm' \in ModuleState
  BY <1>1, <1>2 DEF ModuleState
<1>5. /\ dm'.busy = busy /\ dm'.completed = dm.completed /\ dm'.halted = dm.halted
      /\ dm'.debug_abstract = dm.debug_abstract /\ dm'.program_buffer = dm.program_buffer
      /\ dm'.command = dm.command /\ dm'.dmdata = dm.dmdata
      /\ dm'.debug_rom_flags = dm.debug_rom_flags /\ dm'.cmderr = dm.cmderr
      /\ dm'.dmactive = dm.dmactive
      /\ dm'.autoexecdata = dm.autoexecdata /\ dm'.autoexecprogbuf = dm.autoexecprogbuf
  BY <1>1 DEF ModuleState
<1>6. AutoexecInv'
  BY <1>5 DEF AutoexecInv
<1>7. CASE dm.busy /\ ~busy
  BY <1>1, <1>3, <1>4, <1>5, <1>6, <1>7 DEF CompletionEffect
<1>8. CASE ~(dm.busy /\ ~busy)
  <2>1. busy = dm.busy /\ ghost' = ghost
    BY <1>1, <1>2, <1>3, <1>5, <1>8 DEF ModuleState
  <2> QED
    BY <1>1, <1>4, <1>5, <1>6, <2>1 DEF Unnoticed, SameHart, SameModule
<1> QED
  BY <1>7, <1>8

-----------------------------------------------------------------------------
(* The jump to the code, the dret, and the steps outside debug mode.       *)

LEMMA EnterCodeStep ==
    ASSUME cpu \in HartState, ghost \in Ghost, InSession, cpu.pc = 768, CoreStep
    PROVE  /\ cpu' \in HartState /\ accessed' = "none" /\ dm' = dm
           /\ Moves(cpu, cpu', 788) /\ Keeps(cpu, cpu')
           /\ ghost' \in Ghost /\ ghost'.stepping = "free" /\ ghost'.resuming = ghost.resuming
           /\ ghost'.s0 = ghost.s0 /\ ghost'.command = ghost.command
           /\ ghost'.faulted = ghost.faulted
           /\ ghost'.entered = IF ghost.entered < 2 THEN ghost.entered + 1 ELSE ghost.entered
<1> DEFINE word == FetchDebug(cpu, dm)
           inst == Resolve(word, cpu, dm)
<1>1. word = jal(788) /\ inst = jal(788) /\ cpu.pc \in DebugAddress
  <2>1. cpu.pc \notin RomAddress
    BY RomLength DEF RomAddress, DEBUG_ROM_ENTRY
  <2>2. word = jal(788)
    BY <2>1 DEF FetchDebug, DEBUG_ROM_WHERETO, debug_abstract_start
  <2> QED
    BY <2>2, RomAddresses DEF Resolve, jal
<1>2. jal(788) \in Instruction
  <2>1. 788 \in AbstractAddress
    <3>1. 0 \in 0..11 /\ 788 = 788 + 4 * 0
      OBVIOUS
    <3> QED
      BY <3>1 DEF AbstractAddress, debug_abstract_start
  <2>2. 788 \in Address
    BY <2>1, Constants DEF DebugAddress
  <2> QED
    BY <2>2, RomInstructions
<1>3. /\ FallsThrough(inst) => cpu.pc + inst.len \in Address
      /\ cpu' = StepEffect(cpu, inst)
      /\ dm' = HartStore(dm, word, cpu)
      /\ accessed' = "none"
      /\ inst \in Instruction => ghost' \in Ghost
      /\ ghost'.command = ghost.command
      /\ inst.op # "set" => ghost'.s0 = ghost.s0
      /\ ghost'.entered = IF ghost.entered < 2 THEN ghost.entered + 1 ELSE ghost.entered
      /\ inst.op # "fault" => ghost'.faulted = ghost.faulted
      /\ ghost'.resuming = (ghost.resuming /\ word # store("RESUMING"))
      /\ inst.op # "dret" => ghost'.stepping = "free"
  BY <1>1, FetchedWord DEF InSession, Ghost
<1> HIDE DEF word, inst
<1>4. cpu' \in HartState /\ Effect(cpu, inst, cpu')
  <2>1. BeginStep(cpu) = cpu
    BY DEF BeginStep, InSession
  <2> QED
    BY <1>1, <1>2, <1>3, <2>1, StepEffectType, InstructionEffect DEF Fetchable, InSession
<1>5. Moves(cpu, cpu', 788) /\ Keeps(cpu, cpu')
  BY <1>1, <1>4 DEF Effect, jal
<1>6. dm' = dm
  BY <1>1, <1>3 DEF HartStore, jal, store
<1> QED
  BY <1>1, <1>2, <1>3, <1>4, <1>5, <1>6 DEF jal, store, Ghost

LEMMA LeaveStep ==
    ASSUME cpu \in HartState, ghost \in Ghost, InSession, cpu.mip = {}, cpu.pc = 2160, CoreStep
    PROVE  /\ cpu' \in HartState /\ accessed' = "none" /\ dm' = dm
           /\ ~cpu'.debug_mode /\ cpu'.pc = cpu.dpc
           /\ cpu'.regs = cpu.regs /\ cpu'.mip = {} /\ cpu'.halt_request = cpu.halt_request
           /\ cpu'.single_step = IF cpu.dcsr.step THEN 1 ELSE 0
           /\ ghost' \in Ghost
           /\ ghost'.stepping = IF cpu.dcsr.step THEN "due" ELSE "free"
           /\ ghost'.s0 = ghost.s0 /\ ghost'.entered = ghost.entered
           /\ cpu'.privilege = cpu.dcsr.prv /\ cpu'.dcsr = cpu.dcsr
           /\ ghost'.command = ghost.command
<1> DEFINE word == FetchDebug(cpu, dm)
           inst == Resolve(word, cpu, dm)
           dret == [op |-> "dret"]
<1>1. word = dret /\ inst = dret /\ cpu.pc \in DebugAddress
  <2>1. word = dret
    BY RomFetch
  <2> QED
    BY <2>1, RomAddresses DEF Resolve
<1>2. dret \in Instruction
  BY DEF Instruction
<1>3. /\ cpu' = StepEffect(cpu, inst)
      /\ dm' = HartStore(dm, word, cpu)
      /\ accessed' = "none"
      /\ inst \in Instruction => ghost' \in Ghost
      /\ inst.op # "set" => ghost'.s0 = ghost.s0
      /\ cpu.pc # 768 => ghost'.entered = ghost.entered
      /\ ghost'.command = ghost.command
      /\ inst.op = "dret" => ghost'.stepping = IF cpu.dcsr.step THEN "due" ELSE "free"
  BY <1>1, FetchedWord DEF InSession, Ghost
<1> HIDE DEF word, inst
<1>4. inst.op = "dret" /\ word.op = "dret"
  BY <1>1
<1>5. cpu' \in HartState
  <2>1. BeginStep(cpu) = cpu
    BY DEF BeginStep, InSession
  <2>2. Fetchable(cpu, inst)
    BY <1>4 DEF Fetchable, FallsThrough
  <2> QED
    BY <1>1, <1>2, <1>3, <2>1, <2>2, StepEffectType
<1>6. dm' = dm
  BY <1>1, <1>3 DEF HartStore, store
<1>7. /\ ~cpu'.debug_mode /\ cpu'.pc = cpu.dpc
      /\ cpu'.regs = cpu.regs /\ cpu'.mip = {} /\ cpu'.halt_request = cpu.halt_request
      /\ cpu'.single_step = IF cpu.dcsr.step THEN 1 ELSE 0
      /\ cpu'.privilege = cpu.dcsr.prv /\ cpu'.dcsr = cpu.dcsr
  BY <1>3, <1>4, LeaveEffect DEF InSession
<1> QED
  BY <1>1, <1>2, <1>3, <1>4, <1>5, <1>6, <1>7

LEMMA DebugMemoryBound ==
    ASSUME NEW p \in Nat
    PROVE  p \in DebugMemory <=> p < 4096
  BY DEF DebugMemory

\* No word of the program lies in debug memory.
LEMMA DebugMemoryHolds == DebugAddress \subseteq DebugMemory
<1>1. \A p \in RomAddress : p \in Nat /\ p < 4096
  BY RomLength DEF RomAddress, DEBUG_ROM_ENTRY
<1>2. \A p \in AbstractAddress : p \in Nat /\ p < 4096
  BY DEF AbstractAddress, debug_abstract_start
<1>3. \A p \in ProgBufAddress \cup {debug_progbuf_start + 4 * ProgBufSize} : p \in Nat /\ p < 4096
  BY Constants DEF ProgBufAddress, debug_progbuf_start
<1>4. \A p \in DebugAddress : p \in Nat /\ p < 4096
  BY <1>1, <1>2, <1>3 DEF DebugAddress, DEBUG_ROM_WHERETO
<1> QED
  BY <1>4, DebugMemoryBound

\* A step outside debug mode that a halt request diverts.
LEMMA HaltStep ==
    ASSUME cpu \in HartState, ghost \in Ghost, ~cpu.debug_mode, cpu.halt_request,
           cpu.single_step \in {0, 1}, CoreStep
    PROVE  /\ cpu' \in HartState /\ accessed' = "none" /\ dm' = dm /\ ghost' = ghost
           /\ cpu'.debug_mode /\ cpu'.single_step = 0 /\ cpu'.pc \in {2048, 2060}
           /\ cpu'.regs = cpu.regs /\ cpu'.mip = cpu.mip
           /\ cpu'.halt_request
           /\ cpu'.dcsr.cause = DCSR_CAUSE_DEBUGINT /\ Saves(cpu, cpu', cpu.pc)
<1> DEFINE c == BeginStep(cpu)
           word == FetchDebug(c, dm)
           inst == Resolve(word, c, dm)
<1>1. c.debug_mode /\ c.pc = 2048
  BY DEF BeginStep, EnterDebugMode, HartState, DEBUG_ROM_ENTRY
<1>2. c.pc \in DebugAddress
  BY <1>1, RomAddresses DEF Handshake, Entering
<1> HIDE DEF c
<1>3. word = jal(2060) /\ inst = jal(2060)
  <2>1. word = jal(2060)
    BY <1>1, RomFetch
  <2> QED
    BY <2>1 DEF Resolve, jal
<1>4. Fetched(c) = {word}
  BY <1>2 DEF Fetched
<1>5. Fetchable(c, inst) /\ HartStep(word) /\ ObserveStep(word) /\ accessed' = "none"
  BY <1>4 DEF CoreStep, c
<1>6. cpu' = StepEffect(cpu, inst) /\ dm' = HartStore(dm, word, c)
  BY <1>5 DEF HartStep, c
<1>7. 2060 \in Address /\ jal(2060) \in Instruction
  BY RomAddresses, RomInstructions DEF Handshake, Entering
<1>8. cpu' \in HartState
  BY <1>3, <1>5, <1>6, <1>7, StepEffectType DEF c
<1>9. /\ cpu'.debug_mode /\ cpu'.single_step = 0 /\ cpu'.pc \in {2048, 2060}
      /\ cpu'.regs = cpu.regs /\ cpu'.mip = cpu.mip
      /\ cpu'.halt_request
      /\ cpu'.dcsr.cause = DCSR_CAUSE_DEBUGINT /\ Saves(cpu, cpu', cpu.pc)
  BY <1>3, <1>6, <1>7, HaltEffect
<1>10. dm' = dm
  BY <1>3, <1>6 DEF HartStore, jal, store
<1>11. ghost' = ghost
  <2>1. inst.op = "jump" /\ word # store("RESUMING") /\ c.pc # DEBUG_ROM_WHERETO
    BY <1>1, <1>3 DEF jal, store, DEBUG_ROM_WHERETO
  <2>2. Stepped(c, inst) = ghost.stepping
    BY <1>1, <2>1 DEF Stepped
  <2>3. ~Faults(c, inst)
    BY <2>1 DEF Faults
  <2> HIDE DEF word, inst
  <2>4. ghost' = [ghost EXCEPT !.s0 = ghost.s0, !.entered = ghost.entered,
                               !.faulted = ghost.faulted, !.resuming = ghost.resuming,
                               !.stepping = ghost.stepping]
    <3>1. ghost' = [ghost EXCEPT !.s0 = @, !.entered = @, !.faulted = @ \/ FALSE,
                                 !.resuming = @ /\ TRUE, !.stepping = Stepped(c, inst)]
      BY <1>5, <2>1, <2>3 DEF ObserveStep, c, word, inst
    <3> QED
      BY <2>2, <3>1 DEF Ghost
  <2> QED
    BY <2>4 DEF Ghost
<1> QED
  BY <1>5, <1>8, <1>9, <1>10, <1>11

\* A step of the program.
LEMMA ProgramStep ==
    ASSUME cpu \in HartState, ghost \in Ghost, ~cpu.debug_mode, ~cpu.halt_request,
           cpu.single_step \in {0, 1}, cpu.mip = {}, cpu.pc \notin DebugMemory,
           ghost.stepping = IF cpu.single_step = 1 THEN "due" ELSE "free", CoreStep
    PROVE  /\ cpu' \in HartState /\ accessed' = "none" /\ dm' = dm
           /\ cpu'.single_step = 0 /\ cpu'.mip = {}
           /\ IF cpu'.debug_mode
                THEN /\ cpu'.pc = 2048 /\ cpu'.dcsr.cause # DCSR_CAUSE_DEBUGINT
                     /\ ghost'.stepping \in {"free", "ran_one"}
                ELSE cpu'.pc \notin DebugMemory /\ ghost'.stepping = "free"
           /\ ghost' \in Ghost /\ ghost'.entered = ghost.entered
           /\ ghost'.command = ghost.command
           /\ \E inst \in ProgramInst : Runs(cpu, inst, cpu')
           /\ cpu.regs["s0"] = ghost.s0 => cpu'.regs["s0"] = ghost'.s0
<1>1. BeginStep(cpu) = cpu
  BY DEF BeginStep
<1>2. Fetched(cpu) = ProgramInst
  BY DebugMemoryHolds DEF Fetched
<1>3. PICK inst \in ProgramInst : /\ Fetchable(cpu, Resolve(inst, cpu, dm))
                                  /\ HartStep(inst) /\ ObserveStep(inst)
  BY <1>1, <1>2 DEF CoreStep
<1>4. /\ inst.op \in {"alu", "set", "jump", "ebreak"}
      /\ inst.op = "jump" => inst.to \notin DebugMemory
      /\ inst.op = "set" => inst.reg \in Reg /\ inst.val \in Value
      /\ inst \in Instruction
  BY DebugSystemAssumption DEF Instruction
<1>5. Resolve(inst, cpu, dm) = inst
  BY <1>4 DEF Resolve
<1>6. cpu' = StepEffect(cpu, inst) /\ dm' = HartStore(dm, inst, cpu) /\ Fetchable(cpu, inst)
  BY <1>1, <1>3, <1>5 DEF HartStep
<1>7. cpu' \in HartState
  BY <1>1, <1>4, <1>6, StepEffectType
<1>8. cpu'.single_step = 0 /\ cpu'.mip = {} /\ Runs(cpu, inst, cpu')
  BY <1>6, ProgramEffect
<1>9. dm' = dm
  BY <1>4, <1>6 DEF HartStore, store
<1> DEFINE s0 == IF inst.op = "set" /\ inst.reg = "s0" THEN inst.val ELSE ghost.s0
           stepping == IF cpu.single_step = 1 THEN "ran_one" ELSE "free"
<1>10. ghost' = [ghost EXCEPT !.s0 = s0, !.stepping = stepping]
  <2>1. inst # store("RESUMING")
    BY <1>4 DEF store
  <2>2. Stepped(cpu, inst) = stepping
    BY <1>4 DEF Stepped
  <2>3. ghost' = [ghost EXCEPT !.s0 = s0, !.entered = @, !.faulted = @ \/ FALSE,
                               !.resuming = @ /\ TRUE, !.stepping = Stepped(cpu, inst)]
    BY <1>1, <1>3, <1>5, <2>1 DEF ObserveStep
  <2> HIDE DEF s0, stepping
  <2> QED
    BY <2>2, <2>3 DEF Ghost
<1>11. s0 \in Value /\ stepping \in {"free", "due", "ran_one", "ran_more"}
  BY <1>4 DEF Ghost
<1> HIDE DEF s0, stepping
<1>12. /\ ghost' \in Ghost /\ ghost'.entered = ghost.entered
       /\ ghost'.s0 = s0 /\ ghost'.stepping = stepping
       /\ ghost'.command = ghost.command
  BY <1>10, <1>11 DEF Ghost
<1>13. cpu.regs["s0"] = ghost.s0 => cpu'.regs["s0"] = s0
  BY <1>4, <1>8 DEF s0, HartState, Reg, Runs
<1>14. cpu.pc + 4 \notin DebugMemory
  <2>1. cpu.pc \in Nat
    BY FixedAddresses DEF HartState
  <2>2. ~(cpu.pc < 4096)
    BY <2>1, DebugMemoryBound
  <2>3. cpu.pc + 4 \in Nat /\ ~(cpu.pc + 4 < 4096)
    BY <2>1, <2>2
  <2> QED
    BY <2>3, DebugMemoryBound
<1>15. accessed' = "none"
  BY DEF CoreStep
<1>16. IF cpu'.debug_mode
         THEN /\ cpu'.pc = 2048 /\ cpu'.dcsr.cause # DCSR_CAUSE_DEBUGINT
              /\ ghost'.stepping \in {"free", "ran_one"}
         ELSE cpu'.pc \notin DebugMemory /\ ghost'.stepping = "free"
  <2>1. CASE cpu.single_step = 1 \/ inst.op = "ebreak"
    BY <1>8, <1>12, <2>1
       DEF stepping, Runs, DCSR_CAUSE_SWBP, DCSR_CAUSE_STEP, DCSR_CAUSE_DEBUGINT
  <2>2. CASE ~(cpu.single_step = 1 \/ inst.op = "ebreak")
    BY <1>4, <1>8, <1>12, <1>14, <2>2 DEF stepping, Runs
  <2> QED
    BY <2>1, <2>2
<1> QED
  BY <1>4, <1>7, <1>8, <1>9, <1>12, <1>13, <1>15, <1>16

-----------------------------------------------------------------------------
(* The invariant of the handshake.                                         *)

\* The ROM has taken the GO flag of the command and not yet reported its end.
Running == dm.busy /\ ~Going /\ ~dm.completed

\* A session runs with no step armed, at the addresses of the ROM, the code and
\* the program buffer; the program lies elsewhere.
SessionInv ==
    /\ cpu.mip = {}
    /\ cpu.single_step \in {0, 1}
    /\ cpu.debug_mode =>
          /\ cpu.single_step = 0
          /\ cpu.pc \in Handshake \cup {768, 2160} \/ cpu.pc \in Code
    /\ ~cpu.debug_mode => cpu.pc \notin DebugMemory

\* A hart reported halted is in debug mode, or a reset it has not yet taken a
\* step after will take it there.
HaltInv == dm.halted => cpu.debug_mode \/ (accessed = "control" /\ cpu.halt_request)

\* GO is up only while a command waits to be launched, RESUME only while a halted
\* hart has been asked to resume.
FlagsInv ==
    /\ ~dm.dmactive => ~dm.busy /\ ~Resuming
    /\ Going => dm.busy /\ ~dm.completed
    /\ dm.busy => cpu.debug_mode /\ dm.halted
    /\ Resuming => /\ ~dm.busy /\ cpu.debug_mode /\ dm.halted
                   /\ cpu.dpc \notin DebugMemory /\ ghost.resuming

\* What the module holds when the hart is at an address of the ROM or the code.
WhereInv ==
    cpu.debug_mode =>
        /\ cpu.pc \in Launching => Going
        /\ cpu.pc \in Leading \cup Exception => Running
        /\ cpu.pc \in Code => Running
        /\ cpu.pc \in Leaving => Resuming
        /\ cpu.pc \in Left => ~dm.halted /\ cpu.dpc \notin DebugMemory
        /\ Running => \/ cpu.pc \in Leading \cup Exception \cup Entering \cup {2068, 2072}
                      \/ cpu.pc \in Code
        /\ dm.busy /\ dm.completed => cpu.pc \in ParkLoop

\* What the park loop has read of the flags stands until it has acted on it.
ReadInv ==
    cpu.debug_mode =>
        /\ cpu.pc = 2080 /\ cpu.regs["s0"] % 2 = 1 => Going
        /\ cpu.pc = 2084 /\ cpu.regs["s0"] # 0 => Going
        /\ cpu.pc = 2096 /\ (cpu.regs["s0"] \div 2) % 2 = 1 => Resuming
        /\ cpu.pc = 2100 /\ cpu.regs["s0"] # 0 => Resuming

\* The account of the command in progress.
AccountInv ==
    /\ ghost.entered <= 1
    /\ dm.busy =>
          /\ ghost.command \in Command
          /\ dm.debug_abstract = AbstractCode(ghost.command)
          /\ ghost.command.transfer => ghost.command.regno \in Reg \cup CsrRegno
          /\ ghost.entered = IF Going \/ cpu.pc \in Leading THEN 0 ELSE 1
          /\ ghost.faulted => dm.cmderr # CMDERR_NONE \/ cpu.pc \in {2056, 2112, 2116}

\* The account of the single step.
StepInv ==
    IF cpu.debug_mode
      THEN /\ ghost.stepping \in {"free", "due", "ran_one"}
           /\ ghost.stepping = "due" => cpu.dcsr.cause = DCSR_CAUSE_DEBUGINT
           /\ ghost.stepping = "ran_one" => cpu.dcsr.cause # DCSR_CAUSE_DEBUGINT
      ELSE ghost.stepping = IF cpu.single_step = 1 THEN "due" ELSE "free"

HandshakeInv ==
    /\ SystemTypeOK
    /\ SessionInv /\ HaltInv /\ FlagsInv /\ AutoexecInv
    /\ WhereInv /\ ReadInv /\ AccountInv /\ StepInv

\* The code of a command lies below the program buffer, and both below the ROM.
LEMMA CodeRegion ==
    ASSUME NEW d \in ModuleState
    PROVE  CodeAddress(d.debug_abstract) \subseteq {788, 792, 796, 800, 804}
<1>1. Len(d.debug_abstract) \in 0..5
  <2>1. CASE d.debug_abstract = <<>>
    BY <2>1
  <2>2. CASE d.debug_abstract # <<>>
    <3>1. PICK cmd \in Command : d.debug_abstract = AbstractCode(cmd)
      BY <2>2 DEF ModuleState
    <3> QED
      BY <3>1, CodeShape
  <2> QED
    BY <2>1, <2>2
<1> DEFINE n == Len(d.debug_abstract)
<1> HIDE DEF n
<1>2. n \in 0..5
  BY <1>1 DEF n
<1>3. \A i \in 0 .. n - 1 : i \in 0..4
  BY <1>2
<1>4. \A i \in 0..4 : 788 + 4 * i \in {788, 792, 796, 800, 804}
  OBVIOUS
<1>5. CodeAddress(d.debug_abstract) = { 788 + 4 * i : i \in 0 .. n - 1 }
  BY DEF CodeAddress, debug_abstract_start, n
<1> QED
  BY <1>3, <1>4, <1>5

LEMMA BufferRegion == \A p \in Buffered : p \in Nat /\ 836 <= p /\ p <= 896
  BY Constants DEF Buffered, ProgBufAddress, debug_progbuf_start

LEMMA Apart ==
    ASSUME NEW d \in ModuleState, NEW p \in CodeAddress(d.debug_abstract) \cup Buffered
    PROVE  /\ p \notin Handshake \cup {768, 2160}
           /\ p \in Nat /\ p < 2000
<1>1. p \in {788, 792, 796, 800, 804} \/ (p \in Nat /\ 836 <= p /\ p <= 896)
  BY CodeRegion, BufferRegion
<1> QED
  BY <1>1 DEF Handshake, Entering, ParkLoop, Exception, Launching, Leaving

-----------------------------------------------------------------------------
(* The invariant is kept: the ROM.                                         *)

\* The module after a step of the ROM.
RomModule ==
    /\ dm' \in ModuleState
    /\ dm'.dmactive = dm.dmactive /\ dm'.busy = dm.busy /\ dm'.dmdata = dm.dmdata
    /\ dm'.autoexecdata = dm.autoexecdata /\ dm'.autoexecprogbuf = dm.autoexecprogbuf
    /\ dm'.program_buffer = dm.program_buffer /\ dm'.command = dm.command
    /\ dm'.debug_abstract = dm.debug_abstract
    /\ dm'.halted <=> cpu.pc = 2072 \/ (dm.halted /\ cpu.pc # 2152)
    /\ dm'.completed <=> dm.completed \/ (cpu.pc = 2072 /\ ~Going)
    /\ Going' <=> Going /\ cpu.pc # 2128
    /\ Resuming' <=> Resuming /\ cpu.pc # 2152
    /\ dm'.cmderr = IF cpu.pc = 2116 /\ dm.cmderr = CMDERR_NONE THEN CMDERR_EXCEPTION ELSE dm.cmderr
    /\ dm.cmderr # CMDERR_NONE => dm'.cmderr # CMDERR_NONE
    /\ cpu.pc = 2116 => dm'.cmderr # CMDERR_NONE

LEMMA RomModuleEffect ==
    ASSUME dm \in ModuleState, RomStores
    PROVE  RomModule
<1>1. CASE cpu.pc = 2072
  <2> DEFINE completed == dm.completed \/ "GO" \notin dm.debug_rom_flags
  <2>1. dm' = [dm EXCEPT !.halted = TRUE, !.completed = completed]
    BY <1>1 DEF RomStores, NoteHalted
  <2>2. completed \in BOOLEAN /\ (completed <=> dm.completed \/ ~Going)
    BY DEF Going
  <2> HIDE DEF completed
  <2>3. dm' \in ModuleState
    BY <2>1, <2>2 DEF ModuleState
  <2>4. /\ dm'.dmactive = dm.dmactive /\ dm'.busy = dm.busy /\ dm'.dmdata = dm.dmdata
        /\ dm'.autoexecdata = dm.autoexecdata /\ dm'.autoexecprogbuf = dm.autoexecprogbuf
        /\ dm'.program_buffer = dm.program_buffer /\ dm'.command = dm.command
        /\ dm'.debug_abstract = dm.debug_abstract /\ dm'.cmderr = dm.cmderr
    BY <2>1 DEF ModuleState
  <2>5. dm'.halted /\ dm'.completed = completed /\ dm'.debug_rom_flags = dm.debug_rom_flags
    BY <2>1 DEF ModuleState
  <2> QED
    BY <1>1, <2>1, <2>2, <2>3, <2>4, <2>5 DEF RomModule, Going, Resuming
<1>2. CASE cpu.pc = 2116
  <2> DEFINE cmderr == IF dm.cmderr = CMDERR_NONE THEN CMDERR_EXCEPTION ELSE dm.cmderr
  <2>1. dm' = [dm EXCEPT !.cmderr = cmderr]
    BY <1>2 DEF RomStores, NoteException
  <2>2. cmderr \in 0..4 /\ cmderr # CMDERR_NONE
    BY DEF ModuleState, CMDERR_NONE, CMDERR_EXCEPTION
  <2>3. cmderr = IF cpu.pc = 2116 /\ dm.cmderr = CMDERR_NONE THEN CMDERR_EXCEPTION ELSE dm.cmderr
    BY <1>2
  <2> HIDE DEF cmderr
  <2>4. dm'.cmderr = cmderr
    BY <2>1 DEF ModuleState
  <2> QED
    BY <1>2, <2>1, <2>2, <2>3, <2>4 DEF RomModule, ModuleState, Going, Resuming
<1>3. CASE cpu.pc = 2128
  <2> DEFINE flags == dm.debug_rom_flags \ {"GO"}
  <2>1. dm' = [dm EXCEPT !.debug_rom_flags = flags]
    BY <1>3 DEF RomStores, NoteGoing
  <2>2. /\ flags \in SUBSET {"GO", "RESUME"}
        /\ "GO" \notin flags /\ ("RESUME" \in flags <=> Resuming)
    BY DEF ModuleState, Resuming
  <2> HIDE DEF flags
  <2> QED
    BY <1>3, <2>1, <2>2 DEF RomModule, ModuleState, Going, Resuming
<1>4. CASE cpu.pc = 2152
  <2> DEFINE flags == dm.debug_rom_flags \ {"RESUME"}
  <2>1. dm' = [dm EXCEPT !.halted = FALSE, !.resumeack = TRUE, !.debug_rom_flags = flags]
    BY <1>4 DEF RomStores, NoteResuming
  <2>2. /\ flags \in SUBSET {"GO", "RESUME"}
        /\ "RESUME" \notin flags /\ ("GO" \in flags <=> Going)
    BY DEF ModuleState, Going
  <2> HIDE DEF flags
  <2>3. dm' \in ModuleState
    BY <2>1, <2>2 DEF ModuleState
  <2>4. /\ dm'.dmactive = dm.dmactive /\ dm'.busy = dm.busy /\ dm'.dmdata = dm.dmdata
        /\ dm'.autoexecdata = dm.autoexecdata /\ dm'.autoexecprogbuf = dm.autoexecprogbuf
        /\ dm'.program_buffer = dm.program_buffer /\ dm'.command = dm.command
        /\ dm'.debug_abstract = dm.debug_abstract /\ dm'.cmderr = dm.cmderr
    BY <2>1 DEF ModuleState
  <2>5. ~dm'.halted /\ dm'.completed = dm.completed /\ dm'.debug_rom_flags = flags
    BY <2>1 DEF ModuleState
  <2> QED
    BY <1>4, <2>1, <2>2, <2>3, <2>4, <2>5 DEF RomModule, Going, Resuming
<1>5. CASE cpu.pc \notin {2072, 2116, 2128, 2152}
  BY <1>5 DEF RomStores, RomModule, ModuleState, Going, Resuming
<1> QED
  BY <1>1, <1>2, <1>3, <1>4, <1>5

LEMMA RomPlace ==
    ASSUME cpu.pc \in Handshake, RomPc
    PROVE  cpu'.pc \in Handshake \cup {768, 2160}
<1>1. CASE cpu.pc \in Sequential
  BY <1>1 DEF RomPc, Sequential, Handshake, Entering, ParkLoop, Exception, Launching, Leaving
<1>2. CASE cpu.pc \notin Sequential
  <2>1. cpu.pc \in {2048, 2056, 2084, 2100, 2108, 2120, 2144}
    BY <1>2 DEF Sequential, Handshake, Entering, ParkLoop, Exception, Launching, Leaving
  <2>2. cpu'.pc \in {2060, 2112, 2124, 2088, 2148, 2104, 2068, 2048, 768}
    BY <2>1 DEF RomPc
  <2> QED
    BY <2>2 DEF Handshake, Entering, ParkLoop, Exception, Launching, Leaving
<1> QED
  BY <1>1, <1>2

\* The bits of the byte that the park loop reads.
LEMMA FlagBits ==
    /\ FlagsByte(dm) % 2 = 1 => Going
    /\ (FlagsByte(dm) \div 2) % 2 = 1 => Resuming
    /\ \A v \in Nat : /\ FlagBit(v, "GO") # 0 => v % 2 = 1
                      /\ FlagBit(v, "RESUME") # 0 => (v \div 2) % 2 = 1
<1>1. /\ 0 % 2 = 0 /\ 1 % 2 = 1 /\ 2 % 2 = 0 /\ 3 % 2 = 1
      /\ (0 \div 2) % 2 = 0 /\ (1 \div 2) % 2 = 0 /\ (2 \div 2) % 2 = 1 /\ (3 \div 2) % 2 = 1
  OBVIOUS
<1>2. FlagsByte(dm) = IF Going THEN IF Resuming THEN 3 ELSE 1 ELSE IF Resuming THEN 2 ELSE 0
  BY DEF FlagsByte, Going, Resuming
<1>3. \A v \in Nat : /\ FlagBit(v, "GO") # 0 => v % 2 = 1
                     /\ FlagBit(v, "RESUME") # 0 => (v \div 2) % 2 = 1
  BY DEF FlagBit
<1> QED
  BY <1>1, <1>2, <1>3

LEMMA RomKeeps ==
    ASSUME HandshakeInv, InSession, cpu.pc \in Handshake, CoreStep
    PROVE  HandshakeInv'
<1>1. /\ cpu \in HartState /\ dm \in ModuleState /\ ghost \in Ghost
      /\ SessionInv /\ HaltInv /\ FlagsInv /\ AutoexecInv
      /\ WhereInv /\ ReadInv /\ AccountInv /\ cpu.debug_mode
  BY DEF HandshakeInv, SystemTypeOK, TypeOK, InSession
<1>2. /\ cpu' \in HartState
      /\ Moves(cpu, cpu', cpu'.pc)
      /\ cpu'.dpc = cpu.dpc
      /\ RomPc /\ RomS0 /\ RomStores
      /\ accessed' = "none"
      /\ ghost' \in Ghost /\ ghost'.stepping = "free"
      /\ ghost'.resuming = (ghost.resuming /\ cpu.pc # 2152)
      /\ KeepsAccount
  BY <1>1, RomStep DEF ModuleState
<1>3. RomModule
  BY <1>1, <1>2, RomModuleEffect
<1>4. cpu'.pc \in Handshake \cup {768, 2160}
  BY <1>2, RomPlace
<1>5. cpu.pc \notin Code /\ cpu'.pc \notin Code'
  <2>1. dm' \in ModuleState
    BY <1>3 DEF RomModule
  <2> QED
    BY <1>1, <1>4, <2>1, Apart DEF Code, Assembled
<1>6. cpu'.debug_mode /\ cpu'.single_step = 0 /\ cpu'.mip = cpu.mip
  BY <1>2 DEF Moves
<1>7. SystemTypeOK'
  BY <1>2, <1>3 DEF SystemTypeOK, TypeOK, RomModule
<1>8. SessionInv'
  BY <1>1, <1>4, <1>6 DEF SessionInv
<1>9. HaltInv'
  BY <1>6 DEF HaltInv
<1>10. FlagsInv'
  <2>1. cpu.pc = 2152 => Resuming
    BY <1>1 DEF WhereInv, Leaving
  <2>2. ~dm'.dmactive => ~dm'.busy /\ ~Resuming'
    BY <1>1, <1>3 DEF FlagsInv, RomModule
  <2>3. Going' => dm'.busy /\ ~dm'.completed
    BY <1>1, <1>3 DEF FlagsInv, RomModule
  <2>4. dm'.busy => dm'.halted
    BY <1>1, <1>3, <2>1 DEF FlagsInv, RomModule
  <2>5. Resuming' => /\ ~dm'.busy /\ dm'.halted
                     /\ cpu'.dpc \notin DebugMemory /\ ghost'.resuming
    <3>1. Resuming' => Resuming /\ cpu.pc # 2152
      BY <1>3 DEF RomModule
    <3>2. Resuming => ~dm.busy /\ dm.halted /\ cpu.dpc \notin DebugMemory /\ ghost.resuming
      BY <1>1 DEF FlagsInv
    <3>3. dm'.busy = dm.busy /\ (dm.halted /\ cpu.pc # 2152 => dm'.halted)
      BY <1>3 DEF RomModule
    <3>4. cpu'.dpc = cpu.dpc /\ ghost'.resuming = (ghost.resuming /\ cpu.pc # 2152)
      BY <1>2
    <3>5. Resuming' => ghost'.resuming
      BY <1>1, <1>2, <3>1, <3>2, <3>4 DEF Ghost
    <3>6. Resuming' => ~dm'.busy
      BY <3>1, <3>2, <3>3
    <3>7. Resuming' => dm'.halted
      BY <3>1, <3>2, <3>3
    <3>8. Resuming' => cpu'.dpc \notin DebugMemory
      BY <3>1, <3>2, <3>4
    <3> QED
      BY <3>5, <3>6, <3>7, <3>8
  <2> QED
    BY <1>6, <2>2, <2>3, <2>4, <2>5 DEF FlagsInv
<1>11. AutoexecInv'
  BY <1>1, <1>3 DEF AutoexecInv, RomModule
<1>12. WhereInv'
  <2>1. cpu'.pc \in Launching => Going'
    <3>1. cpu'.pc \in Launching => (cpu.pc = 2084 /\ cpu.regs["s0"] # 0) \/ cpu.pc = 2124
      BY <1>2
      DEF RomPc, Sequential, Handshake, Entering, ParkLoop, Exception, Launching, Leaving
    <3> QED
      BY <1>1, <1>3, <3>1 DEF WhereInv, ReadInv, RomModule, Launching
  <2>2. cpu'.pc \in Leading \cup Exception => Running'
    <3>1. cpu'.pc \in Leading \cup Exception => cpu.pc \in (Leading \cup Exception) \/ cpu.pc = 2128
      BY <1>2
      DEF RomPc, Sequential, Handshake, Entering, ParkLoop, Exception, Launching, Leaving, Leading
    <3>2. CASE cpu.pc \in Leading \cup Exception
      BY <1>1, <1>3, <3>2 DEF WhereInv, RomModule, Running, Leading, Exception
    <3>3. CASE cpu.pc = 2128
      BY <1>1, <1>3, <3>3 DEF WhereInv, FlagsInv, RomModule, Running, Launching
    <3> QED
      BY <3>1, <3>2, <3>3
  <2>3. cpu'.pc \in Leaving => Resuming'
    <3>1. cpu'.pc \in Leaving => (cpu.pc = 2100 /\ cpu.regs["s0"] # 0) \/ cpu.pc = 2148
      BY <1>2
      DEF RomPc, Sequential, Handshake, Entering, ParkLoop, Exception, Launching, Leaving
    <3> QED
      BY <1>1, <1>3, <3>1 DEF WhereInv, ReadInv, RomModule, Leaving
  <2>4. cpu'.pc \in Left => ~dm'.halted /\ cpu'.dpc \notin DebugMemory
    <3>1. cpu'.pc \in Left => cpu.pc \in {2152, 2156}
      BY <1>2
      DEF RomPc, Sequential, Handshake, Entering, ParkLoop, Exception, Launching, Leaving, Left
    <3> QED
      BY <1>1, <1>2, <1>3, <3>1 DEF WhereInv, FlagsInv, RomModule, Leaving, Left
  <2>5. ASSUME Running'
        PROVE  cpu'.pc \in Leading \cup Exception \cup Entering \cup {2068, 2072}
    <3>1. CASE Running
      <4>1. cpu.pc \in Leading \cup Exception \cup Entering \cup {2068}
        <5>1. cpu.pc \in Leading \cup Exception \cup Entering \cup {2068, 2072}
          BY <1>1, <1>5, <3>1 DEF WhereInv
        <5>2. cpu.pc # 2072
          BY <1>3, <2>5, <3>1 DEF RomModule, Running
        <5> QED
          BY <5>1, <5>2
      <4> QED
        BY <1>2, <4>1 DEF RomPc, Sequential, Handshake, Entering, ParkLoop, Exception, Launching,
                          Leaving, Leading
    <3>2. CASE ~Running
      <4>1. cpu.pc = 2128
        BY <1>3, <2>5, <3>2 DEF RomModule, Running
      <4> QED
        BY <1>2, <4>1 DEF RomPc, Sequential, Leading
    <3> QED
      BY <3>1, <3>2
  <2>6. ASSUME dm'.busy, dm'.completed
        PROVE  cpu'.pc \in ParkLoop
    <3>1. CASE dm.completed
      <4>1. cpu.pc \in ParkLoop /\ ~Going /\ ~Resuming
        BY <1>1, <1>3, <2>6, <3>1 DEF WhereInv, FlagsInv, RomModule
      <4>2. (cpu.pc = 2084 => cpu.regs["s0"] = 0) /\ (cpu.pc = 2100 => cpu.regs["s0"] = 0)
        BY <1>1, <4>1 DEF ReadInv
      <4> QED
        BY <1>2, <4>1, <4>2 DEF RomPc, Sequential, ParkLoop
    <3>2. CASE ~dm.completed
      <4>1. cpu.pc = 2072
        BY <1>3, <2>6, <3>2 DEF RomModule
      <4> QED
        BY <1>2, <4>1 DEF RomPc, Sequential, ParkLoop
    <3> QED
      BY <3>1, <3>2
  <2>7. (cpu.pc \in Code => Running)'
    BY <1>5
  <2>8. (Running => cpu.pc \in Leading \cup Exception \cup Entering \cup {2068, 2072}
                    \/ cpu.pc \in Code)'
    BY <2>5
  <2>9. (dm.busy /\ dm.completed => cpu.pc \in ParkLoop)'
    BY <2>6
  <2> QED
    BY <2>1, <2>2, <2>3, <2>4, <2>7, <2>8, <2>9 DEF WhereInv
<1>13. ReadInv'
  <2>1. cpu.regs["s0"] \in Nat
    <3>1. cpu.regs \in [Reg -> Value]
      BY <1>1 DEF HartState
    <3>2. Value \subseteq Nat
      BY Constants
    <3> QED
      BY <3>1, <3>2 DEF Reg
  <2>2. /\ cpu'.pc = 2080 => cpu.pc = 2076
        /\ cpu'.pc = 2084 => cpu.pc = 2080
        /\ cpu'.pc = 2096 => cpu.pc = 2092
        /\ cpu'.pc = 2100 => cpu.pc = 2096
    BY <1>2 DEF RomPc, Sequential, Handshake, Entering, ParkLoop, Exception, Launching, Leaving
  <2>3. /\ cpu.pc = 2076 \/ cpu.pc = 2092 => cpu'.regs["s0"] = FlagsByte(dm)
        /\ cpu.pc = 2080 => cpu'.regs["s0"] = FlagBit(cpu.regs["s0"], "GO")
        /\ cpu.pc = 2096 => cpu'.regs["s0"] = FlagBit(cpu.regs["s0"], "RESUME")
    BY <1>2 DEF RomS0
  <2>4. cpu.pc # 2128 /\ cpu.pc # 2152 => (Going <=> Going') /\ (Resuming <=> Resuming')
    BY <1>3 DEF RomModule
  <2>5. cpu'.pc = 2080 /\ cpu'.regs["s0"] % 2 = 1 => Going'
    BY <2>2, <2>3, <2>4, FlagBits
  <2>6. cpu'.pc = 2096 /\ (cpu'.regs["s0"] \div 2) % 2 = 1 => Resuming'
    BY <2>2, <2>3, <2>4, FlagBits
  <2>7. cpu'.pc = 2084 /\ cpu'.regs["s0"] # 0 => Going'
    BY <1>1, <2>1, <2>2, <2>3, <2>4, FlagBits DEF ReadInv
  <2>8. cpu'.pc = 2100 /\ cpu'.regs["s0"] # 0 => Resuming'
    BY <1>1, <2>1, <2>2, <2>3, <2>4, FlagBits DEF ReadInv
  <2> QED
    BY <2>5, <2>6, <2>7, <2>8 DEF ReadInv
<1>14. AccountInv'
  <2>1. /\ ghost'.command = ghost.command /\ ghost'.entered = ghost.entered
        /\ ghost'.faulted = ghost.faulted
        /\ dm'.busy = dm.busy /\ dm'.debug_abstract = dm.debug_abstract
    BY <1>2, <1>3 DEF KeepsAccount, RomModule
  <2>2. (Going' \/ cpu'.pc \in Leading) <=> (Going \/ cpu.pc \in Leading)
    <3>1. (cpu'.pc \in Leading) <=> (cpu.pc \in Leading \/ cpu.pc = 2128)
      BY <1>2
      DEF RomPc, Sequential, Handshake, Entering, ParkLoop, Exception, Launching, Leaving, Leading
    <3>2. cpu.pc = 2128 => Going
      BY <1>1 DEF WhereInv, Launching
    <3> QED
      BY <1>3, <3>1, <3>2 DEF RomModule
  <2>3. dm.cmderr # CMDERR_NONE \/ cpu.pc \in {2056, 2112, 2116}
           => dm'.cmderr # CMDERR_NONE \/ cpu'.pc \in {2056, 2112, 2116}
    <3>1. cpu.pc \in {2056, 2112} => cpu'.pc \in {2112, 2116}
      BY <1>2 DEF RomPc, Sequential
    <3> QED
      BY <1>3, <3>1 DEF RomModule
  <2> QED
    BY <1>1, <2>1, <2>2, <2>3 DEF AccountInv
<1>15. StepInv'
  BY <1>2, <1>6 DEF StepInv
<1> QED
  BY <1>7, <1>8, <1>9, <1>10, <1>11, <1>12, <1>13, <1>14, <1>15 DEF HandshakeInv

-----------------------------------------------------------------------------
(* The invariant is kept: the code and the program buffer.                 *)

DataStep == dm' \in ModuleState /\ \E data : dm' = [dm EXCEPT !.dmdata = data]

\* A step in the code of a command: the data word is all that changes in the
\* module, and the step ends in the code, at the entry of the ROM, or, if it
\* faults, at the exception vector.
CodeEffect ==
    /\ cpu' \in HartState /\ ghost' \in Ghost /\ DataStep
    /\ Moves(cpu, cpu', cpu'.pc) /\ cpu'.pc \in Code \cup {2048, 2056}
    /\ accessed' = "none"
    /\ ghost'.stepping = "free"
    /\ ghost'.command = ghost.command /\ ghost'.entered = ghost.entered
    /\ ghost'.faulted => ghost.faulted \/ cpu'.pc = 2056

\* What the words of the code do to pc and to the data word.
LEMMA CodeWordMoves ==
    ASSUME cpu \in HartState, dm \in ModuleState, NEW word, IsCodeWord(word), CodeWord(word)
    PROVE  /\ Moves(cpu, cpu', cpu'.pc) /\ DataStep
           /\ word \in {jal(836), ebreak} => cpu'.pc \in {836, 2048}
           /\ \A csr \in CsrRegno :
                 word = csrw_s0(csr) \/ word = csrr_s0(csr) => cpu'.pc = cpu.pc + 4
           /\ \A reg \in Reg : word = lw_data(reg) \/ word = sw_data(reg) => cpu'.pc = cpu.pc + 4
<1>1. dm.dmdata \in Value /\ dm = [dm EXCEPT !.dmdata = dm.dmdata]
  BY DEF ModuleState
<1>2. \A reg \in Reg : cpu.regs[reg] \in Value
  BY DEF HartState
<1>3. \A data \in Value : [dm EXCEPT !.dmdata = data] \in ModuleState
  BY DEF ModuleState
<1>4. ASSUME NEW regs, NEW scratch, NEW dpc, NEW dcsr, NEW data \in Value,
             Puts(regs, scratch, dpc, dcsr, data)
      PROVE  Moves(cpu, cpu', cpu'.pc) /\ cpu'.pc = cpu.pc + 4 /\ DataStep
  BY <1>3, <1>4 DEF Puts, Moves, DataStep
<1>5. CASE word = jal(836) \/ word = ebreak
  <2>1. /\ word = jal(836) => Moves(cpu, cpu', 836) /\ dm' = dm
        /\ word = ebreak => Moves(cpu, cpu', 2048) /\ dm' = dm
    BY DEF CodeWord
  <2>2. DataStep
    BY <1>1, <1>5, <2>1 DEF DataStep
  <2>3. Moves(cpu, cpu', cpu'.pc) /\ cpu'.pc \in {836, 2048}
    BY <1>5, <2>1 DEF Moves
  <2>4. word.op \in {"jump", "ebreak"}
    BY <1>5 DEF jal, ebreak
  <2>5. /\ \A csr \in CsrRegno : word # csrw_s0(csr) /\ word # csrr_s0(csr)
        /\ \A reg \in Reg : word # lw_data(reg) /\ word # sw_data(reg)
    BY <2>4 DEF csrw_s0, csrr_s0, lw_data, sw_data
  <2> QED
    BY <2>2, <2>3, <2>5
<1>6. CASE \E csr \in CsrRegno : word = csrw_s0(csr) \/ word = csrr_s0(csr)
  <2>1. \E regs, scratch, dpc, dcsr : Puts(regs, scratch, dpc, dcsr, dm.dmdata)
    BY <1>6 DEF CodeWord
  <2>2. Moves(cpu, cpu', cpu'.pc) /\ cpu'.pc = cpu.pc + 4 /\ DataStep
    BY <1>1, <1>4, <2>1
  <2>3. word.op \in {"csrw_s0", "csrr_s0"}
    BY <1>6 DEF csrw_s0, csrr_s0
  <2>4. word \notin {jal(836), ebreak}
    BY <2>3 DEF jal, ebreak
  <2> QED
    BY <2>2, <2>4
<1>7. CASE \E reg \in Reg : word = lw_data(reg) \/ word = sw_data(reg)
  <2>1. PICK reg \in Reg : word = lw_data(reg) \/ word = sw_data(reg)
    BY <1>7
  <2>2. \/ Puts(SetReg(reg, dm.dmdata), cpu.dscratch0, cpu.dpc, cpu.dcsr, dm.dmdata)
        \/ Puts(cpu.regs, cpu.dscratch0, cpu.dpc, cpu.dcsr, cpu.regs[reg])
    BY <2>1 DEF CodeWord
  <2>3. Moves(cpu, cpu', cpu'.pc) /\ cpu'.pc = cpu.pc + 4 /\ DataStep
    BY <1>1, <1>2, <1>4, <2>2
  <2>4. word.op \in {"lw_data", "sw_data"}
    BY <2>1 DEF lw_data, sw_data
  <2>5. word \notin {jal(836), ebreak}
    BY <2>4 DEF jal, ebreak
  <2> QED
    BY <2>3, <2>5
<1> QED
  BY <1>5, <1>6, <1>7 DEF IsCodeWord

LEMMA AssembledEffect ==
    ASSUME cpu \in HartState, dm \in ModuleState, ghost \in Ghost, InSession,
           Holds(ghost.command), cpu.pc \in Assembled, CoreStep
    PROVE  CodeEffect
<1> DEFINE cmd == ghost.command
           word == FetchDebug(cpu, dm)
<1>1. /\ cpu.pc \in DebugAddress /\ cpu.pc # 768
      /\ IsCodeWord(word)
      /\ ~cmd.transfer => cpu.pc = 788 /\ word = Ending(cmd)
      /\ cmd.transfer /\ cmd.regno \in CsrRegno => CsrCode(cpu.pc, word, cmd)
      /\ cmd.transfer /\ cmd.regno \notin CsrRegno => RegCode(cpu.pc, word, cmd)
  BY AssembledWord
<1> HIDE DEF cmd, word
<1>2. cpu' \in HartState /\ accessed' = "none" /\ CodeWord(word) /\ CodeAccount(word)
  BY <1>1, CodeWordStep DEF word
<1>3. /\ Moves(cpu, cpu', cpu'.pc) /\ DataStep
      /\ word \in {jal(836), ebreak} => cpu'.pc \in {836, 2048}
      /\ \A csr \in CsrRegno :
            word = csrw_s0(csr) \/ word = csrr_s0(csr) => cpu'.pc = cpu.pc + 4
      /\ \A reg \in Reg : word = lw_data(reg) \/ word = sw_data(reg) => cpu'.pc = cpu.pc + 4
  BY <1>1, <1>2, CodeWordMoves
<1>4. Ending(cmd) \in {jal(836), ebreak} /\ "dscratch0" \in CsrRegno /\ "s0" \in Reg
  BY DEF Ending, debug_progbuf_start, CsrRegno, Reg
<1>5. cpu'.pc \in Shape(cmd) \cup {836, 2048}
  <2>1. CASE ~cmd.transfer
    BY <1>1, <1>3, <1>4, <2>1
  <2>2. CASE cmd.transfer /\ cmd.regno \in CsrRegno
    <3>1. Shape(cmd) = {788, 792, 796, 800, 804}
      BY <2>2 DEF Shape
    <3>2. CsrCode(cpu.pc, word, cmd)
      BY <1>1, <2>2
    <3>3. CASE cpu.pc = 804 /\ word = Ending(cmd)
      BY <1>3, <1>4, <3>3
    <3>4. CASE ~(cpu.pc = 804 /\ word = Ending(cmd))
      <4>1. cpu.pc \in {788, 792, 796, 800} /\ cpu'.pc = cpu.pc + 4
        BY <1>3, <1>4, <2>2, <3>2, <3>4 DEF CsrCode
      <4> QED
        BY <3>1, <4>1
    <3> QED
      BY <3>3, <3>4
  <2>3. CASE cmd.transfer /\ cmd.regno \notin CsrRegno
    <3>1. cmd.regno \in Reg
      BY <2>3 DEF Holds, cmd
    <3>2. RegCode(cpu.pc, word, cmd)
      BY <1>1, <2>3
    <3>3. CASE word = Ending(cmd)
      BY <1>3, <1>4, <3>3
    <3>4. CASE word # Ending(cmd)
      <4>1. /\ cpu.pc \in {788, 792} /\ (cpu.pc = 792 => cmd.write /\ cmd.regno = "s0")
            /\ cpu'.pc = cpu.pc + 4
        BY <1>3, <1>4, <3>1, <3>2, <3>4 DEF RegCode
      <4> QED
        BY <2>3, <4>1 DEF Shape
    <3> QED
      BY <3>3, <3>4
  <2> QED
    BY <2>1, <2>2, <2>3
<1>6. Assembled = Shape(cmd)
  BY AssembledShape DEF cmd
<1>7. cpu'.pc \in Code \cup {2048, 2056}
  BY <1>5, <1>6, ProgBufStart DEF Code
<1>8. /\ ghost' \in Ghost /\ ghost'.stepping = "free"
      /\ ghost'.command = ghost.command /\ ghost'.entered = ghost.entered
      /\ ghost'.faulted = ghost.faulted
  BY <1>2 DEF CodeAccount
<1>9. ghost'.faulted => ghost.faulted \/ cpu'.pc = 2056
  BY <1>8 DEF Ghost
<1> QED
  BY <1>2, <1>3, <1>7, <1>8, <1>9 DEF CodeEffect

LEMMA BufferedEffect ==
    ASSUME cpu \in HartState, dm \in ModuleState, ghost \in Ghost, InSession, AutoexecInv,
           cpu.pc \in Buffered, CoreStep
    PROVE  CodeEffect
<1>1. \A i \in 1..ProgBufSize : dm.program_buffer[i] \in BufferWord
  BY DEF AutoexecInv
<1>2. PICK word \in BufferWord :
         /\ Effect(cpu, word, cpu')
         /\ (cpu'.pc = 2056) = (word.op = "fault")
         /\ ghost'.faulted = (ghost.faulted \/ word.op = "fault")
  BY <1>1, BufferedStep
<1>3. /\ cpu' \in HartState
      /\ Moves(cpu, cpu', cpu'.pc)
      /\ cpu'.pc \in Buffered \cup {2048, 2056}
      /\ dm' = dm /\ accessed' = "none" /\ ghost' \in Ghost
      /\ ghost'.stepping = "free" /\ ghost'.command = ghost.command
      /\ ghost'.entered = ghost.entered
  BY <1>1, BufferedStep
<1>4. ghost'.faulted => ghost.faulted \/ cpu'.pc = 2056
  BY <1>2, <1>3 DEF Ghost
<1>5. DataStep
  BY <1>3 DEF ModuleState, DataStep
<1> QED
  BY <1>3, <1>4, <1>5 DEF CodeEffect, Code

LEMMA CodeKeeps ==
    ASSUME HandshakeInv, InSession, cpu.pc \in Code, CoreStep
    PROVE  HandshakeInv'
<1>1. /\ cpu \in HartState /\ dm \in ModuleState /\ ghost \in Ghost
      /\ SessionInv /\ HaltInv /\ FlagsInv /\ AutoexecInv
      /\ WhereInv /\ AccountInv /\ cpu.debug_mode
  BY DEF HandshakeInv, SystemTypeOK, TypeOK, InSession
<1>2. Running
  BY <1>1 DEF WhereInv
<1>3. Holds(ghost.command)
  BY <1>1, <1>2 DEF AccountInv, Running, Holds
<1>4. CodeEffect
  BY <1>1, <1>3, AssembledEffect, BufferedEffect DEF Code
<1>5. /\ dm'.dmactive = dm.dmactive /\ dm'.busy = dm.busy /\ dm'.cmderr = dm.cmderr
      /\ dm'.halted = dm.halted /\ dm'.completed = dm.completed
      /\ dm'.debug_rom_flags = dm.debug_rom_flags /\ dm'.debug_abstract = dm.debug_abstract
      /\ dm'.autoexecdata = dm.autoexecdata /\ dm'.autoexecprogbuf = dm.autoexecprogbuf
      /\ dm'.program_buffer = dm.program_buffer /\ dm'.command = dm.command
  BY <1>1, <1>4 DEF CodeEffect, DataStep, ModuleState
<1>6. Code' = Code
  BY <1>5 DEF Code, Assembled
<1>7. /\ Going' = Going /\ Resuming' = Resuming /\ Running'
      /\ cpu'.debug_mode /\ cpu'.single_step = 0 /\ cpu'.mip = cpu.mip
      /\ cpu'.pc \in Code \cup {2048, 2056}
  BY <1>2, <1>4, <1>5 DEF CodeEffect, Moves, Going, Resuming, Running
<1>8. cpu.pc \notin Handshake \cup {768, 2160}
  BY <1>1, Apart DEF Code, Assembled
<1>9. cpu'.pc \notin Handshake \ {2048, 2056} /\ cpu'.pc \notin {768, 2160}
  <2>1. CASE cpu'.pc \in Code
    BY <1>1, <2>1, Apart DEF Code, Assembled
  <2>2. CASE cpu'.pc \in {2048, 2056}
    BY <2>2
  <2> QED
    BY <1>7, <2>1, <2>2
<1>10. SystemTypeOK'
  BY <1>4 DEF SystemTypeOK, TypeOK, CodeEffect, DataStep
<1>11. SessionInv'
  BY <1>1, <1>6, <1>7 DEF SessionInv, Handshake, Entering, Exception
<1>12. HaltInv'
  BY <1>7 DEF HaltInv
<1>13. dm.busy /\ ~Going /\ ~dm.completed /\ ~Resuming
  BY <1>1, <1>2 DEF FlagsInv, Running
<1>14. FlagsInv'
  BY <1>1, <1>5, <1>7, <1>13 DEF FlagsInv
<1>15. AutoexecInv'
  BY <1>1, <1>5 DEF AutoexecInv
<1>16. cpu'.pc \notin ParkLoop \cup Launching \cup Leaving \cup Left \cup Leading
  BY <1>9 DEF Handshake, Entering, ParkLoop, Launching, Leaving, Left, Leading
<1>17. WhereInv'
  <2>1. (Running => \/ cpu.pc \in Leading \cup Exception \cup Entering \cup {2068, 2072}
                    \/ cpu.pc \in Code)'
    BY <1>6, <1>7 DEF Exception, Entering
  <2> QED
    BY <1>5, <1>7, <1>13, <1>16, <2>1 DEF WhereInv
<1>18. ReadInv'
  BY <1>16 DEF ReadInv, ParkLoop
<1>19. AccountInv'
  <2>1. /\ ghost'.command = ghost.command /\ ghost'.entered = ghost.entered
        /\ ghost'.faulted => ghost.faulted \/ cpu'.pc = 2056
    BY <1>4 DEF CodeEffect
  <2>2. cpu.pc \notin Leading /\ cpu.pc \notin {2056, 2112, 2116}
    BY <1>8 DEF Handshake, Exception, Leading
  <2>3. ghost'.faulted => dm'.cmderr # CMDERR_NONE \/ cpu'.pc \in {2056, 2112, 2116}
    BY <1>1, <1>5, <1>13, <2>1, <2>2 DEF AccountInv
  <2>4. ghost'.entered = 1 /\ ~Going' /\ cpu'.pc \notin Leading
    BY <1>1, <1>7, <1>13, <1>16, <2>1, <2>2 DEF AccountInv
  <2> QED
    BY <1>1, <1>5, <1>13, <2>1, <2>3, <2>4 DEF AccountInv
<1>20. StepInv'
  BY <1>4, <1>7 DEF StepInv, CodeEffect
<1> QED
  BY <1>10, <1>11, <1>12, <1>14, <1>15, <1>17, <1>18, <1>19, <1>20 DEF HandshakeInv

-----------------------------------------------------------------------------
(* The invariant is kept: into the code, out of the session, into the      *)
(* session.                                                                *)

LEMMA EnterCodeKeeps ==
    ASSUME HandshakeInv, InSession, cpu.pc = 768, CoreStep
    PROVE  HandshakeInv'
<1>1. /\ cpu \in HartState /\ dm \in ModuleState /\ ghost \in Ghost
      /\ SessionInv /\ HaltInv /\ FlagsInv /\ AutoexecInv
      /\ WhereInv /\ AccountInv /\ cpu.debug_mode
  BY DEF HandshakeInv, SystemTypeOK, TypeOK, InSession
<1>2. Running
  BY <1>1 DEF WhereInv, Leading
<1>3. dm.busy /\ ~Going /\ ~dm.completed /\ ~Resuming
  BY <1>1, <1>2 DEF FlagsInv, Running
<1>4. 788 \in Code
  <2>1. Holds(ghost.command)
    BY <1>1, <1>3 DEF AccountInv, Holds
  <2>2. Assembled = Shape(ghost.command)
    BY <2>1, AssembledShape
  <2> QED
    BY <2>2 DEF Code, Shape
<1>5. /\ cpu' \in HartState /\ accessed' = "none" /\ dm' = dm
      /\ Moves(cpu, cpu', 788)
      /\ ghost' \in Ghost /\ ghost'.stepping = "free"
      /\ ghost'.command = ghost.command
      /\ ghost'.faulted = ghost.faulted
      /\ ghost'.entered = IF ghost.entered < 2 THEN ghost.entered + 1 ELSE ghost.entered
  BY <1>1, EnterCodeStep
<1>6. /\ Going' = Going /\ Resuming' = Resuming /\ Running' /\ Code' = Code
      /\ cpu'.debug_mode /\ cpu'.single_step = 0 /\ cpu'.mip = cpu.mip /\ cpu'.pc = 788
  BY <1>2, <1>5 DEF Moves, Going, Resuming, Running, Code, Assembled
<1>7. SystemTypeOK'
  BY <1>1, <1>5 DEF SystemTypeOK, TypeOK
<1>8. SessionInv' /\ HaltInv'
  BY <1>1, <1>4, <1>6 DEF SessionInv, HaltInv
<1>9. FlagsInv'
  BY <1>1, <1>3, <1>5, <1>6 DEF FlagsInv
<1>10. AutoexecInv'
  BY <1>1, <1>5 DEF AutoexecInv
<1>11. cpu'.pc \notin ParkLoop \cup Launching \cup Leaving \cup Left \cup Leading \cup Exception
  BY <1>6 DEF ParkLoop, Launching, Leaving, Left, Leading, Exception
<1>12. WhereInv'
  <2>1. (cpu.pc \in Code)' /\ ~(dm.busy /\ dm.completed)'
    BY <1>3, <1>4, <1>5, <1>6
  <2> QED
    BY <1>6, <1>11, <2>1 DEF WhereInv
<1>13. ReadInv'
  BY <1>11 DEF ReadInv, ParkLoop
<1>14. AccountInv'
  <2>1. ghost.entered = 0
    BY <1>1, <1>3 DEF AccountInv, Leading
  <2>2. ghost'.entered = 1
    BY <1>5, <2>1
  <2>3. ghost'.faulted => dm'.cmderr # CMDERR_NONE \/ cpu'.pc \in {2056, 2112, 2116}
    BY <1>1, <1>3, <1>5 DEF AccountInv
  <2> QED
    BY <1>1, <1>3, <1>5, <1>6, <1>11, <2>2, <2>3 DEF AccountInv
<1>15. StepInv'
  BY <1>5, <1>6 DEF StepInv
<1> QED
  BY <1>7, <1>8, <1>9, <1>10, <1>12, <1>13, <1>14, <1>15 DEF HandshakeInv

\* Out of a session, or with the hart not reported halted, no command executes
\* and no resume is outstanding.
LEMMA Unhalted ==
    ASSUME FlagsInv, ~cpu.debug_mode \/ ~dm.halted
    PROVE  ~dm.busy /\ ~Going /\ ~Resuming /\ ~Running
  BY DEF FlagsInv, Running

LEMMA LeaveKeeps ==
    ASSUME HandshakeInv, InSession, cpu.pc = 2160, CoreStep
    PROVE  HandshakeInv'
<1>1. /\ cpu \in HartState /\ dm \in ModuleState /\ ghost \in Ghost
      /\ SessionInv /\ HaltInv /\ FlagsInv /\ AutoexecInv
      /\ WhereInv /\ AccountInv /\ cpu.debug_mode
  BY DEF HandshakeInv, SystemTypeOK, TypeOK, InSession
<1>2. ~dm.halted /\ cpu.dpc \notin DebugMemory
  BY <1>1 DEF WhereInv, Left
<1>3. ~dm.busy /\ ~Going /\ ~Resuming
  BY <1>1, <1>2, Unhalted
<1>4. cpu.mip = {}
  BY <1>1 DEF SessionInv
<1>5. /\ cpu' \in HartState /\ accessed' = "none" /\ dm' = dm
      /\ ~cpu'.debug_mode /\ cpu'.pc = cpu.dpc /\ cpu'.mip = {}
      /\ cpu'.single_step = IF cpu.dcsr.step THEN 1 ELSE 0
      /\ ghost' \in Ghost
      /\ ghost'.stepping = IF cpu.dcsr.step THEN "due" ELSE "free"
      /\ ghost'.entered = ghost.entered
  BY <1>1, <1>4, LeaveStep
<1>6. ~Going' /\ ~Resuming' /\ ~dm'.busy /\ ~dm'.halted
  BY <1>2, <1>3, <1>5 DEF Going, Resuming
<1>7. SystemTypeOK'
  BY <1>1, <1>5 DEF SystemTypeOK, TypeOK
<1>8. SessionInv' /\ HaltInv'
  BY <1>2, <1>5, <1>6 DEF SessionInv, HaltInv
<1>9. FlagsInv' /\ WhereInv' /\ ReadInv'
  BY <1>5, <1>6 DEF FlagsInv, WhereInv, ReadInv
<1>10. AutoexecInv'
  BY <1>1, <1>5 DEF AutoexecInv
<1>11. AccountInv'
  BY <1>1, <1>5, <1>6 DEF AccountInv
<1>12. StepInv'
  BY <1>5 DEF StepInv
<1> QED
  BY <1>7, <1>8, <1>9, <1>10, <1>11, <1>12 DEF HandshakeInv

\* A hart that enters the session, or stays out of it.
LEMMA OutsideKeeps ==
    ASSUME HandshakeInv, ~cpu.debug_mode, CoreStep
    PROVE  HandshakeInv'
<1>1. /\ cpu \in HartState /\ dm \in ModuleState /\ ghost \in Ghost
      /\ SessionInv /\ HaltInv /\ FlagsInv /\ AutoexecInv
      /\ WhereInv /\ AccountInv /\ StepInv
  BY DEF HandshakeInv, SystemTypeOK, TypeOK
<1>2. ~dm.busy /\ ~Going /\ ~Resuming
  BY <1>1, Unhalted
<1>3. /\ cpu.mip = {} /\ cpu.single_step \in {0, 1} /\ cpu.pc \notin DebugMemory
      /\ ghost.stepping = IF cpu.single_step = 1 THEN "due" ELSE "free"
  BY <1>1 DEF SessionInv, StepInv
<1>4. /\ cpu' \in HartState /\ accessed' = "none" /\ dm' = dm /\ ghost' \in Ghost
      /\ cpu'.single_step = 0 /\ cpu'.mip = {}
      /\ ghost'.entered = ghost.entered
      /\ cpu'.debug_mode => cpu'.pc \in Entering
      /\ ~cpu'.debug_mode => cpu'.pc \notin DebugMemory /\ ~dm.halted
      /\ StepInv'
  <2>1. CASE cpu.halt_request
    <3>1. /\ cpu' \in HartState /\ accessed' = "none" /\ dm' = dm /\ ghost' = ghost
          /\ cpu'.debug_mode /\ cpu'.single_step = 0 /\ cpu'.pc \in {2048, 2060}
          /\ cpu'.mip = cpu.mip /\ cpu'.dcsr.cause = DCSR_CAUSE_DEBUGINT
      BY <1>1, <1>3, <2>1, HaltStep
    <3>2. StepInv'
      BY <1>3, <3>1 DEF StepInv
    <3> QED
      BY <1>1, <1>3, <3>1, <3>2 DEF Entering
  <2>2. CASE ~cpu.halt_request
    <3>1. /\ cpu' \in HartState /\ accessed' = "none" /\ dm' = dm
          /\ cpu'.single_step = 0 /\ cpu'.mip = {}
          /\ IF cpu'.debug_mode
               THEN /\ cpu'.pc = 2048 /\ cpu'.dcsr.cause # DCSR_CAUSE_DEBUGINT
                    /\ ghost'.stepping \in {"free", "ran_one"}
               ELSE cpu'.pc \notin DebugMemory /\ ghost'.stepping = "free"
          /\ ghost' \in Ghost /\ ghost'.entered = ghost.entered
      BY <1>1, <1>3, <2>2, ProgramStep
    <3>2. ~dm.halted
      BY <1>1, <2>2 DEF HaltInv
    <3>3. StepInv'
      BY <3>1 DEF StepInv
    <3> QED
      BY <3>1, <3>2, <3>3 DEF Entering
  <2> QED
    BY <2>1, <2>2
<1>5. ~Going' /\ ~Resuming' /\ ~dm'.busy /\ ~Running' /\ Code' = Code
  BY <1>2, <1>4 DEF Going, Resuming, Running, Code, Assembled
<1>6. SystemTypeOK'
  BY <1>1, <1>4 DEF SystemTypeOK, TypeOK
<1>7. SessionInv' /\ HaltInv'
  BY <1>4 DEF SessionInv, HaltInv, Handshake
<1>8. FlagsInv'
  BY <1>5 DEF FlagsInv
<1>9. AutoexecInv'
  BY <1>1, <1>4 DEF AutoexecInv
<1>10. cpu'.debug_mode => cpu'.pc \notin
           ParkLoop \cup Launching \cup Leaving \cup Left \cup Leading \cup Exception
  BY <1>4 DEF Entering, ParkLoop, Launching, Leaving, Left, Leading, Exception
<1>11. WhereInv'
  <2>1. (cpu.debug_mode => cpu.pc \notin Code)'
    <3>1. cpu'.pc \in Entering => cpu'.pc \notin Code
      BY <1>1, Apart DEF Handshake, Code, Assembled
    <3> QED
      BY <1>4, <1>5, <3>1
  <2> QED
    BY <1>5, <1>10, <2>1 DEF WhereInv
<1>12. ReadInv'
  BY <1>10 DEF ReadInv, ParkLoop
<1>13. AccountInv'
  BY <1>1, <1>4, <1>5 DEF AccountInv
<1> QED
  BY <1>4, <1>6, <1>7, <1>8, <1>9, <1>11, <1>12, <1>13 DEF HandshakeInv

\* A step of the hart.
LEMMA CoreStepKeeps ==
    ASSUME HandshakeInv, CoreStep
    PROVE  HandshakeInv'
<1>1. CASE cpu.debug_mode
  <2>1. InSession /\ (cpu.pc \in Handshake \cup {768, 2160} \/ cpu.pc \in Code)
    BY <1>1 DEF HandshakeInv, SessionInv, InSession
  <2> QED
    BY <2>1, RomKeeps, CodeKeeps, EnterCodeKeeps, LeaveKeeps
<1>2. CASE ~cpu.debug_mode
  BY <1>2, OutsideKeeps
<1> QED
  BY <1>1, <1>2

-----------------------------------------------------------------------------
(* The invariant is kept: the debugger and the transport.                  *)

\* Between the launch of two commands a halted hart waits in the park loop, or
\* is on its way there or out of the session.
LEMMA Waiting ==
    ASSUME HandshakeInv, accessed = "none", dm.halted, ~dm.busy, ~Resuming
    PROVE  cpu.debug_mode /\ cpu.pc \in Entering \cup ParkLoop
<1>1. dm \in ModuleState /\ SessionInv /\ HaltInv /\ FlagsInv /\ WhereInv
  BY DEF HandshakeInv, SystemTypeOK
<1>2. cpu.debug_mode
  BY <1>1 DEF HaltInv
<1>3. ~Going /\ ~Running
  BY <1>1 DEF FlagsInv, Running
<1>4. cpu.pc \in Handshake \cup {768, 2160} /\ cpu.pc \notin Code
  BY <1>1, <1>2, <1>3 DEF SessionInv, WhereInv
<1>5. cpu.pc \notin Launching \cup Leading \cup Exception \cup Leaving \cup Left
  BY <1>1, <1>2, <1>3 DEF WhereInv
<1> QED
  BY <1>2, <1>4, <1>5
  DEF Handshake, Entering, ParkLoop, Exception, Launching, Leaving, Leading, Left

\* The program counter of a hart that waits is in none of the other regions.
LEMMA WaitingApart ==
    ASSUME NEW d \in ModuleState, NEW p \in Entering \cup ParkLoop
    PROVE  /\ p \notin Launching \cup Leading \cup Exception \cup Leaving \cup Left
           /\ p \notin CodeAddress(d.debug_abstract) \cup Buffered
<1>1. p \notin CodeAddress(d.debug_abstract) \cup Buffered
  BY Apart DEF Handshake
<1> QED
  BY <1>1 DEF Entering, ParkLoop, Launching, Leading, Exception, Leaving, Left

\* An account that is opened.
LEMMA OpenedAccount ==
    ASSUME ghost \in Ghost, NEW cmd \in Command \cup {NoCommand}
    PROVE  LET g == Opened(ghost, cmd)
           IN  /\ g \in Ghost /\ g.command = cmd /\ g.entered = 0 /\ ~g.faulted
               /\ g.s0 = ghost.s0 /\ g.resuming = ghost.resuming /\ g.stepping = ghost.stepping
<1> DEFINE g == Opened(ghost, cmd)
           none == 0
           no == FALSE
           commands == Command \cup {NoCommand}
<1>1. g = [ghost EXCEPT !.command = cmd, !.entered = none, !.faulted = no]
  BY DEF Opened
<1>2. none \in 0..2 /\ none = 0 /\ no \in BOOLEAN /\ ~no /\ cmd \in commands
  OBVIOUS
<1>3. Ghost = [ s0 : Value, command : commands, entered : 0..2,
                faulted : BOOLEAN, resuming : BOOLEAN,
                stepping : {"free", "due", "ran_one", "ran_more"} ]
  BY DEF Ghost
<1> HIDE DEF g, none, no, commands
<1>4. g \in Ghost
  BY <1>1, <1>2, <1>3
<1>5. /\ g.command = cmd /\ g.entered = none /\ g.faulted = no
      /\ g.s0 = ghost.s0 /\ g.resuming = ghost.resuming /\ g.stepping = ghost.stepping
  BY <1>1, <1>3
<1> QED
  BY <1>2, <1>4, <1>5 DEF g

LEMMA LaunchKeeps ==
    ASSUME HandshakeInv, AbstractEffect, Launched(dm, dm')
    PROVE  HandshakeInv'
<1>1. /\ cpu \in HartState /\ dm \in ModuleState /\ ghost \in Ghost
      /\ SessionInv /\ HaltInv /\ FlagsInv /\ AutoexecInv
      /\ ReadInv /\ AccountInv /\ StepInv
  BY DEF HandshakeInv, SystemTypeOK, TypeOK
<1>2. /\ cpu' = cpu /\ accessed = "none" /\ accessed' = "abstract"
      /\ dm.dmactive /\ ~Resuming
      /\ dm' \in ModuleState /\ SameLines(dm, dm') /\ Preserves(dm, dm')
      /\ ghost' = IF dm'.busy /\ ~dm.busy THEN Opened(ghost, dm'.command) ELSE ghost
  BY DEF AbstractEffect, Served
<1>3. /\ ~dm.busy /\ dm.halted
      /\ dm'.busy /\ ~dm'.completed /\ dm'.debug_rom_flags = dm.debug_rom_flags \cup {"GO"}
      /\ dm'.command \in Command
      /\ dm'.debug_abstract = AbstractCode(dm'.command)
      /\ dm'.command.transfer => dm'.command.regno \in Reg \cup CsrRegno
  BY DEF Launched
<1>4. cpu.debug_mode /\ cpu.pc \in Entering \cup ParkLoop
  BY <1>2, <1>3, Waiting
<1>5. Going' /\ ~Resuming' /\ ~Running'
  BY <1>2, <1>3 DEF Going, Resuming, Running
<1>6. ghost' = Opened(ghost, dm'.command)
  BY <1>2, <1>3
<1>7. /\ ghost' \in Ghost /\ ghost'.command = dm'.command /\ ghost'.entered = 0
      /\ ~ghost'.faulted /\ ghost'.stepping = ghost.stepping
  BY <1>1, <1>3, <1>6, OpenedAccount
<1>8. dm'.dmactive /\ dm'.halted
      /\ dm'.autoexecdata = dm.autoexecdata /\ dm'.autoexecprogbuf = dm.autoexecprogbuf
  BY <1>2, <1>3 DEF SameLines
<1>9. SystemTypeOK'
  BY <1>1, <1>2, <1>7 DEF SystemTypeOK, TypeOK
<1>10. SessionInv' /\ HaltInv'
  BY <1>1, <1>2, <1>4 DEF SessionInv, HaltInv, Handshake
<1>11. FlagsInv'
  BY <1>2, <1>3, <1>4, <1>5, <1>8 DEF FlagsInv
<1>12. AutoexecInv'
  BY <1>1, <1>2, <1>8 DEF AutoexecInv, Preserves
<1>13. WhereInv'
  <2>1. (cpu.pc \notin Code /\ cpu.pc \notin
            Launching \cup Leading \cup Exception \cup Leaving \cup Left)'
    BY <1>2, <1>4, WaitingApart DEF Code, Assembled
  <2>2. ~(dm.busy /\ dm.completed)'
    BY <1>3
  <2> QED
    BY <1>5, <2>1, <2>2 DEF WhereInv
<1>14. ReadInv'
  BY <1>1, <1>2, <1>5 DEF ReadInv
<1>15. AccountInv'
  BY <1>3, <1>5, <1>7 DEF AccountInv
<1>16. StepInv'
  BY <1>1, <1>2, <1>7 DEF StepInv
<1> QED
  BY <1>9, <1>10, <1>11, <1>12, <1>13, <1>14, <1>15, <1>16 DEF HandshakeInv

LEMMA QuietKeeps ==
    ASSUME HandshakeInv, AbstractEffect, Quiet(dm, dm')
    PROVE  HandshakeInv'
<1>1. /\ cpu \in HartState /\ dm \in ModuleState /\ ghost \in Ghost
      /\ SessionInv /\ HaltInv /\ FlagsInv /\ AutoexecInv
      /\ WhereInv /\ ReadInv /\ AccountInv /\ StepInv
  BY DEF HandshakeInv, SystemTypeOK, TypeOK
<1>2. /\ cpu' = cpu /\ accessed = "none" /\ accessed' = "abstract"
      /\ dm' \in ModuleState /\ SameLines(dm, dm') /\ Preserves(dm, dm')
      /\ ghost' = IF dm'.busy /\ ~dm.busy THEN Opened(ghost, dm'.command) ELSE ghost
  BY DEF AbstractEffect, Served
<1>3. /\ dm'.busy = dm.busy /\ dm'.completed = dm.completed
      /\ dm'.debug_rom_flags = dm.debug_rom_flags /\ dm'.debug_abstract = dm.debug_abstract
      /\ dm.cmderr # CMDERR_NONE => dm'.cmderr # CMDERR_NONE
  BY DEF Quiet, Errs
<1>4. /\ dm'.dmactive = dm.dmactive /\ dm'.halted = dm.halted
      /\ dm'.autoexecdata = dm.autoexecdata /\ dm'.autoexecprogbuf = dm.autoexecprogbuf
  BY <1>2 DEF SameLines
<1>5. ghost' = ghost
  BY <1>2, <1>3
<1>6. Going' = Going /\ Resuming' = Resuming /\ Running' = Running /\ Code' = Code
  BY <1>3 DEF Going, Resuming, Running, Code, Assembled
<1>7. SystemTypeOK'
  BY <1>1, <1>2, <1>5 DEF SystemTypeOK, TypeOK
<1>8. SessionInv'
  BY <1>1, <1>2, <1>6 DEF SessionInv
<1>9. HaltInv'
  BY <1>1, <1>2, <1>4 DEF HaltInv
<1>10. FlagsInv'
  BY <1>1, <1>2, <1>3, <1>4, <1>5, <1>6 DEF FlagsInv
<1>11. AutoexecInv'
  BY <1>1, <1>2, <1>4 DEF AutoexecInv, Preserves
<1>12. WhereInv'
  BY <1>1, <1>2, <1>3, <1>4, <1>6 DEF WhereInv
<1>13. ReadInv'
  BY <1>1, <1>2, <1>6 DEF ReadInv
<1>14. AccountInv'
  BY <1>1, <1>2, <1>3, <1>5, <1>6 DEF AccountInv
<1>15. StepInv'
  BY <1>1, <1>2, <1>5 DEF StepInv
<1> QED
  BY <1>7, <1>8, <1>9, <1>10, <1>11, <1>12, <1>13, <1>14, <1>15 DEF HandshakeInv

LEMMA UnnoticedKeeps ==
    ASSUME HandshakeInv, Unnoticed, accessed' \in {"none", "abstract", "control"}
    PROVE  HandshakeInv'
<1>1. /\ cpu \in HartState /\ dm \in ModuleState /\ ghost \in Ghost
      /\ SessionInv /\ HaltInv /\ FlagsInv /\ AutoexecInv
      /\ WhereInv /\ ReadInv /\ AccountInv /\ StepInv
  BY DEF HandshakeInv, SystemTypeOK, TypeOK
<1>2. /\ cpu' \in HartState /\ dm' \in ModuleState /\ ghost' = ghost
      /\ SameHart /\ SameModule(dm, dm') /\ dm'.debug_rom_flags = dm.debug_rom_flags
      /\ AutoexecInv'
      /\ ~dm'.dmactive => ~dm.busy /\ ~Resuming
      /\ dm'.cmderr = dm.cmderr \/ (~dm.busy /\ dm'.cmderr = CMDERR_NONE)
      /\ \/ accessed = "none" /\ accessed' = "control"
         \/ accessed' = accessed /\ cpu' = cpu
  BY DEF Unnoticed
<1>3. /\ cpu'.debug_mode = cpu.debug_mode /\ cpu'.single_step = cpu.single_step
      /\ cpu'.mip = cpu.mip /\ cpu'.pc = cpu.pc /\ cpu'.regs = cpu.regs
      /\ cpu'.dpc = cpu.dpc /\ cpu'.dcsr = cpu.dcsr
      /\ dm'.busy = dm.busy /\ dm'.completed = dm.completed /\ dm'.halted = dm.halted
      /\ dm'.debug_abstract = dm.debug_abstract
  BY <1>2 DEF SameHart, SameModule
<1>4. Going' = Going /\ Resuming' = Resuming /\ Running' = Running /\ Code' = Code
  BY <1>2, <1>3 DEF Going, Resuming, Running, Code, Assembled
<1>5. SystemTypeOK'
  BY <1>1, <1>2 DEF SystemTypeOK, TypeOK
<1>6. SessionInv'
  BY <1>1, <1>3, <1>4 DEF SessionInv
<1>7. HaltInv'
  BY <1>1, <1>2, <1>3 DEF HaltInv
<1>8. FlagsInv'
  BY <1>1, <1>2, <1>3, <1>4 DEF FlagsInv
<1>9. WhereInv'
  BY <1>1, <1>3, <1>4 DEF WhereInv
<1>10. ReadInv'
  BY <1>1, <1>3, <1>4 DEF ReadInv
<1>11. AccountInv'
  BY <1>1, <1>2, <1>3, <1>4 DEF AccountInv
<1>12. StepInv'
  BY <1>1, <1>2, <1>3 DEF StepInv
<1> QED
  BY <1>2, <1>5, <1>6, <1>7, <1>8, <1>9, <1>10, <1>11, <1>12 DEF HandshakeInv

LEMMA ResumeKeeps ==
    ASSUME HandshakeInv, ResumeEffect
    PROVE  HandshakeInv'
<1>1. /\ cpu \in HartState /\ dm \in ModuleState /\ ghost \in Ghost
      /\ SessionInv /\ HaltInv /\ FlagsInv /\ AutoexecInv
      /\ WhereInv /\ ReadInv /\ AccountInv /\ StepInv
  BY DEF HandshakeInv, SystemTypeOK, TypeOK
<1>2. /\ cpu' \in HartState /\ dm' \in ModuleState /\ SameHart /\ SameModule(dm, dm')
      /\ dm.halted /\ ~dm.busy /\ cpu.dpc \notin DebugMemory
      /\ dm'.dmactive /\ dm'.debug_rom_flags = dm.debug_rom_flags \cup {"RESUME"}
      /\ AutoexecInv'
      /\ accessed = "none" /\ accessed' = "control"
      /\ ghost' = [ghost EXCEPT !.resuming = TRUE]
  BY DEF ResumeEffect
<1>3. /\ cpu'.debug_mode = cpu.debug_mode /\ cpu'.single_step = cpu.single_step
      /\ cpu'.mip = cpu.mip /\ cpu'.pc = cpu.pc /\ cpu'.regs = cpu.regs
      /\ cpu'.dpc = cpu.dpc /\ cpu'.dcsr = cpu.dcsr
      /\ dm'.busy = dm.busy /\ dm'.completed = dm.completed /\ dm'.halted = dm.halted
      /\ dm'.debug_abstract = dm.debug_abstract
  BY <1>2 DEF SameHart, SameModule
<1>4. cpu.debug_mode /\ ~Going /\ ~Running
  BY <1>1, <1>2 DEF HaltInv, FlagsInv, Running
<1>5. ~Going' /\ Resuming' /\ ~Running' /\ Code' = Code
  BY <1>2, <1>3, <1>4 DEF Going, Resuming, Running, Code, Assembled
<1>6. /\ ghost' \in Ghost /\ ghost'.resuming /\ ghost'.entered = ghost.entered
      /\ ghost'.stepping = ghost.stepping
  BY <1>1, <1>2 DEF Ghost
<1>7. SystemTypeOK'
  BY <1>2, <1>6 DEF SystemTypeOK, TypeOK
<1>8. SessionInv' /\ HaltInv'
  BY <1>1, <1>3, <1>4, <1>5 DEF SessionInv, HaltInv
<1>9. FlagsInv'
  BY <1>2, <1>3, <1>4, <1>5, <1>6 DEF FlagsInv
<1>10. WhereInv'
  BY <1>1, <1>2, <1>3, <1>4, <1>5 DEF WhereInv
<1>11. ReadInv'
  BY <1>1, <1>3, <1>4, <1>5 DEF ReadInv
<1>12. AccountInv'
  BY <1>1, <1>2, <1>3, <1>6 DEF AccountInv
<1>13. StepInv'
  BY <1>1, <1>3, <1>6 DEF StepInv
<1> QED
  BY <1>2, <1>7, <1>8, <1>9, <1>10, <1>11, <1>12, <1>13 DEF HandshakeInv

LEMMA ResetKeeps ==
    ASSUME HandshakeInv, ResetEffect
    PROVE  HandshakeInv'
<1>1. /\ cpu \in HartState /\ dm \in ModuleState /\ ghost \in Ghost
      /\ HaltInv /\ FlagsInv /\ AccountInv
  BY DEF HandshakeInv, SystemTypeOK, TypeOK
<1>2. /\ cpu' \in HartState /\ dm' \in ModuleState /\ SameModule(dm, dm')
      /\ ~cpu'.debug_mode /\ cpu'.single_step = 0 /\ cpu'.mip = {} /\ cpu'.pc = START_PC
      /\ cpu.debug_mode => cpu'.halt_request
      /\ ~dm.busy /\ ~Resuming
      /\ dm'.dmactive /\ dm'.debug_rom_flags = dm.debug_rom_flags
      /\ AutoexecInv'
      /\ accessed = "none" /\ accessed' = "control"
      /\ ghost' = [ghost EXCEPT !.s0 = 0, !.stepping = "free"]
  BY DEF ResetEffect
<1>3. /\ ghost' \in Ghost /\ ghost'.stepping = "free" /\ ghost'.entered = ghost.entered
  <2>1. 0 \in Value
    BY HartAssumption
  <2> QED
    BY <1>1, <1>2, <2>1 DEF Ghost
<1>4. ~dm'.busy /\ dm'.halted = dm.halted /\ ~Going' /\ ~Resuming'
  BY <1>1, <1>2 DEF FlagsInv, SameModule, Going, Resuming
<1>5. SystemTypeOK'
  BY <1>2, <1>3 DEF SystemTypeOK, TypeOK
<1>6. SessionInv'
  <2>1. START_PC \notin DebugMemory
    BY DebugMemoryBound DEF START_PC
  <2> QED
    BY <1>2, <2>1 DEF SessionInv
<1>7. HaltInv'
  BY <1>1, <1>2, <1>4 DEF HaltInv
<1>8. FlagsInv' /\ WhereInv' /\ ReadInv'
  BY <1>2, <1>4 DEF FlagsInv, WhereInv, ReadInv
<1>9. AccountInv' /\ StepInv'
  BY <1>1, <1>2, <1>3, <1>4 DEF AccountInv, StepInv
<1> QED
  BY <1>2, <1>5, <1>6, <1>7, <1>8, <1>9 DEF HandshakeInv

LEMMA CompletionKeeps ==
    ASSUME HandshakeInv, CompletionEffect
    PROVE  HandshakeInv'
<1>1. /\ cpu \in HartState /\ dm \in ModuleState /\ ghost \in Ghost
      /\ accessed \in {"none", "abstract", "control"}
      /\ SessionInv /\ HaltInv /\ FlagsInv /\ WhereInv /\ ReadInv /\ StepInv
  BY DEF HandshakeInv, SystemTypeOK, TypeOK
<1>2. /\ cpu' = cpu /\ accessed' = accessed
      /\ dm' \in ModuleState
      /\ dm.busy /\ dm.completed /\ ~dm'.busy
      /\ dm'.halted = dm.halted /\ dm'.debug_rom_flags = dm.debug_rom_flags
      /\ AutoexecInv'
      /\ ghost' = Opened(ghost, NoCommand)
  BY DEF CompletionEffect
<1>3. cpu.debug_mode /\ cpu.pc \in ParkLoop /\ ~Going /\ ~Resuming
  BY <1>1, <1>2 DEF FlagsInv, WhereInv
<1>4. ~Going' /\ ~Resuming' /\ ~Running'
  BY <1>2, <1>3 DEF Going, Resuming, Running
<1>5. ghost' \in Ghost /\ ghost'.entered = 0 /\ ghost'.stepping = ghost.stepping
  BY <1>1, <1>2, OpenedAccount
<1>6. SystemTypeOK'
  BY <1>1, <1>2, <1>5 DEF SystemTypeOK, TypeOK
<1>7. SessionInv' /\ HaltInv'
  BY <1>1, <1>2, <1>3 DEF SessionInv, HaltInv, Handshake
<1>8. FlagsInv'
  BY <1>2, <1>4 DEF FlagsInv
<1>9. WhereInv'
  <2>1. (cpu.pc \notin Code /\ cpu.pc \notin
            Launching \cup Leading \cup Exception \cup Leaving \cup Left)'
    BY <1>2, <1>3, WaitingApart DEF Code, Assembled
  <2> QED
    BY <1>2, <1>4, <2>1 DEF WhereInv
<1>10. ReadInv'
  BY <1>1, <1>2, <1>3, <1>4 DEF ReadInv
<1>11. AccountInv'
  BY <1>2, <1>5 DEF AccountInv
<1>12. StepInv'
  BY <1>1, <1>2, <1>5 DEF StepInv
<1> QED
  BY <1>2, <1>6, <1>7, <1>8, <1>9, <1>10, <1>11, <1>12 DEF HandshakeInv

-----------------------------------------------------------------------------
(* The invariant holds at first and is kept by every step.                 *)

LEMMA InitModuleType ==
    /\ InitModule \in ModuleState
    /\ ~InitModule.dmactive /\ ~InitModule.busy /\ ~InitModule.halted
    /\ InitModule.debug_rom_flags = {} /\ InitModule.debug_abstract = <<>>
    /\ ~InitModule.autoexecdata /\ InitModule.autoexecprogbuf = {}
    /\ \A i \in 1..ProgBufSize : InitModule.program_buffer[i] = Unwritten
<1> DEFINE buffer == [i \in 1..ProgBufSize |-> Unwritten]
           none == {}
<1>1. InitModule =
    [ dmactive |-> FALSE, haltreq |-> FALSE,
      busy |-> FALSE, cmderr |-> 0,
      autoexecdata |-> FALSE, autoexecprogbuf |-> none,
      halted |-> FALSE, resumeack |-> FALSE, havereset |-> FALSE,
      debug_rom_flags |-> none,
      dmdata |-> 0, custom_base |-> 1,
      program_buffer |-> buffer,
      debug_abstract |-> <<>>,
      command |-> NoCommand,
      completed |-> FALSE, rti_remaining |-> 0 ]
  BY DEF InitModule, Unwritten, CMDERR_NONE
<1>2. buffer \in [1..ProgBufSize -> Instruction]
  <2>1. Unwritten \in Instruction
    BY BufferWords DEF BufferWord
  <2> QED
    BY <2>1
<1>3. /\ 0 \in Value /\ 1 \in Value /\ 0 \in 0..AbstractRti /\ 0 \in 0..4
      /\ none \in SUBSET (1..ProgBufSize) /\ none \in SUBSET {"GO", "RESUME"}
  BY Constants
<1>4. \A i \in 1..ProgBufSize : buffer[i] = Unwritten
  OBVIOUS
<1> HIDE DEF buffer
<1>5. InitModule.program_buffer = buffer
  BY <1>1
<1>6. InitModule \in ModuleState
  <2> HIDE DEF none
  <2> QED
    BY <1>1, <1>2, <1>3 DEF ModuleState
<1>7. /\ ~InitModule.dmactive /\ ~InitModule.busy /\ ~InitModule.halted
      /\ InitModule.debug_rom_flags = {} /\ InitModule.debug_abstract = <<>>
      /\ ~InitModule.autoexecdata /\ InitModule.autoexecprogbuf = {}
  BY <1>1
<1> QED
  BY <1>4, <1>5, <1>6, <1>7

LEMMA HandshakeInit ==
    ASSUME SystemInit
    PROVE  HandshakeInv
<1>1. cpu = ResetState /\ dm = InitModule /\ accessed = "none" /\ ghost = InitGhost
  BY DEF SystemInit, Init
<1>2. /\ cpu \in HartState /\ ~cpu.debug_mode /\ cpu.mip = {} /\ cpu.single_step = 0
      /\ cpu.pc = START_PC
  <2>1. cpu \in HartState
    BY <1>1, ResetStateType
  <2> QED
    BY <1>1, <2>1 DEF ResetState
<1>3. /\ ghost \in Ghost /\ ghost.entered = 0 /\ ghost.stepping = "free"
  BY <1>1, Constants DEF Ghost, InitGhost
<1>4. /\ dm \in ModuleState
      /\ ~dm.busy /\ ~dm.halted /\ ~Going /\ ~Resuming
      /\ ~dm.autoexecdata /\ dm.autoexecprogbuf = {}
      /\ \A i \in 1..ProgBufSize : dm.program_buffer[i] = Unwritten
  BY <1>1, InitModuleType DEF Going, Resuming
<1>5. SystemTypeOK
  BY <1>1, <1>2, <1>3, <1>4 DEF SystemTypeOK, TypeOK
<1>6. SessionInv
  <2>1. START_PC \notin DebugMemory
    BY DebugMemoryBound DEF START_PC
  <2> QED
    BY <1>2, <2>1 DEF SessionInv
<1>7. HaltInv /\ FlagsInv /\ WhereInv /\ ReadInv
  BY <1>2, <1>4 DEF HaltInv, FlagsInv, WhereInv, ReadInv
<1>8. AutoexecInv
  BY <1>4 DEF AutoexecInv, BufferWord
<1>9. AccountInv /\ StepInv
  BY <1>2, <1>3, <1>4 DEF AccountInv, StepInv
<1> QED
  BY <1>5, <1>6, <1>7, <1>8, <1>9 DEF HandshakeInv

\* The steps of the debugger and of the transport are of five kinds.
LEMMA AccessKinds ==
    ASSUME HandshakeInv, Debugger \/ RunTestIdle \/ UNCHANGED vars
    PROVE  \/ AbstractEffect
           \/ Unnoticed /\ accessed' \in {"none", "abstract", "control"}
           \/ ResumeEffect
           \/ ResetEffect
           \/ CompletionEffect
<1>1. /\ cpu \in HartState /\ dm \in ModuleState /\ ghost \in Ghost /\ AutoexecInv
      /\ ~dm.dmactive => ~dm.busy /\ ~Resuming
      /\ accessed \in {"none", "abstract", "control"}
  BY DEF HandshakeInv, SystemTypeOK, TypeOK, FlagsInv
<1>2. Unnoticed => accessed' \in {"none", "abstract", "control"}
  BY <1>1 DEF Unnoticed
<1>3. CASE Activate
  <2>1. ~dm.busy
    BY <1>1, <1>3 DEF Activate
  <2> QED
    BY <1>1, <1>2, <1>3, <2>1, ActivateEffect
<1>4. CASE Deactivate
  BY <1>1, <1>2, <1>4, DeactivateEffect
<1>5. CASE \E on \in BOOLEAN : RequestHalt(on)
  BY <1>1, <1>2, <1>5, RequestHaltEffect
<1>6. CASE RequestResume
  BY <1>1, <1>6, RequestResumeEffect
<1>7. CASE \E lines \in ResetLines, halt \in BOOLEAN : ResetLine(lines, halt)
  BY <1>1, <1>7, ResetLineEffect
<1>8. CASE \E cmd \in Command : IssueCommand(cmd)
  BY <1>1, <1>8, IssueCommandEffect
<1>9. CASE UseData
  BY <1>1, <1>9, UseDataEffect
<1>10. CASE UseProgBuf
  BY <1>1, <1>10, UseProgBufEffect
<1>11. CASE ClearCmderr
  BY <1>1, <1>2, <1>11, ClearCmderrEffect
<1>12. CASE \E auto \in AutoMask : SetAuto(auto)
  BY <1>1, <1>2, <1>12, SetAutoEffect
<1>13. CASE RunTestIdle
  BY <1>1, <1>2, <1>13, RunTestIdleEffect
<1>14. CASE UNCHANGED vars
  <2>1. cpu' = cpu /\ dm' = dm /\ accessed' = accessed /\ ghost' = ghost
    BY <1>14 DEF vars
  <2>2. AutoexecInv'
    BY <1>1, <2>1 DEF AutoexecInv
  <2>3. Unnoticed
    BY <1>1, <2>1, <2>2 DEF Unnoticed, SameHart, SameModule
  <2> QED
    BY <1>2, <2>3
<1> QED
  BY <1>3, <1>4, <1>5, <1>6, <1>7, <1>8, <1>9, <1>10, <1>11, <1>12, <1>13, <1>14 DEF Debugger

\* HandshakeInv is inductive.
LEMMA HandshakeStep ==
    ASSUME HandshakeInv, [SystemNext]_vars
    PROVE  HandshakeInv'
<1>1. CASE CoreStep
  BY <1>1, CoreStepKeeps
<1>2. CASE Debugger \/ RunTestIdle \/ UNCHANGED vars
  <2>1. AbstractEffect => HandshakeInv'
    <3>1. AbstractEffect => Quiet(dm, dm') \/ Launched(dm, dm')
      BY DEF AbstractEffect, Served
    <3> QED
      BY <3>1, QuietKeeps, LaunchKeeps
  <2> QED
    BY <1>2, <2>1, AccessKinds, UnnoticedKeeps, ResumeKeeps, ResetKeeps, CompletionKeeps
<1> QED
  BY <1>1, <1>2 DEF SystemNext

\* The handshake of the ROM with the module, in every reachable state.
THEOREM HandshakeInvariant == SystemSpec => []HandshakeInv
<1>1. SystemInit => HandshakeInv
  BY HandshakeInit
<1>2. HandshakeInv /\ [SystemNext]_vars => HandshakeInv'
  BY HandshakeStep
<1> QED
  BY <1>1, <1>2, PTL DEF SystemSpec

-----------------------------------------------------------------------------
(* What follows from the invariant alone.                                  *)

\* The type invariant: among the rest, that the hart never fetches a word of
\* debug memory that no command assembled.
THEOREM SystemTypeCorrect == SystemSpec => []SystemTypeOK
<1>1. HandshakeInv => SystemTypeOK
  BY DEF HandshakeInv
<1> QED
  BY <1>1, HandshakeInvariant, PTL

LEMMA RomHolds == \A p \in Handshake \cup {2160} : p \in RomAddress
<1>1. \A i \in 1..29 : 2044 + 4 * i \in RomAddress
  BY RomLength DEF RomAddress, DEBUG_ROM_ENTRY
<1>2. \A p \in Handshake \cup {2160} : (p - 2044) \div 4 \in 1..29
                                        /\ p = 2044 + 4 * ((p - 2044) \div 4)
  BY DEF Handshake, Entering, ParkLoop, Exception, Launching, Leaving
<1> QED
  BY <1>1, <1>2

\* While the hart executes the code of a command or the program buffer the module
\* reports busy.
THEOREM ExecutesWhenBusy == SystemSpec => []BusyWhileExecuting
<1>1. HandshakeInv => BusyWhileExecuting
  <2> SUFFICES ASSUME HandshakeInv, cpu.debug_mode, cpu.pc \notin RomAddress
               PROVE  dm.busy
    BY DEF BusyWhileExecuting
  <2>1. SessionInv /\ WhereInv
    BY DEF HandshakeInv
  <2>2. cpu.pc = 768 \/ cpu.pc \in Code
    BY <2>1, RomHolds DEF SessionInv
  <2>3. Running
    BY <2>1, <2>2 DEF WhereInv, Leading
  <2> QED
    BY <2>3 DEF Running
<1> QED
  BY <1>1, HandshakeInvariant, PTL

\* A hart that dmstatus reports halted is in debug mode.
THEOREM HaltedTells == SystemSpec => []HaltedIsTruthful
<1>1. HandshakeInv => HaltedIsTruthful
  BY DEF HandshakeInv, HaltInv, HaltedIsTruthful
<1> QED
  BY <1>1, HandshakeInvariant, PTL

\* A resume with dcsr.step set lets the program execute one instruction.
THEOREM SingleStepTheorem == SystemSpec => []SingleStepRunsOne
<1>1. HandshakeInv => SingleStepRunsOne
  BY DEF HandshakeInv, StepInv, SingleStepRunsOne
<1> QED
  BY <1>1, HandshakeInvariant, PTL

-----------------------------------------------------------------------------
(* What a step may never do.                                               *)

\* No store of the hart clears busy.
LEMMA StoreKeepsBusy ==
    ASSUME NEW d \in ModuleState, NEW word, NEW c
    PROVE  HartStore(d, word, c).busy = d.busy
<1> DEFINE data == c.regs[word.reg]
<1>1. [d EXCEPT !.dmdata = data].busy = d.busy
  <2> HIDE DEF data
  <2> QED
    BY DEF ModuleState
<1>2. /\ NoteHalted(d).busy = d.busy /\ NoteGoing(d).busy = d.busy
      /\ NoteResuming(d).busy = d.busy /\ NoteException(d).busy = d.busy
  BY DEF ModuleState, NoteHalted, NoteGoing, NoteResuming, NoteException
<1> QED
  BY <1>1, <1>2 DEF HartStore

\* busy clears in the cycle that completes a command and nowhere else.
LEMMA OnlyCompletion ==
    ASSUME HandshakeInv, [SystemNext]_vars, Completes
    PROVE  CompletionEffect
<1>1. dm \in ModuleState /\ dm.busy /\ ~dm'.busy
  BY DEF HandshakeInv, SystemTypeOK, Completes
<1>2. CASE CoreStep
  <2>1. PICK word : dm' = HartStore(dm, word, BeginStep(cpu))
    BY <1>2 DEF CoreStep, HartStep
  <2> QED
    BY <1>1, <2>1, StoreKeepsBusy
<1>3. CASE Debugger \/ RunTestIdle \/ UNCHANGED vars
  <2>1. ~AbstractEffect
    BY <1>1 DEF AbstractEffect, Served, Quiet, Launched
  <2>2. ~Unnoticed /\ ~ResumeEffect /\ ~ResetEffect
    BY <1>1 DEF Unnoticed, ResumeEffect, ResetEffect, SameModule
  <2> QED
    BY <1>3, <2>1, <2>2, AccessKinds
<1> QED
  BY <1>2, <1>3 DEF SystemNext

\* Where the hart is when its command is reported complete.
LEMMA AtCompletion ==
    ASSUME HandshakeInv, CompletionEffect
    PROVE  /\ cpu.debug_mode /\ cpu.pc \in ParkLoop
           /\ dm.busy /\ ~Going /\ AccountInv
           /\ cpu.pc \notin Leading \cup {2056, 2112, 2116}
<1>1. FlagsInv /\ WhereInv /\ AccountInv
  BY DEF HandshakeInv
<1>2. dm.busy /\ dm.completed
  BY DEF CompletionEffect
<1>3. cpu.debug_mode /\ cpu.pc \in ParkLoop /\ ~Going
  BY <1>1, <1>2 DEF FlagsInv, WhereInv
<1> QED
  BY <1>1, <1>2, <1>3 DEF ParkLoop, Leading

\* Every accepted command enters the code assembled for it exactly once before
\* busy clears.
THEOREM CommandOnce == SystemSpec => CommandRunsOnce
<1> DEFINE Once == ghost.entered <= 1 /\ (Completes => ghost.entered = 1)
<1>1. HandshakeInv /\ [SystemNext]_vars => [Once]_vars
  <2> SUFFICES ASSUME HandshakeInv, [SystemNext]_vars
               PROVE  Once
    OBVIOUS
  <2>1. ghost.entered <= 1
    BY DEF HandshakeInv, AccountInv
  <2>2. ASSUME Completes
        PROVE  ghost.entered = 1
    BY <2>2, OnlyCompletion, AtCompletion DEF AccountInv
  <2> QED
    BY <2>1, <2>2
<1> QED
  BY <1>1, HandshakeInvariant, PTL DEF SystemSpec, CommandRunsOnce

\* A command whose code faulted is reported with an error.
THEOREM ExceptionReported == SystemSpec => ExceptionIsReported
<1> DEFINE Reported == Completes /\ ghost.faulted => dm'.cmderr # CMDERR_NONE
<1>1. HandshakeInv /\ [SystemNext]_vars => [Reported]_vars
  <2> SUFFICES ASSUME HandshakeInv, [SystemNext]_vars, Completes, ghost.faulted
               PROVE  dm'.cmderr # CMDERR_NONE
    OBVIOUS
  <2>1. CompletionEffect
    BY OnlyCompletion
  <2>2. dm.cmderr # CMDERR_NONE
    BY <2>1, AtCompletion DEF AccountInv
  <2> QED
    BY <2>1, <2>2 DEF CompletionEffect
<1> QED
  BY <1>1, HandshakeInvariant, PTL DEF SystemSpec, ExceptionIsReported

\* A step of the hart takes back the report that it is halted only at the ROM's
\* store of RESUMING.
LEMMA UnhaltsAtResuming ==
    ASSUME HandshakeInv, CoreStep, dm.halted, ~dm'.halted
    PROVE  InSession /\ cpu.pc = 2152
<1>1. /\ cpu \in HartState /\ dm \in ModuleState /\ ghost \in Ghost
      /\ SessionInv /\ HaltInv /\ AutoexecInv /\ WhereInv /\ AccountInv /\ StepInv
  BY DEF HandshakeInv, SystemTypeOK, TypeOK
<1>2. CASE cpu.debug_mode
  <2>1. InSession /\ (cpu.pc \in Handshake \cup {768, 2160} \/ cpu.pc \in Code)
    BY <1>1, <1>2 DEF SessionInv, InSession
  <2>2. CASE cpu.pc \in Handshake
    <3>1. RomModule
      BY <1>1, <2>1, <2>2, RomStep, RomModuleEffect DEF ModuleState
    <3> QED
      BY <2>1, <3>1 DEF RomModule
  <2>3. CASE cpu.pc = 768
    BY <1>1, <2>1, <2>3, EnterCodeStep
  <2>4. CASE cpu.pc = 2160
    BY <1>1, <2>1, <2>4, LeaveStep DEF SessionInv
  <2>5. CASE cpu.pc \in Code
    <3>1. Running
      BY <1>1, <1>2, <2>5 DEF WhereInv
    <3>2. Holds(ghost.command)
      BY <1>1, <3>1 DEF AccountInv, Running, Holds
    <3>3. CodeEffect
      BY <1>1, <2>1, <2>5, <3>2, AssembledEffect, BufferedEffect DEF Code
    <3>4. dm'.halted = dm.halted
      BY <1>1, <3>3 DEF CodeEffect, DataStep, ModuleState
    <3> QED
      BY <3>4
  <2> QED
    BY <2>1, <2>2, <2>3, <2>4, <2>5
<1>3. CASE ~cpu.debug_mode
  <2>1. /\ cpu.mip = {} /\ cpu.single_step \in {0, 1} /\ cpu.pc \notin DebugMemory
        /\ ghost.stepping = IF cpu.single_step = 1 THEN "due" ELSE "free"
    BY <1>1, <1>3 DEF SessionInv, StepInv
  <2>2. dm' = dm
    BY <1>1, <1>3, <2>1, HaltStep, ProgramStep
  <2> QED
    BY <2>2
<1> QED
  BY <1>2, <1>3

\* A halted hart resumes only if a resume request that found it halted has not
\* been answered yet.
THEOREM ResumesOnce == SystemSpec => ResumesOncePerRequest
<1> DEFINE Asked == dm.halted /\ ~dm'.halted => ghost.resuming
<1>1. HandshakeInv /\ [SystemNext]_vars => [Asked]_vars
  <2> SUFFICES ASSUME HandshakeInv, [SystemNext]_vars, dm.halted, ~dm'.halted
               PROVE  ghost.resuming
    OBVIOUS
  <2>1. CASE CoreStep
    <3>1. InSession /\ cpu.pc = 2152
      BY <2>1, UnhaltsAtResuming
    <3>2. Resuming
      BY <3>1 DEF HandshakeInv, WhereInv, InSession, Leaving
    <3> QED
      BY <3>2 DEF HandshakeInv, FlagsInv
  <2>2. CASE Debugger \/ RunTestIdle \/ UNCHANGED vars
    <3>1. ~AbstractEffect
      BY DEF AbstractEffect, Served, SameLines
    <3>2. ~Unnoticed /\ ~ResumeEffect /\ ~ResetEffect /\ ~CompletionEffect
      BY DEF Unnoticed, ResumeEffect, ResetEffect, CompletionEffect, SameModule
    <3> QED
      BY <2>2, <3>1, <3>2, AccessKinds
  <2> QED
    BY <2>1, <2>2 DEF SystemNext
<1> QED
  BY <1>1, HandshakeInvariant, PTL DEF SystemSpec, ResumesOncePerRequest

-----------------------------------------------------------------------------
(* The program's s0: where it is at every step of a session.               *)

\* s0 itself holds it.
InRegister ==
    \/ cpu.pc \in Entering \cup {2116, 2120, 2136, 2140, 2144, 768, 2160}
    \/ cpu.pc \in Buffered
    \/ cpu.pc \in Assembled /\ (MovesCsr => cpu.pc \notin {796, 800})

S0Inv ==
    /\ ~cpu.debug_mode => cpu.regs["s0"] = ghost.s0
    /\ cpu.debug_mode /\ InRegister => cpu.regs["s0"] = ghost.s0
    /\ cpu.debug_mode /\ InScratch => cpu.dscratch0 = ghost.s0

LEMMA RomKeepsS0 ==
    ASSUME HandshakeInv, S0Inv, InSession, cpu.pc \in Handshake, CoreStep
    PROVE  S0Inv'
<1>1. /\ cpu \in HartState /\ dm \in ModuleState /\ ghost \in Ghost /\ cpu.debug_mode
  BY DEF HandshakeInv, SystemTypeOK, TypeOK, InSession
<1>2. /\ Moves(cpu, cpu', cpu'.pc)
      /\ cpu'.dscratch0 = IF cpu.pc = 2064 THEN cpu.regs["s0"] ELSE cpu.dscratch0
      /\ RomPc /\ RomS0 /\ RomStores /\ KeepsAccount
  BY <1>1, RomStep DEF ModuleState
<1>3. dm' \in ModuleState
  BY <1>1, <1>2, RomModuleEffect DEF RomModule
<1>4. cpu'.pc \in Handshake \cup {768, 2160}
  BY <1>2, RomPlace
<1>5. cpu'.pc \notin Buffered /\ cpu'.pc \notin Assembled'
  BY <1>3, <1>4, Apart DEF Assembled
<1>6. cpu'.debug_mode /\ ghost'.s0 = ghost.s0
  BY <1>2 DEF Moves, KeepsAccount
<1> DEFINE Register == Entering \cup {2116, 2120, 2136, 2140, 2144, 768, 2160}
           Scratch == ParkLoop \cup Exception \cup Launching \cup Leading \cup Leaving \cup Left
<1>7. /\ cpu.pc \in Register => cpu.regs["s0"] = ghost.s0
      /\ cpu.pc \in Scratch => cpu.dscratch0 = ghost.s0
  BY <1>1 DEF S0Inv, InRegister, InScratch
<1>8. cpu'.pc \in Register => cpu.pc \in {2048, 2060, 2112, 2116, 2120, 2132, 2136, 2140, 2144, 2156}
  BY <1>2 DEF RomPc, Sequential, Handshake, Entering, ParkLoop, Exception, Launching, Leaving
<1>9. cpu'.pc \in Scratch => cpu.pc \in Scratch \cup {2064}
  <2>1. cpu.pc \in {2048, 2060} => cpu'.pc \in {2060, 2064}
    BY <1>2 DEF RomPc, Sequential
  <2> QED
    BY <2>1 DEF Handshake, Entering, ParkLoop, Exception, Launching, Leading, Leaving, Left
<1>10. cpu'.pc \in Register => cpu'.regs["s0"] = ghost.s0
  <2>1. CASE cpu.pc \in {2112, 2132, 2156}
    <3>1. cpu'.regs["s0"] = cpu.dscratch0
      BY <1>2, <2>1 DEF RomS0
    <3> QED
      BY <1>7, <2>1, <3>1 DEF Exception, Leading, Left
  <2>2. CASE cpu.pc \in {2048, 2060, 2116, 2120, 2136, 2140, 2144}
    <3>1. cpu'.regs["s0"] = cpu.regs["s0"]
      BY <1>2, <2>2 DEF RomS0
    <3> QED
      BY <1>7, <2>2, <3>1 DEF Entering
  <2> QED
    BY <1>8, <2>1, <2>2
<1>11. cpu'.pc \in Scratch => cpu'.dscratch0 = ghost.s0
  <2>1. CASE cpu.pc = 2064
    BY <1>2, <1>7, <2>1 DEF Entering
  <2>2. CASE cpu.pc # 2064
    BY <1>2, <1>7, <1>9, <2>2
  <2> QED
    BY <2>1, <2>2
<1>12. (InRegister => cpu.pc \in Entering \cup {2116, 2120, 2136, 2140, 2144, 768, 2160})'
  BY <1>5 DEF InRegister
<1>13. (InScratch => cpu.pc \in ParkLoop \cup Exception \cup Launching \cup Leading \cup Leaving \cup Left)'
  BY <1>5 DEF InScratch
<1> QED
  BY <1>6, <1>10, <1>11, <1>12, <1>13 DEF S0Inv

\* The jump to the program buffer, or the ebreak.
EndingStep(cmd) ==
    /\ cpu'.pc = IF cmd.postexec THEN 836 ELSE 2048
    /\ cpu'.debug_mode /\ Keeps(cpu, cpu') /\ dm' = dm

\* The step at each address of the code that moves a CSR.
CsrCodeSteps(cmd) ==
    /\ cpu.pc \in {788, 792, 796, 800, 804}
    /\ cpu.pc = 788 =>
          /\ cpu'.pc = 792
          /\ Puts(cpu.regs, cpu.regs["s0"], cpu.dpc, cpu.dcsr, dm.dmdata)
    /\ cpu.pc = 792 =>
          /\ cpu'.pc = 796
          /\ Puts(SetReg("s0", IF cmd.write THEN dm.dmdata ELSE CsrWord(cpu, cmd.regno)),
                  cpu.dscratch0, cpu.dpc, cpu.dcsr, dm.dmdata)
    /\ cpu.pc = 796 /\ cmd.write =>
          /\ cpu'.pc = 800
          /\ Puts(cpu.regs,
                  IF cmd.regno = "dscratch0" THEN cpu.regs["s0"] ELSE cpu.dscratch0,
                  IF cmd.regno = "dpc" THEN cpu.regs["s0"] ELSE cpu.dpc,
                  IF cmd.regno = "dcsr" THEN CsrValue("dcsr", cpu.regs["s0"]) ELSE cpu.dcsr,
                  dm.dmdata)
    /\ cpu.pc = 796 /\ ~cmd.write =>
          /\ cpu'.pc = 800
          /\ Puts(cpu.regs, cpu.dscratch0, cpu.dpc, cpu.dcsr, cpu.regs["s0"])
    /\ cpu.pc = 800 =>
          /\ cpu'.pc = 804
          /\ Puts(SetReg("s0", cpu.dscratch0), cpu.dscratch0, cpu.dpc, cpu.dcsr, dm.dmdata)
    /\ cpu.pc = 804 => EndingStep(cmd)

\* The step at each address of the code that moves a general register.
RegCodeSteps(cmd) ==
    /\ cpu.pc \in {788, 792, 796}
    /\ cpu.pc = 788 /\ cmd.write =>
          /\ cpu'.pc = 792
          /\ Puts(SetReg(cmd.regno, dm.dmdata), cpu.dscratch0, cpu.dpc, cpu.dcsr, dm.dmdata)
    /\ cpu.pc = 788 /\ ~cmd.write =>
          /\ cpu'.pc = 792
          /\ Puts(cpu.regs, cpu.dscratch0, cpu.dpc, cpu.dcsr, cpu.regs[cmd.regno])
    /\ cpu.pc = 792 /\ cmd.write /\ cmd.regno = "s0" =>
          /\ cpu'.pc = 796
          /\ Puts(cpu.regs, cpu.regs["s0"], cpu.dpc, cpu.dcsr, dm.dmdata)
    /\ cpu.pc = 792 /\ ~(cmd.write /\ cmd.regno = "s0") => EndingStep(cmd)
    /\ cpu.pc = 796 => cmd.write /\ cmd.regno = "s0" /\ EndingStep(cmd)

\* A step in the code of a command, address by address.
LEMMA AssembledStep ==
    ASSUME cpu \in HartState, dm \in ModuleState, ghost \in Ghost, InSession,
           Holds(ghost.command), cpu.pc \in Assembled, CoreStep
    PROVE  LET cmd == ghost.command
           IN  /\ ghost'.command = cmd
               /\ ghost'.s0 = IF cmd.transfer /\ cmd.write /\ cmd.regno = "s0" /\ cpu.pc = 788
                                THEN dm.dmdata ELSE ghost.s0
               /\ ~cmd.transfer => EndingStep(cmd)
               /\ cmd.transfer /\ cmd.regno \in CsrRegno => CsrCodeSteps(cmd)
               /\ cmd.transfer /\ cmd.regno \notin CsrRegno => RegCodeSteps(cmd)
<1> DEFINE cmd == ghost.command
           word == FetchDebug(cpu, dm)
<1>1. /\ cpu.pc \in DebugAddress /\ cpu.pc # 768
      /\ IsCodeWord(word)
      /\ ~cmd.transfer => cpu.pc = 788 /\ word = Ending(cmd)
      /\ cmd.transfer /\ cmd.regno \in CsrRegno => CsrCode(cpu.pc, word, cmd)
      /\ cmd.transfer /\ cmd.regno \notin CsrRegno => RegCode(cpu.pc, word, cmd)
  BY AssembledWord
<1>2. cmd.transfer => cmd.regno \in Reg \cup CsrRegno
  BY DEF Holds
<1> HIDE DEF cmd, word
<1>3. CodeWord(word) /\ CodeAccount(word)
  BY <1>1, CodeWordStep DEF word
<1>4. /\ \A csr \in CsrRegno : word = csrw_s0(csr) =>
            Puts(cpu.regs,
                 IF csr = "dscratch0" THEN cpu.regs["s0"] ELSE cpu.dscratch0,
                 IF csr = "dpc" THEN cpu.regs["s0"] ELSE cpu.dpc,
                 IF csr = "dcsr" THEN CsrValue("dcsr", cpu.regs["s0"]) ELSE cpu.dcsr, dm.dmdata)
      /\ \A csr \in CsrRegno : word = csrr_s0(csr) =>
            Puts(SetReg("s0", CsrWord(cpu, csr)), cpu.dscratch0, cpu.dpc, cpu.dcsr, dm.dmdata)
      /\ \A reg \in Reg : word = lw_data(reg) =>
            Puts(SetReg(reg, dm.dmdata), cpu.dscratch0, cpu.dpc, cpu.dcsr, dm.dmdata)
      /\ \A reg \in Reg : word = sw_data(reg) =>
            Puts(cpu.regs, cpu.dscratch0, cpu.dpc, cpu.dcsr, cpu.regs[reg])
  BY <1>3 DEF CodeWord
<1>5. word = Ending(cmd) => EndingStep(cmd)
  BY <1>3 DEF CodeWord, Ending, EndingStep, Moves, debug_progbuf_start
<1>6. \A r, sc, p, c, d : Puts(r, sc, p, c, d) => cpu'.pc = cpu.pc + 4
  BY DEF Puts, Moves
<1>7. /\ "dscratch0" \in CsrRegno /\ "s0" \in Reg
      /\ CsrWord(cpu, "dscratch0") = cpu.dscratch0
  BY DEF CsrRegno, Reg, CsrWord
<1>8. ASSUME cmd.transfer, cmd.regno \in CsrRegno
      PROVE  CsrCodeSteps(cmd)
  <2>1. CsrCode(cpu.pc, word, cmd)
    BY <1>1, <1>8
  <2>2. cpu.pc = 788 => /\ cpu'.pc = 792
                        /\ Puts(cpu.regs, cpu.regs["s0"], cpu.dpc, cpu.dcsr, dm.dmdata)
    BY <1>4, <1>6, <1>7, <2>1 DEF CsrCode
  <2>3. cpu.pc = 792 =>
          /\ cpu'.pc = 796
          /\ Puts(SetReg("s0", IF cmd.write THEN dm.dmdata ELSE CsrWord(cpu, cmd.regno)),
                  cpu.dscratch0, cpu.dpc, cpu.dcsr, dm.dmdata)
    BY <1>4, <1>6, <1>7, <1>8, <2>1 DEF CsrCode
  <2>4. cpu.pc = 796 /\ cmd.write =>
          /\ cpu'.pc = 800
          /\ Puts(cpu.regs,
                  IF cmd.regno = "dscratch0" THEN cpu.regs["s0"] ELSE cpu.dscratch0,
                  IF cmd.regno = "dpc" THEN cpu.regs["s0"] ELSE cpu.dpc,
                  IF cmd.regno = "dcsr" THEN CsrValue("dcsr", cpu.regs["s0"]) ELSE cpu.dcsr,
                  dm.dmdata)
    BY <1>4, <1>6, <1>8, <2>1 DEF CsrCode
  <2>5. cpu.pc = 796 /\ ~cmd.write =>
          /\ cpu'.pc = 800
          /\ Puts(cpu.regs, cpu.dscratch0, cpu.dpc, cpu.dcsr, cpu.regs["s0"])
    BY <1>4, <1>6, <1>7, <2>1 DEF CsrCode
  <2>6. cpu.pc = 800 =>
          /\ cpu'.pc = 804
          /\ Puts(SetReg("s0", cpu.dscratch0), cpu.dscratch0, cpu.dpc, cpu.dcsr, dm.dmdata)
    BY <1>4, <1>6, <1>7, <2>1 DEF CsrCode
  <2>7. cpu.pc \in {788, 792, 796, 800, 804} /\ (cpu.pc = 804 => EndingStep(cmd))
    BY <1>5, <2>1 DEF CsrCode
  <2> QED
    BY <2>2, <2>3, <2>4, <2>5, <2>6, <2>7 DEF CsrCodeSteps
<1>9. ASSUME cmd.transfer, cmd.regno \notin CsrRegno
      PROVE  RegCodeSteps(cmd)
  <2>1. RegCode(cpu.pc, word, cmd) /\ cmd.regno \in Reg
    BY <1>1, <1>2, <1>9
  <2>2. cpu.pc = 788 /\ cmd.write =>
          /\ cpu'.pc = 792
          /\ Puts(SetReg(cmd.regno, dm.dmdata), cpu.dscratch0, cpu.dpc, cpu.dcsr, dm.dmdata)
    BY <1>4, <1>6, <2>1 DEF RegCode
  <2>3. cpu.pc = 788 /\ ~cmd.write =>
          /\ cpu'.pc = 792
          /\ Puts(cpu.regs, cpu.dscratch0, cpu.dpc, cpu.dcsr, cpu.regs[cmd.regno])
    BY <1>4, <1>6, <2>1 DEF RegCode
  <2>4. cpu.pc = 792 /\ cmd.write /\ cmd.regno = "s0" =>
          /\ cpu'.pc = 796
          /\ Puts(cpu.regs, cpu.regs["s0"], cpu.dpc, cpu.dcsr, dm.dmdata)
    BY <1>4, <1>6, <1>7, <2>1 DEF RegCode
  <2>5. /\ cpu.pc \in {788, 792, 796}
        /\ cpu.pc = 792 /\ ~(cmd.write /\ cmd.regno = "s0") => EndingStep(cmd)
        /\ cpu.pc = 796 => cmd.write /\ cmd.regno = "s0" /\ EndingStep(cmd)
    BY <1>5, <2>1 DEF RegCode
  <2> QED
    BY <2>2, <2>3, <2>4, <2>5 DEF RegCodeSteps
<1>10. (word = lw_data("s0") /\ cmd.regno = "s0")
          <=> (cmd.transfer /\ cmd.write /\ cmd.regno = "s0" /\ cpu.pc = 788)
  <2>1. /\ word = lw_data("s0") => word.op = "lw_data"
        /\ Ending(cmd).op \in {"jump", "ebreak"}
        /\ csrw_s0("dscratch0").op = "csrw_s0" /\ sw_data(cmd.regno).op = "sw_data"
    BY DEF lw_data, Ending, jal, ebreak, csrw_s0, sw_data
  <2>2. ASSUME cmd.regno = "s0"
        PROVE  word = lw_data("s0") <=> (cmd.transfer /\ cmd.write /\ cpu.pc = 788)
    <3>1. cmd.regno \notin CsrRegno
      BY <2>2 DEF CsrRegno
    <3>2. CASE ~cmd.transfer
      BY <1>1, <2>1, <3>2
    <3>3. CASE cmd.transfer
      BY <1>1, <2>1, <2>2, <3>1, <3>3 DEF RegCode
    <3> QED
      BY <3>2, <3>3
  <2> QED
    BY <2>2
<1>11. /\ ghost'.command = cmd
       /\ ghost'.s0 = IF cmd.transfer /\ cmd.write /\ cmd.regno = "s0" /\ cpu.pc = 788
                        THEN dm.dmdata ELSE ghost.s0
  BY <1>3, <1>10 DEF CodeAccount, cmd
<1> QED
  BY <1>1, <1>5, <1>8, <1>9, <1>11 DEF cmd

LEMMA SetRegValue ==
    ASSUME cpu \in HartState, NEW reg \in Reg, NEW v
    PROVE  SetReg(reg, v)["s0"] = IF reg = "s0" THEN v ELSE cpu.regs["s0"]
<1>1. cpu.regs \in [Reg -> Value] /\ "s0" \in Reg
  BY DEF HartState, Reg
<1> QED
  BY <1>1 DEF SetReg

\* The code addresses at which s0 does not hold the program's s0.
LEMMA OutOfRegister ==
    ASSUME cpu.pc \in {796, 800}, MovesCsr
    PROVE  ~InRegister
<1>1. cpu.pc \notin Entering \cup {2116, 2120, 2136, 2140, 2144, 768, 2160}
  BY DEF Entering
<1>2. cpu.pc \notin Buffered
  BY BufferRegion
<1> QED
  BY <1>1, <1>2 DEF InRegister

LEMMA OutOfScratch ==
    ASSUME cpu.pc = 792, WritesS0
    PROVE  ~InScratch
<1>1. cpu.pc \notin ParkLoop \cup Exception \cup Launching \cup Leading \cup Leaving \cup Left
  BY DEF ParkLoop, Exception, Launching, Leading, Leaving, Left
<1>2. cpu.pc \notin Buffered
  BY BufferRegion
<1> QED
  BY <1>1, <1>2 DEF InScratch

\* The code of a command.
LEMMA AssembledKeepsS0 ==
    ASSUME KeepsProgramS0, HandshakeInv, S0Inv, InSession, cpu.pc \in Assembled,
           Holds(ghost.command), CoreStep
    PROVE  S0Inv'
<1> DEFINE cmd == ghost.command
<1>1. /\ cpu \in HartState /\ dm \in ModuleState /\ ghost \in Ghost /\ cpu.debug_mode
  BY DEF HandshakeInv, SystemTypeOK, TypeOK, InSession
<1>2. /\ ghost'.command = cmd
      /\ ghost'.s0 = IF cmd.transfer /\ cmd.write /\ cmd.regno = "s0" /\ cpu.pc = 788
                       THEN dm.dmdata ELSE ghost.s0
      /\ ~cmd.transfer => EndingStep(cmd)
      /\ cmd.transfer /\ cmd.regno \in CsrRegno => CsrCodeSteps(cmd)
      /\ cmd.transfer /\ cmd.regno \notin CsrRegno => RegCodeSteps(cmd)
  BY <1>1, AssembledStep
<1>3. /\ cmd.transfer /\ cmd.write => cmd.regno # "dscratch0"
      /\ cmd.transfer => cmd.regno \in Reg \cup CsrRegno
  BY DEF Holds, KeepsProgramS0
<1>4. /\ (MovesCsr => cpu.pc \notin {796, 800}) => cpu.regs["s0"] = ghost.s0
      /\ (WritesS0 => cpu.pc # 792) => cpu.dscratch0 = ghost.s0
  BY <1>1 DEF S0Inv, InRegister, InScratch
<1>5. /\ MovesCsr <=> cmd.transfer /\ cmd.regno \in CsrRegno
      /\ WritesS0 <=> cmd.transfer /\ cmd.write /\ cmd.regno = "s0"
      /\ MovesCsr' <=> MovesCsr
      /\ WritesS0' <=> WritesS0
      /\ WritesS0 => ~MovesCsr
  BY <1>2 DEF MovesCsr, WritesS0, CsrRegno
<1>6. ASSUME NEW r, NEW sc, NEW p, NEW c, NEW d, Puts(r, sc, p, c, d)
      PROVE  cpu'.debug_mode /\ cpu'.regs["s0"] = r["s0"] /\ cpu'.dscratch0 = sc
  BY <1>6 DEF Puts, Moves
<1>7. \A reg \in Reg : \A v : SetReg(reg, v)["s0"] = IF reg = "s0" THEN v ELSE cpu.regs["s0"]
  BY <1>1, SetRegValue
<1>8. "s0" \in Reg
  BY DEF Reg
<1>9. EndingStep(cmd) => /\ cpu'.debug_mode /\ cpu'.regs["s0"] = cpu.regs["s0"]
                         /\ cpu'.dscratch0 = cpu.dscratch0
  BY DEF EndingStep, Keeps, KeepsRegs, KeepsCsrs
<1> HIDE DEF cmd
<1>10. /\ (cpu.pc \in {796, 800} /\ MovesCsr => ~InRegister)'
       /\ (cpu.pc = 792 /\ WritesS0 => ~InScratch)'
  BY OutOfRegister, OutOfScratch, PTL
<1>11. CASE ~cmd.transfer
  <2>1. ghost'.s0 = ghost.s0 /\ EndingStep(cmd) /\ ~MovesCsr /\ ~WritesS0
    BY <1>2, <1>5, <1>11
  <2> QED
    BY <1>4, <1>9, <2>1 DEF S0Inv
<1>12. CASE cmd.transfer /\ cmd.regno \in CsrRegno
  <2>1. /\ CsrCodeSteps(cmd) /\ MovesCsr /\ ~WritesS0 /\ MovesCsr'
        /\ ghost'.s0 = ghost.s0 /\ cpu.dscratch0 = ghost.s0
    BY <1>2, <1>4, <1>5, <1>12
  <2>2. cpu.pc \notin {796, 800} => cpu.regs["s0"] = ghost.s0
    BY <1>4
  <2>3. cpu'.debug_mode /\ cpu'.dscratch0 = ghost.s0
    BY <1>3, <1>6, <1>9, <1>12, <2>1, <2>2 DEF CsrCodeSteps
  <2>4. cpu.pc \notin {792, 796} => cpu'.regs["s0"] = ghost.s0
    BY <1>6, <1>7, <1>8, <1>9, <2>1, <2>2 DEF CsrCodeSteps
  <2>5. cpu.pc \in {792, 796} => ~InRegister'
    BY <1>10, <2>1 DEF CsrCodeSteps
  <2> QED
    BY <2>1, <2>3, <2>4, <2>5 DEF S0Inv
<1>13. CASE cmd.transfer /\ cmd.regno \notin CsrRegno
  <2>1. /\ RegCodeSteps(cmd) /\ ~MovesCsr /\ cpu.regs["s0"] = ghost.s0 /\ cmd.regno \in Reg
        /\ cpu.pc # 792 \/ ~WritesS0 => cpu.dscratch0 = ghost.s0
    BY <1>2, <1>3, <1>4, <1>5, <1>13
  <2>2. WritesS0 <=> cmd.write /\ cmd.regno = "s0"
    BY <1>5, <1>13
  <2>3. cpu'.debug_mode /\ cpu'.regs["s0"] = ghost'.s0
    BY <1>2, <1>6, <1>7, <1>9, <1>13, <2>1 DEF RegCodeSteps
  <2>4. cpu.pc = 788 /\ WritesS0 => ~InScratch'
    BY <1>5, <1>10, <2>1, <2>2 DEF RegCodeSteps
  <2>5. ~(cpu.pc = 788 /\ WritesS0) => cpu'.dscratch0 = ghost'.s0
    BY <1>2, <1>6, <1>9, <1>13, <2>1, <2>2 DEF RegCodeSteps
  <2> QED
    BY <2>3, <2>4, <2>5 DEF S0Inv
<1> QED
  BY <1>11, <1>12, <1>13

\* The program buffer.
LEMMA BufferedKeepsS0 ==
    ASSUME KeepsProgramS0, HandshakeInv, S0Inv, InSession, cpu.pc \in Buffered, CoreStep
    PROVE  S0Inv'
<1>1. /\ cpu \in HartState /\ dm \in ModuleState /\ ghost \in Ghost /\ cpu.debug_mode
      /\ \A i \in 1..ProgBufSize : dm.program_buffer[i] \in BufferWord
  BY DEF HandshakeInv, SystemTypeOK, TypeOK, InSession, AutoexecInv
<1>2. PICK word \in BufferWord : Effect(cpu, word, cpu')
  BY <1>1, BufferedStep
<1>3. cpu'.debug_mode /\ ghost'.s0 = ghost.s0
  BY <1>1, BufferedStep DEF Moves
<1>4. word \in Instruction /\ Confined(word)
  BY BufferWords
<1>5. ~(word.op = "set" /\ word.reg = "s0") /\ ~(word.op = "csr" /\ word.csr = "dscratch0")
  BY DEF KeepsProgramS0, BufferWord, Unwritten
<1>6. cpu'.regs["s0"] = cpu.regs["s0"] /\ cpu'.dscratch0 = cpu.dscratch0
  <2>1. cpu.regs \in [Reg -> Value]
    BY <1>1 DEF HartState
  <2>2. CASE word.op \in {"alu", "jump", "ebreak", "fault"}
    BY <1>2, <2>2 DEF Effect, Keeps, KeepsRegs, KeepsCsrs
  <2>3. CASE word.op = "set"
    BY <1>2, <1>5, <2>1, <2>3 DEF Effect, KeepsCsrs, Reg
  <2>4. CASE word.op = "csr"
    <3>1. word.csr # "mip"
      BY <1>4, <2>4 DEF Confined
    <3> QED
      BY <1>2, <1>5, <2>4, <3>1 DEF Effect, KeepsRegs
  <2>5. word.op \in {"alu", "set", "csr", "jump", "ebreak", "fault"}
    BY <1>4 DEF Confined
  <2> QED
    BY <2>2, <2>3, <2>4, <2>5
<1>7. cpu.regs["s0"] = ghost.s0 /\ cpu.dscratch0 = ghost.s0
  BY <1>1 DEF S0Inv, InRegister, InScratch
<1> QED
  BY <1>3, <1>6, <1>7 DEF S0Inv

\* A hart that has just been halted keeps it in s0, and one that waits in the park
\* loop in dscratch0.
LEMMA InScratchOnly ==
    ASSUME dm \in ModuleState
    PROVE  /\ cpu.pc \in Entering => ~InScratch
           /\ cpu.pc \in ParkLoop => ~InRegister
<1>1. cpu.pc \in Entering \cup ParkLoop => cpu.pc \notin Assembled \cup Buffered
  BY Apart DEF Handshake, Assembled
<1> QED
  BY <1>1 DEF InRegister, InScratch, Entering, ParkLoop, Exception, Launching, Leading, Leaving, Left

LEMMA CoreStepKeepsS0 ==
    ASSUME KeepsProgramS0, HandshakeInv, S0Inv, CoreStep
    PROVE  S0Inv'
<1>1. /\ cpu \in HartState /\ dm \in ModuleState /\ ghost \in Ghost
      /\ SessionInv /\ WhereInv /\ AccountInv /\ StepInv
  BY DEF HandshakeInv, SystemTypeOK, TypeOK
<1>2. CASE cpu.debug_mode
  <2>1. InSession /\ (cpu.pc \in Handshake \cup {768, 2160} \/ cpu.pc \in Code)
    BY <1>1, <1>2 DEF SessionInv, InSession
  <2>2. CASE cpu.pc \in Handshake
    BY <2>1, <2>2, RomKeepsS0
  <2>3. CASE cpu.pc = 768
    <3>1. Moves(cpu, cpu', 788) /\ Keeps(cpu, cpu') /\ ghost'.s0 = ghost.s0
      BY <1>1, <2>1, <2>3, EnterCodeStep
    <3>2. cpu.regs["s0"] = ghost.s0 /\ cpu.dscratch0 = ghost.s0
      BY <1>2, <2>3 DEF S0Inv, InRegister, InScratch, Leading
    <3> QED
      BY <3>1, <3>2 DEF S0Inv, Moves, Keeps, KeepsRegs, KeepsCsrs
  <2>4. CASE cpu.pc = 2160
    <3>1. ~cpu'.debug_mode /\ cpu'.regs = cpu.regs /\ ghost'.s0 = ghost.s0
      BY <1>1, <2>1, <2>4, LeaveStep DEF SessionInv
    <3>2. cpu.regs["s0"] = ghost.s0
      BY <1>2, <2>4 DEF S0Inv, InRegister
    <3> QED
      BY <3>1, <3>2 DEF S0Inv
  <2>5. CASE cpu.pc \in Code
    <3>1. Running
      BY <1>1, <1>2, <2>5 DEF WhereInv
    <3>2. Holds(ghost.command)
      BY <1>1, <3>1 DEF AccountInv, Running, Holds
    <3> QED
      BY <2>1, <2>5, <3>2, AssembledKeepsS0, BufferedKeepsS0 DEF Code
  <2> QED
    BY <2>1, <2>2, <2>3, <2>4, <2>5
<1>3. CASE ~cpu.debug_mode
  <2>1. /\ cpu.mip = {} /\ cpu.single_step \in {0, 1} /\ cpu.pc \notin DebugMemory
        /\ ghost.stepping = IF cpu.single_step = 1 THEN "due" ELSE "free"
    BY <1>1, <1>3 DEF SessionInv, StepInv
  <2>2. cpu.regs["s0"] = ghost.s0
    BY <1>3 DEF S0Inv
  <2>3. /\ dm' = dm /\ cpu'.regs["s0"] = ghost'.s0
        /\ cpu'.debug_mode => cpu'.pc \in Entering
    BY <1>1, <1>3, <2>1, <2>2, HaltStep, ProgramStep DEF Entering
  <2>4. (dm \in ModuleState /\ cpu.pc \in Entering => ~InScratch)'
    BY InScratchOnly, PTL
  <2> QED
    BY <1>1, <2>3, <2>4 DEF S0Inv
<1> QED
  BY <1>2, <1>3

LEMMA AccessKeepsS0 ==
    ASSUME HandshakeInv, S0Inv, Debugger \/ RunTestIdle \/ UNCHANGED vars
    PROVE  S0Inv'
<1>1. /\ cpu \in HartState /\ dm \in ModuleState /\ ghost \in Ghost /\ FlagsInv /\ WhereInv
  BY DEF HandshakeInv, SystemTypeOK, TypeOK
<1>2. (dm \in ModuleState => /\ cpu.pc \in Entering => ~InScratch
                             /\ cpu.pc \in ParkLoop => ~InRegister)'
  BY InScratchOnly, PTL
<1>3. ASSUME /\ cpu'.debug_mode = cpu.debug_mode /\ cpu'.pc = cpu.pc /\ cpu'.regs = cpu.regs
             /\ cpu'.dscratch0 = cpu.dscratch0
             /\ dm'.debug_abstract = dm.debug_abstract
             /\ ghost'.s0 = ghost.s0 /\ ghost'.command = ghost.command
      PROVE  S0Inv'
  <2>1. InRegister' = InRegister /\ InScratch' = InScratch
    BY <1>3 DEF InRegister, InScratch, Assembled, MovesCsr, WritesS0
  <2> QED
    BY <1>3, <2>1 DEF S0Inv
<1>4. CASE AbstractEffect
  <2>1. /\ cpu' = cpu /\ accessed = "none" /\ ~Resuming /\ dm' \in ModuleState
        /\ Quiet(dm, dm') \/ Launched(dm, dm')
        /\ ghost' = IF dm'.busy /\ ~dm.busy THEN Opened(ghost, dm'.command) ELSE ghost
    BY <1>4 DEF AbstractEffect, Served
  <2>2. CASE Quiet(dm, dm')
    BY <1>3, <2>1, <2>2 DEF Quiet
  <2>3. CASE Launched(dm, dm')
    <3>1. cpu.debug_mode /\ cpu.pc \in Entering \cup ParkLoop
      BY <2>1, <2>3, Waiting DEF Launched
    <3>2. ghost'.s0 = ghost.s0
      BY <1>1, <2>1, <2>3, OpenedAccount DEF Launched
    <3>3. /\ cpu.pc \in Entering => cpu.regs["s0"] = ghost.s0
          /\ cpu.pc \in ParkLoop => cpu.dscratch0 = ghost.s0
      BY <3>1 DEF S0Inv, InRegister, InScratch
    <3> QED
      BY <1>2, <2>1, <3>1, <3>2, <3>3 DEF S0Inv
  <2> QED
    BY <2>1, <2>2, <2>3
<1>5. CASE Unnoticed
  BY <1>3, <1>5 DEF Unnoticed, SameHart, SameModule
<1>6. CASE ResumeEffect
  <2>1. ghost'.s0 = ghost.s0 /\ ghost'.command = ghost.command
    BY <1>1, <1>6 DEF ResumeEffect, Ghost
  <2> QED
    BY <1>3, <1>6, <2>1 DEF ResumeEffect, SameHart, SameModule
<1>7. CASE ResetEffect
  <2>1. ghost'.s0 = 0
    BY <1>1, <1>7 DEF ResetEffect, Ghost
  <2> QED
    BY <1>7, <2>1 DEF ResetEffect, S0Inv
<1>8. CASE CompletionEffect
  <2>1. cpu' = cpu /\ dm' \in ModuleState /\ ghost' = Opened(ghost, NoCommand)
    BY <1>8 DEF CompletionEffect
  <2>2. ghost'.s0 = ghost.s0
    BY <1>1, <2>1, OpenedAccount
  <2>3. cpu.debug_mode /\ cpu.pc \in ParkLoop
    BY <1>8, AtCompletion
  <2>4. cpu.dscratch0 = ghost.s0
    BY <2>3 DEF S0Inv, InScratch
  <2> QED
    BY <1>2, <2>1, <2>2, <2>3, <2>4 DEF S0Inv
<1> QED
  BY <1>4, <1>5, <1>6, <1>7, <1>8, AccessKinds

LEMMA S0Invariant == KeepsProgramS0 => (SystemSpec => []S0Inv)
<1> SUFFICES ASSUME KeepsProgramS0
             PROVE  SystemSpec => []S0Inv
  OBVIOUS
<1>1. SystemInit => S0Inv
  BY DEF SystemInit, Init, InitGhost, ResetState, Reg, S0Inv
<1>2. HandshakeInv /\ S0Inv /\ [SystemNext]_vars => S0Inv'
  BY CoreStepKeepsS0, AccessKeepsS0 DEF SystemNext
<1> QED
  BY <1>1, <1>2, HandshakeInvariant, PTL DEF SystemSpec

\* The program finds its s0 as it left it, if the debugger's own code leaves s0
\* and dscratch0 alone.
THEOREM ProgramKeepsS0 == KeepsProgramS0 => (SystemSpec => []ProgramS0Preserved)
<1> SUFFICES ASSUME KeepsProgramS0
             PROVE  SystemSpec => []ProgramS0Preserved
  OBVIOUS
<1>1. S0Inv => ProgramS0Preserved
  BY DEF S0Inv, ProgramS0Preserved
<1> QED
  BY <1>1, S0Invariant, PTL

-----------------------------------------------------------------------------
(* The data register and the register a command transfers.                 *)

\* The code of the command has been entered.
Entered == dm.busy /\ ~Going /\ ghost.command.transfer /\ cpu.pc \notin Leading

\* The program buffer runs if the command says so, and s0 holds the word that is
\* about to be moved to or from a CSR.
MoveInv ==
    /\ dm.busy /\ cpu.pc \in Buffered => ghost.command.postexec
    /\ Entered /\ MovesCsr /\ cpu.pc = 796 =>
          cpu.regs["s0"] = IF ghost.command.write THEN dm.dmdata
                                                  ELSE CsrWord(cpu, ghost.command.regno)

\* The code of a command.
LEMMA AssembledKeepsMove ==
    ASSUME HandshakeInv, InSession, cpu.pc \in Assembled, Holds(ghost.command), CoreStep
    PROVE  MoveInv'
<1> DEFINE cmd == ghost.command
<1>1. /\ cpu \in HartState /\ dm \in ModuleState /\ ghost \in Ghost
  BY DEF HandshakeInv, SystemTypeOK, TypeOK
<1>2. /\ ghost'.command = cmd
      /\ ~cmd.transfer => EndingStep(cmd)
      /\ cmd.transfer /\ cmd.regno \in CsrRegno => CsrCodeSteps(cmd)
      /\ cmd.transfer /\ cmd.regno \notin CsrRegno => RegCodeSteps(cmd)
  BY <1>1, AssembledStep
<1>3. EndingStep(cmd) => cpu'.pc = IF cmd.postexec THEN 836 ELSE 2048
  BY DEF EndingStep
<1>4. cmd.transfer => cmd.regno \in Reg \cup CsrRegno
  BY DEF Holds
<1>5. Entered' /\ MovesCsr' => cmd.transfer /\ cmd.regno \in CsrRegno
  BY <1>2 DEF MovesCsr
<1> HIDE DEF cmd
<1>6. cpu'.pc \in {792, 796, 800, 804} \/ cpu'.pc = IF cmd.postexec THEN 836 ELSE 2048
  BY <1>2, <1>3 DEF CsrCodeSteps, RegCodeSteps
<1>7. cpu'.pc \in Buffered => cmd.postexec
  BY <1>6, BufferRegion
<1>8. ASSUME cmd.transfer, cmd.regno \in CsrRegno, cpu'.pc = 796
      PROVE  cpu'.regs["s0"] = IF cmd.write THEN dm'.dmdata ELSE CsrWord(cpu', cmd.regno)
  <2>1. CsrCodeSteps(cmd)
    BY <1>2, <1>8
  <2>2. cpu.pc = 792
    BY <1>3, <1>8, <2>1 DEF CsrCodeSteps
  <2>3. /\ cpu'.regs = SetReg("s0", IF cmd.write THEN dm.dmdata ELSE CsrWord(cpu, cmd.regno))
        /\ cpu'.dscratch0 = cpu.dscratch0 /\ cpu'.dpc = cpu.dpc /\ cpu'.dcsr = cpu.dcsr
        /\ dm'.dmdata = dm.dmdata
    BY <2>1, <2>2 DEF CsrCodeSteps, Puts
  <2>4. CsrWord(cpu', cmd.regno) = CsrWord(cpu, cmd.regno)
    BY <1>8, <2>3 DEF CsrWord, CsrRegno
  <2>5. cpu.regs \in [Reg -> Value] /\ "s0" \in Reg
    BY <1>1 DEF HartState, Reg
  <2>6. cpu'.regs["s0"] = IF cmd.write THEN dm.dmdata ELSE CsrWord(cpu, cmd.regno)
    BY <2>3, <2>5 DEF SetReg
  <2> QED
    BY <2>3, <2>4, <2>6
<1> QED
  BY <1>2, <1>5, <1>7, <1>8 DEF MoveInv, cmd

LEMMA CoreStepKeepsMove ==
    ASSUME HandshakeInv, MoveInv, CoreStep
    PROVE  MoveInv'
<1>1. /\ cpu \in HartState /\ dm \in ModuleState /\ ghost \in Ghost
      /\ SessionInv /\ FlagsInv /\ WhereInv /\ AutoexecInv /\ AccountInv /\ StepInv
  BY DEF HandshakeInv, SystemTypeOK, TypeOK
<1>2. CASE cpu.debug_mode
  <2>1. InSession /\ (cpu.pc \in Handshake \cup {768, 2160} \/ cpu.pc \in Code)
    BY <1>1, <1>2 DEF SessionInv, InSession
  <2>2. CASE cpu.pc \in Handshake
    <3>1. cpu'.pc \in Handshake \cup {768, 2160}
      BY <1>1, <2>1, <2>2, RomStep, RomPlace DEF ModuleState
    <3>2. cpu'.pc \notin Buffered /\ cpu'.pc # 796
      BY <1>1, <3>1, Apart DEF Handshake, Entering, ParkLoop, Exception, Launching, Leaving
    <3> QED
      BY <3>2 DEF MoveInv
  <2>3. CASE cpu.pc = 768
    <3>1. cpu'.pc = 788
      BY <1>1, <2>1, <2>3, EnterCodeStep DEF Moves
    <3> QED
      BY <3>1, BufferRegion DEF MoveInv
  <2>4. CASE cpu.pc = 2160
    <3>1. dm' = dm
      BY <1>1, <2>1, <2>4, LeaveStep DEF SessionInv
    <3>2. ~dm.busy
      BY <1>1, <1>2, <2>4 DEF WhereInv, FlagsInv, Left
    <3> QED
      BY <3>1, <3>2 DEF MoveInv, Entered
  <2>5. CASE cpu.pc \in Assembled
    <3>1. Holds(ghost.command)
      BY <1>1, <1>2, <2>5 DEF Code, WhereInv, Running, AccountInv, Holds
    <3> QED
      BY <2>1, <2>5, <3>1, AssembledKeepsMove
  <2>6. CASE cpu.pc \in Buffered
    <3>1. ghost.command.postexec
      BY <1>1, <1>2, <2>6 DEF Code, WhereInv, Running, MoveInv
    <3>2. ghost'.command = ghost.command /\ cpu'.pc \in Buffered \cup {2048, 2056}
      BY <1>1, <2>1, <2>6, BufferedStep DEF AutoexecInv
    <3>3. cpu'.pc # 796
      BY <3>2, BufferRegion
    <3> QED
      BY <3>1, <3>2, <3>3 DEF MoveInv
  <2> QED
    BY <2>1, <2>2, <2>3, <2>4, <2>5, <2>6 DEF Code
<1>3. CASE ~cpu.debug_mode
  <2>1. /\ cpu.mip = {} /\ cpu.single_step \in {0, 1} /\ cpu.pc \notin DebugMemory
        /\ ghost.stepping = IF cpu.single_step = 1 THEN "due" ELSE "free"
    BY <1>1, <1>3 DEF SessionInv, StepInv
  <2>2. dm' = dm
    BY <1>1, <1>3, <2>1, HaltStep, ProgramStep
  <2>3. ~dm.busy
    BY <1>1, <1>3 DEF FlagsInv
  <2> QED
    BY <2>2, <2>3 DEF MoveInv, Entered
<1> QED
  BY <1>2, <1>3

LEMMA AccessKeepsMove ==
    ASSUME HandshakeInv, MoveInv, Debugger \/ RunTestIdle \/ UNCHANGED vars
    PROVE  MoveInv'
<1>1. ASSUME ~dm'.busy
      PROVE  MoveInv'
  BY <1>1 DEF MoveInv, Entered
<1>2. ASSUME dm.busy, dm'.debug_rom_flags = dm.debug_rom_flags, dm'.dmdata = dm.dmdata,
             ghost' = ghost, cpu'.pc = cpu.pc, cpu'.regs = cpu.regs, cpu'.dpc = cpu.dpc,
             cpu'.dcsr = cpu.dcsr, cpu'.dscratch0 = cpu.dscratch0
      PROVE  MoveInv'
  <2>1. (Entered' => Entered) /\ MovesCsr' = MovesCsr
    BY <1>2 DEF Entered, MovesCsr, Going
  <2>2. MovesCsr => CsrWord(cpu', ghost.command.regno) = CsrWord(cpu, ghost.command.regno)
    BY <1>2 DEF CsrWord, MovesCsr, CsrRegno
  <2> QED
    BY <1>2, <2>1, <2>2 DEF MoveInv
<1>3. CASE AbstractEffect
  <2>1. /\ cpu' = cpu /\ accessed = "none" /\ ~Resuming
        /\ Quiet(dm, dm') \/ Launched(dm, dm')
        /\ ghost' = IF dm'.busy /\ ~dm.busy THEN Opened(ghost, dm'.command) ELSE ghost
    BY <1>3 DEF AbstractEffect, Served
  <2>2. CASE Quiet(dm, dm')
    BY <1>1, <1>2, <2>1, <2>2 DEF Quiet
  <2>3. CASE Launched(dm, dm')
    <3>1. cpu.pc \in Entering \cup ParkLoop
      BY <2>1, <2>3, Waiting DEF Launched
    <3>2. cpu'.pc \notin Buffered
      BY <2>1, <3>1, WaitingApart DEF HandshakeInv, SystemTypeOK
    <3>3. ~Entered'
      BY <2>3 DEF Launched, Entered, Going
    <3> QED
      BY <3>2, <3>3 DEF MoveInv
  <2> QED
    BY <2>1, <2>2, <2>3
<1>4. CASE Unnoticed
  <2>1. dm'.busy = dm.busy
    BY <1>4 DEF Unnoticed, SameModule
  <2>2. CASE dm.busy
    BY <1>2, <1>4, <2>2 DEF Unnoticed, SameHart, SameModule
  <2> QED
    BY <1>1, <2>1, <2>2
<1>5. CASE ResumeEffect \/ ResetEffect \/ CompletionEffect
  BY <1>1, <1>5 DEF ResumeEffect, ResetEffect, CompletionEffect, SameModule
<1> QED
  BY <1>3, <1>4, <1>5, AccessKinds

LEMMA MoveInvariant == SystemSpec => []MoveInv
<1>1. SystemInit => MoveInv
  BY DEF SystemInit, InitModule, MoveInv, Entered
<1>2. HandshakeInv /\ MoveInv /\ [SystemNext]_vars => MoveInv'
  BY CoreStepKeepsMove, AccessKeepsMove DEF SystemNext
<1> QED
  BY <1>1, <1>2, HandshakeInvariant, PTL DEF SystemSpec

Transferred(regno) ==
    /\ regno \in {"s0", "dscratch0"} => dm.dmdata = ghost.s0
    /\ regno = "s1" => dm.dmdata = cpu.regs["s1"]
    /\ regno = "dpc" => dm.dmdata = cpu.dpc
    /\ regno = "dcsr" => CsrValue("dcsr", dm.dmdata) = cpu.dcsr

TransferInv == Entered /\ ~Moving => Transferred(ghost.command.regno)

\* Reading dcsr as a word and writing the word back leaves it as it was.
LEMMA DcsrRoundTrip ==
    ASSUME cpu \in HartState
    PROVE  CsrValue("dcsr", CsrWord(cpu, "dcsr")) = cpu.dcsr
<1> DEFINE cause == cpu.dcsr.cause
           step == IF cpu.dcsr.step THEN 1 ELSE 0
           prv == cpu.dcsr.prv
           word == cause * 64 + step * 4 + prv
<1>1. cpu.dcsr \in DCsr /\ cpu.dcsr.step \in BOOLEAN
  BY DEF HartState, DCsr
<1>2. cause \in 0..7 /\ step \in 0..1 /\ prv \in 0..3
  BY <1>1 DEF DCsr, Privilege
<1>3. CsrWord(cpu, "dcsr") = word
  <2>1. (IF cpu.dcsr.step THEN 4 ELSE 0) = step * 4
    OBVIOUS
  <2> QED
    BY <2>1 DEF CsrWord
<1>4. cpu.dcsr = [cause |-> cause, prv |-> prv, step |-> cpu.dcsr.step]
  BY <1>1 DEF DCsr
<1>5. cpu.dcsr.step = (step = 1)
  BY <1>1
<1> HIDE DEF cause, step, prv
<1>6. (word \div 64) % 8 = cause /\ (word \div 4) % 2 = step /\ word % 4 = prv
  <2>1. step * 4 + prv \in 0..7 /\ word = 64 * cause + (step * 4 + prv)
    BY <1>2
  <2>2. word \div 64 = cause
    BY <1>2, <2>1
  <2>3. word \div 4 = 16 * cause + step
    BY <1>2
  <2>4. (16 * cause + step) % 2 = step
    BY <1>2
  <2> QED
    BY <1>2, <2>2, <2>3, <2>4
<1> HIDE DEF word
<1> QED
  BY <1>3, <1>4, <1>5, <1>6 DEF CsrValue

\* The ROM.
LEMMA RomKeepsTransfer ==
    ASSUME HandshakeInv, TransferInv, InSession, cpu.pc \in Handshake, CoreStep
    PROVE  TransferInv'
<1>1. /\ cpu \in HartState /\ dm \in ModuleState /\ ghost \in Ghost
  BY DEF HandshakeInv, SystemTypeOK, TypeOK
<1>2. /\ cpu'.regs["s1"] = cpu.regs["s1"] /\ cpu'.dpc = cpu.dpc /\ cpu'.dcsr = cpu.dcsr
      /\ RomPc /\ RomStores /\ KeepsAccount
  BY <1>1, RomStep DEF ModuleState
<1>3. RomModule
  BY <1>1, <1>2, RomModuleEffect
<1>4. cpu'.pc \in Handshake \cup {768, 2160}
  BY <1>2, RomPlace
<1>6. cpu'.pc \notin {788, 792, 796} /\ cpu.pc \notin {788, 792, 796}
  BY <1>4 DEF Handshake, Entering, ParkLoop, Exception, Launching, Leaving
<1>7. Entered' => Entered
  <2>1. Entered' => dm.busy /\ ghost.command.transfer /\ (~Going \/ cpu.pc = 2128)
    BY <1>2, <1>3 DEF Entered, RomModule, KeepsAccount
  <2>2. cpu.pc = 2128 \/ cpu.pc \in Leading => cpu'.pc \in Leading
    <3>1. cpu.pc \in Leading => cpu.pc \in {2132, 2136, 2140, 2144}
      BY DEF Leading, Handshake, Entering, ParkLoop, Exception, Launching, Leaving
    <3> QED
      BY <1>2, <3>1 DEF RomPc, Sequential, Leading
  <2> QED
    BY <2>1, <2>2 DEF Entered
<1>8. ~Moving
  BY <1>6 DEF Moving
<1>9. Entered => Transferred(ghost.command.regno)
  BY <1>8 DEF TransferInv
<1>10. Transferred(ghost.command.regno) => Transferred(ghost.command.regno)'
  BY <1>2, <1>3 DEF Transferred, RomModule, KeepsAccount
<1> QED
  BY <1>7, <1>9, <1>10 DEF TransferInv

\* The jump to the code of the command.
LEMMA EnterCodeKeepsTransfer ==
    ASSUME HandshakeInv, InSession, cpu.pc = 768, CoreStep
    PROVE  TransferInv'
<1>1. cpu \in HartState /\ ghost \in Ghost
  BY DEF HandshakeInv, SystemTypeOK, TypeOK
<1>2. cpu'.pc = 788
  BY <1>1, EnterCodeStep DEF Moves
<1> QED
  BY <1>2 DEF TransferInv, Moving

\* The code of a command.
LEMMA AssembledKeepsTransfer ==
    ASSUME KeepsProgramS0, HandshakeInv, S0Inv, MoveInv, TransferInv, InSession,
           cpu.pc \in Assembled, Running, Holds(ghost.command), CoreStep
    PROVE  TransferInv'
<1> DEFINE cmd == ghost.command
<1>1. /\ cpu \in HartState /\ dm \in ModuleState /\ ghost \in Ghost /\ cpu.debug_mode
      /\ dm.busy /\ ~Going
  BY DEF HandshakeInv, SystemTypeOK, TypeOK, InSession, Running
<1>2. /\ ghost'.command = cmd
      /\ ghost'.s0 = IF cmd.transfer /\ cmd.write /\ cmd.regno = "s0" /\ cpu.pc = 788
                       THEN dm.dmdata ELSE ghost.s0
      /\ ~cmd.transfer => EndingStep(cmd)
      /\ cmd.transfer /\ cmd.regno \in CsrRegno => CsrCodeSteps(cmd)
      /\ cmd.transfer /\ cmd.regno \notin CsrRegno => RegCodeSteps(cmd)
  BY <1>1, AssembledStep
<1>3. /\ cmd.transfer /\ cmd.write => cmd.regno # "dscratch0"
      /\ cmd.transfer => cmd.regno \in Reg \cup CsrRegno
  BY DEF Holds, KeepsProgramS0
<1>4. /\ (MovesCsr => cpu.pc \notin {796, 800}) => cpu.regs["s0"] = ghost.s0
      /\ (WritesS0 => cpu.pc # 792) => cpu.dscratch0 = ghost.s0
  BY <1>1 DEF S0Inv, InRegister, InScratch
<1>5. /\ MovesCsr <=> cmd.transfer /\ cmd.regno \in CsrRegno
      /\ WritesS0 <=> cmd.transfer /\ cmd.write /\ cmd.regno = "s0"
      /\ MovesCsr' <=> MovesCsr
  BY <1>2 DEF MovesCsr, WritesS0
<1>6. cpu.pc \notin Leading
  BY <1>1, Apart DEF Assembled, Handshake, Leading
<1>7. Entered <=> cmd.transfer
  BY <1>1, <1>6 DEF Entered
<1>8. Entered' => cmd.transfer
  BY <1>2 DEF Entered
<1>9. ASSUME NEW r, NEW sc, NEW p, NEW c, NEW d, Puts(r, sc, p, c, d)
      PROVE  /\ cpu'.pc = cpu.pc + 4 /\ cpu'.regs = r /\ cpu'.dscratch0 = sc /\ cpu'.dpc = p
             /\ cpu'.dcsr = c /\ dm'.dmdata = d
  BY <1>9 DEF Puts, Moves
<1>10. EndingStep(cmd) => /\ cpu'.pc = IF cmd.postexec THEN 836 ELSE 2048
                          /\ cpu'.regs = cpu.regs /\ cpu'.dpc = cpu.dpc
                          /\ cpu'.dcsr = cpu.dcsr /\ dm' = dm
  BY DEF EndingStep, Keeps, KeepsRegs, KeepsCsrs
<1>11. cpu.regs \in [Reg -> Value] /\ "s0" \in Reg /\ "s1" \in Reg
  BY <1>1 DEF HartState, Reg
<1> HIDE DEF cmd
<1>13. CASE ~cmd.transfer
  BY <1>8, <1>13 DEF TransferInv
<1>14. CASE cmd.transfer /\ cmd.regno \in CsrRegno
  <2>1. /\ CsrCodeSteps(cmd) /\ MovesCsr /\ MovesCsr' /\ Entered
        /\ cpu.dscratch0 = ghost.s0 /\ ghost'.s0 = ghost.s0
        /\ cmd.regno \notin {"s0", "s1"} /\ cmd.regno \in {"dcsr", "dpc", "dscratch0"}
    BY <1>2, <1>4, <1>5, <1>7, <1>14 DEF CsrRegno
  <2>2. cpu.pc = 796 =>
           cpu.regs["s0"] = IF cmd.write THEN dm.dmdata ELSE CsrWord(cpu, cmd.regno)
    BY <2>1 DEF MoveInv, cmd
  <2>3. cpu.pc \in {800, 804} => Transferred(cmd.regno)
    BY <2>1 DEF TransferInv, Moving, cmd
  <2>4. CASE cpu.pc \in {788, 792}
    <3>1. cpu'.pc \in {792, 796}
      BY <2>1, <2>4 DEF CsrCodeSteps
    <3> QED
      BY <2>1, <3>1 DEF TransferInv, Moving
  <2>5. CASE cpu.pc = 796
    <3>1. cpu'.pc = 800
      BY <2>1, <2>5 DEF CsrCodeSteps
    <3>2. Transferred(cmd.regno)'
      <4>1. CASE cmd.write
        <5>1. /\ cmd.regno \in {"dcsr", "dpc"}
              /\ cpu'.dpc = IF cmd.regno = "dpc" THEN cpu.regs["s0"] ELSE cpu.dpc
              /\ cpu'.dcsr = IF cmd.regno = "dcsr" THEN CsrValue("dcsr", cpu.regs["s0"])
                                                   ELSE cpu.dcsr
              /\ dm'.dmdata = dm.dmdata
          BY <1>3, <1>9, <1>14, <2>1, <2>5, <4>1 DEF CsrCodeSteps
        <5>2. cpu.regs["s0"] = dm.dmdata
          BY <2>2, <2>5, <4>1
        <5> QED
          BY <1>2, <5>1, <5>2 DEF Transferred, cmd
      <4>2. CASE ~cmd.write
        <5>1. /\ cpu'.dpc = cpu.dpc /\ cpu'.dcsr = cpu.dcsr /\ dm'.dmdata = cpu.regs["s0"]
          BY <1>9, <2>1, <2>5, <4>2 DEF CsrCodeSteps
        <5>2. dm'.dmdata = CsrWord(cpu, cmd.regno)
          BY <2>2, <2>5, <4>2, <5>1
        <5>3. CASE cmd.regno = "dcsr"
          BY <1>2, <1>1, <5>1, <5>2, <5>3, DcsrRoundTrip DEF cmd, Transferred
        <5>4. CASE cmd.regno = "dpc"
          BY <1>2, <5>1, <5>2, <5>4 DEF cmd, Transferred, CsrWord
        <5>5. CASE cmd.regno = "dscratch0"
          BY <1>2, <2>1, <5>2, <5>5 DEF cmd, Transferred, CsrWord
        <5> QED
          BY <2>1, <5>3, <5>4, <5>5
      <4> QED
        BY <4>1, <4>2
    <3> QED
      BY <1>2, <3>2 DEF TransferInv, cmd
  <2>6. CASE cpu.pc \in {800, 804}
    <3>1. cpu'.dpc = cpu.dpc /\ cpu'.dcsr = cpu.dcsr /\ dm'.dmdata = dm.dmdata
      BY <1>9, <1>10, <2>1, <2>6 DEF CsrCodeSteps
    <3>2. Transferred(cmd.regno)'
      BY <1>2, <2>1, <2>3, <2>6, <3>1 DEF cmd, Transferred
    <3> QED
      BY <1>2, <3>2 DEF cmd, TransferInv
  <2> QED
    BY <2>1, <2>4, <2>5, <2>6 DEF CsrCodeSteps
<1>15. CASE cmd.transfer /\ cmd.regno \notin CsrRegno
  <2>1. /\ RegCodeSteps(cmd) /\ ~MovesCsr /\ ~MovesCsr' /\ Entered /\ cpu.regs["s0"] = ghost.s0
        /\ cmd.regno \in {"s0", "s1"}
    BY <1>2, <1>3, <1>4, <1>5, <1>7, <1>15 DEF Reg
  <2>2. cpu.pc # 788 => Transferred(cmd.regno)
    BY <2>1 DEF TransferInv, Moving, cmd
  <2>3. Transferred(cmd.regno)'
    <3>1. CASE cpu.pc = 788 /\ cmd.write
      <4>1. /\ cpu'.regs = SetReg(cmd.regno, dm.dmdata) /\ dm'.dmdata = dm.dmdata
            /\ cmd.regno = "s0" => ghost'.s0 = dm.dmdata
        BY <1>2, <1>9, <1>15, <2>1, <3>1 DEF RegCodeSteps
      <4> QED
        BY <1>2, <1>11, <2>1, <4>1 DEF cmd, Transferred, SetReg
    <3>2. CASE cpu.pc = 788 /\ ~cmd.write
      <4>1. cpu'.regs = cpu.regs /\ dm'.dmdata = cpu.regs[cmd.regno] /\ ghost'.s0 = ghost.s0
        BY <1>2, <1>9, <2>1, <3>2 DEF RegCodeSteps
      <4> QED
        BY <1>2, <2>1, <4>1 DEF cmd, Transferred
    <3>3. CASE cpu.pc # 788
      <4>1. cpu'.regs = cpu.regs /\ dm'.dmdata = dm.dmdata /\ ghost'.s0 = ghost.s0
        BY <1>2, <1>9, <1>10, <2>1, <3>3 DEF RegCodeSteps
      <4> QED
        BY <1>2, <2>1, <2>2, <3>3, <4>1 DEF cmd, Transferred
    <3> QED
      BY <3>1, <3>2, <3>3
  <2> QED
    BY <1>2, <2>3 DEF cmd, TransferInv
<1> QED
  BY <1>13, <1>14, <1>15

\* The program buffer.
LEMMA BufferedKeepsTransfer ==
    ASSUME KeepsProgramS0, KeepsTransferred, HandshakeInv, MoveInv, TransferInv, InSession,
           cpu.pc \in Buffered, Running, Holds(ghost.command), CoreStep
    PROVE  TransferInv'
<1> DEFINE cmd == ghost.command
<1>1. /\ cpu \in HartState /\ dm \in ModuleState /\ ghost \in Ghost
      /\ dm.busy /\ ~Going /\ cmd \in Command
      /\ \A i \in 1..ProgBufSize : dm.program_buffer[i] \in BufferWord
  BY DEF HandshakeInv, SystemTypeOK, TypeOK, AutoexecInv, Running, Holds
<1>2. PICK word \in BufferWord : Effect(cpu, word, cpu')
  BY <1>1, BufferedStep
<1>3. /\ dm' = dm /\ ghost'.s0 = ghost.s0 /\ ghost'.command = cmd
      /\ cpu'.pc \in Buffered \cup {2048, 2056}
  BY <1>1, BufferedStep
<1>4. word \in Instruction /\ Confined(word)
  BY BufferWords
<1>5. cmd.postexec
  BY <1>1 DEF MoveInv
<1>6. cmd.transfer => ~(word.op = "set" /\ word.reg = cmd.regno)
                      /\ ~(word.op = "csr" /\ word.csr = cmd.regno)
  BY <1>1, <1>5 DEF KeepsTransferred, BufferWord, Unwritten
<1>7. Entered' => Entered /\ ~Moving
  <2>1. cpu.pc \notin Leading
    BY <1>1, Apart DEF Handshake, Leading
  <2>2. cpu.pc \notin {788, 792, 796}
    BY BufferRegion
  <2> QED
    BY <1>1, <1>3, <2>1, <2>2 DEF Entered, Moving
<1>9. Entered /\ Transferred(cmd.regno) => Transferred(cmd.regno)'
  <2> SUFFICES ASSUME cmd.transfer, Transferred(cmd.regno)
               PROVE  Transferred(cmd.regno)'
    BY DEF Entered
  <2>1. cpu.regs \in [Reg -> Value] /\ "s1" \in Reg
    BY <1>1 DEF HartState, Reg
  <2>2. CASE word.op \in {"alu", "jump", "ebreak", "fault"}
    BY <1>2, <1>3, <2>2 DEF Effect, Keeps, KeepsRegs, KeepsCsrs, Transferred
  <2>3. CASE word.op = "set"
    <3>1. cpu'.regs = [cpu.regs EXCEPT ![word.reg] = word.val] /\ KeepsCsrs(cpu, cpu')
      BY <1>2, <2>3 DEF Effect
    <3>2. cmd.regno = "s1" => cpu'.regs["s1"] = cpu.regs["s1"]
      BY <1>6, <2>1, <2>3, <3>1
    <3> QED
      BY <1>3, <3>1, <3>2 DEF Transferred, KeepsCsrs
  <2>4. CASE word.op = "csr"
    <3>1. word.csr # "mip"
      BY <1>4, <2>4 DEF Confined
    <3>2. /\ KeepsRegs(cpu, cpu')
          /\ cmd.regno = "dpc" => cpu'.dpc = cpu.dpc
          /\ cmd.regno = "dcsr" => cpu'.dcsr = cpu.dcsr
      BY <1>2, <1>6, <2>4, <3>1 DEF Effect
    <3> QED
      BY <1>3, <3>2 DEF Transferred, KeepsRegs
  <2>5. word.op \in {"alu", "set", "csr", "jump", "ebreak", "fault"}
    BY <1>4 DEF Confined
  <2> QED
    BY <2>2, <2>3, <2>4, <2>5
<1> QED
  BY <1>3, <1>7, <1>9 DEF TransferInv

LEMMA CoreStepKeepsTransfer ==
    ASSUME KeepsProgramS0, KeepsTransferred, HandshakeInv, S0Inv, MoveInv, TransferInv, CoreStep
    PROVE  TransferInv'
<1>1. /\ cpu \in HartState /\ dm \in ModuleState /\ ghost \in Ghost
      /\ SessionInv /\ FlagsInv /\ WhereInv /\ AccountInv /\ StepInv
  BY DEF HandshakeInv, SystemTypeOK, TypeOK
<1>2. CASE cpu.debug_mode
  <2>1. InSession /\ (cpu.pc \in Handshake \cup {768, 2160} \/ cpu.pc \in Code)
    BY <1>1, <1>2 DEF SessionInv, InSession
  <2>2. CASE cpu.pc \in Handshake
    BY <2>1, <2>2, RomKeepsTransfer
  <2>3. CASE cpu.pc = 768
    BY <2>1, <2>3, EnterCodeKeepsTransfer
  <2>4. CASE cpu.pc = 2160
    <3>1. dm' = dm
      BY <1>1, <2>1, <2>4, LeaveStep DEF SessionInv
    <3>2. ~dm.busy
      BY <1>1, <1>2, <2>4 DEF WhereInv, FlagsInv, Left
    <3> QED
      BY <3>1, <3>2 DEF TransferInv, Entered
  <2>5. CASE cpu.pc \in Code
    <3>1. Running
      BY <1>1, <1>2, <2>5 DEF WhereInv
    <3>2. Holds(ghost.command)
      BY <1>1, <3>1 DEF AccountInv, Running, Holds
    <3> QED
      BY <2>1, <2>5, <3>1, <3>2, AssembledKeepsTransfer, BufferedKeepsTransfer DEF Code
  <2> QED
    BY <2>1, <2>2, <2>3, <2>4, <2>5
<1>3. CASE ~cpu.debug_mode
  <2>1. /\ cpu.mip = {} /\ cpu.single_step \in {0, 1} /\ cpu.pc \notin DebugMemory
        /\ ghost.stepping = IF cpu.single_step = 1 THEN "due" ELSE "free"
    BY <1>1, <1>3 DEF SessionInv, StepInv
  <2>2. dm' = dm
    BY <1>1, <1>3, <2>1, HaltStep, ProgramStep
  <2>3. ~dm.busy
    BY <1>1, <1>3 DEF FlagsInv
  <2> QED
    BY <2>2, <2>3 DEF TransferInv, Entered
<1> QED
  BY <1>2, <1>3

LEMMA AccessKeepsTransfer ==
    ASSUME HandshakeInv, TransferInv, Debugger \/ RunTestIdle \/ UNCHANGED vars
    PROVE  TransferInv'
<1>1. ASSUME ~dm'.busy
      PROVE  TransferInv'
  BY <1>1 DEF TransferInv, Entered
<1>2. ASSUME dm'.busy, dm.busy, dm'.debug_rom_flags = dm.debug_rom_flags,
             dm'.dmdata = dm.dmdata, ghost' = ghost,
             cpu'.pc = cpu.pc, cpu'.regs = cpu.regs, cpu'.dpc = cpu.dpc, cpu'.dcsr = cpu.dcsr,
             cpu'.dscratch0 = cpu.dscratch0
      PROVE  TransferInv'
  <2>1. (Entered' => Entered) /\ Moving' = Moving /\ MovesCsr' = MovesCsr
    BY <1>2 DEF Entered, Moving, MovesCsr, Going
  <2>2. Transferred(ghost.command.regno) => Transferred(ghost.command.regno)'
    BY <1>2 DEF Transferred
  <2> QED
    BY <1>2, <2>1, <2>2 DEF TransferInv
<1>3. CASE AbstractEffect
  <2>1. /\ cpu' = cpu /\ accessed = "none" /\ ~Resuming
        /\ Quiet(dm, dm') \/ Launched(dm, dm')
        /\ ghost' = IF dm'.busy /\ ~dm.busy THEN Opened(ghost, dm'.command) ELSE ghost
    BY <1>3 DEF AbstractEffect, Served
  <2>2. CASE Quiet(dm, dm')
    BY <1>1, <1>2, <2>1, <2>2 DEF Quiet
  <2>3. CASE Launched(dm, dm')
    <3>1. ~Entered'
      BY <2>3 DEF Launched, Entered, Going
    <3> QED
      BY <3>1 DEF TransferInv
  <2> QED
    BY <2>1, <2>2, <2>3
<1>4. CASE Unnoticed
  <2>1. dm'.busy = dm.busy
    BY <1>4 DEF Unnoticed, SameModule
  <2>2. CASE dm.busy
    BY <1>2, <1>4, <2>1, <2>2 DEF Unnoticed, SameHart, SameModule
  <2> QED
    BY <1>1, <2>1, <2>2
<1>5. CASE ResumeEffect \/ ResetEffect \/ CompletionEffect
  BY <1>1, <1>5 DEF ResumeEffect, ResetEffect, CompletionEffect, SameModule
<1> QED
  BY <1>3, <1>4, <1>5, AccessKinds

\* A transfer that is reported without an error moved the register: the data
\* register and the register agree, for s0 the program's.
THEOREM TransfersAgree == KeepsProgramS0 /\ KeepsTransferred => (SystemSpec => TransferAgrees)
<1> SUFFICES ASSUME KeepsProgramS0, KeepsTransferred
             PROVE  SystemSpec => TransferAgrees
  OBVIOUS
<1> DEFINE Agree == Completes /\ dm'.cmderr = CMDERR_NONE /\ ghost.command.transfer
                        => Agrees(dm'.dmdata, ghost.command.regno)
<1>1. SystemInit => TransferInv
  BY DEF SystemInit, InitModule, TransferInv, Entered
<1>2. SystemSpec => [](HandshakeInv /\ S0Inv /\ MoveInv)
  BY HandshakeInvariant, S0Invariant, MoveInvariant, PTL
<1>3. HandshakeInv /\ S0Inv /\ MoveInv /\ TransferInv /\ [SystemNext]_vars => TransferInv'
  BY CoreStepKeepsTransfer, AccessKeepsTransfer DEF SystemNext
<1>4. HandshakeInv /\ S0Inv /\ TransferInv /\ [SystemNext]_vars => [Agree]_vars
  <2> SUFFICES ASSUME HandshakeInv, S0Inv, TransferInv, [SystemNext]_vars, Completes,
                      ghost.command.transfer
               PROVE  Agrees(dm'.dmdata, ghost.command.regno)
    OBVIOUS
  <2> DEFINE regno == ghost.command.regno
  <2>1. CompletionEffect
    BY OnlyCompletion
  <2>2. /\ cpu.debug_mode /\ cpu.pc \in ParkLoop
        /\ dm.busy /\ ~Going /\ AccountInv /\ cpu.pc \notin Leading
    BY <2>1, AtCompletion
  <2>3. Entered /\ ~Moving
    BY <2>2 DEF Entered, Moving, ParkLoop
  <2>4. Transferred(regno)
    BY <2>3 DEF TransferInv
  <2>5. cpu.dscratch0 = ghost.s0
    BY <2>2 DEF S0Inv, InScratch
  <2>6. regno \in Reg \cup CsrRegno
    BY <2>2 DEF AccountInv
  <2>7. dm'.dmdata = dm.dmdata
    BY <2>1 DEF CompletionEffect
  <2> HIDE DEF regno
  <2>8. Agrees(dm'.dmdata, regno)
    <3>1. CASE regno = "s0"
      BY <2>4, <2>7, <3>1 DEF Transferred, Agrees, CsrRegno
    <3>2. CASE regno = "s1"
      BY <2>4, <2>7, <3>2 DEF Transferred, Agrees, CsrRegno
    <3>3. CASE regno = "dcsr"
      BY <2>4, <2>7, <3>3 DEF Transferred, Agrees, CsrRegno
    <3>4. CASE regno = "dpc"
      BY <2>4, <2>7, <3>4 DEF Transferred, Agrees, CsrRegno, CsrValue
    <3>5. CASE regno = "dscratch0"
      BY <2>4, <2>5, <2>7, <3>5 DEF Transferred, Agrees, CsrRegno, CsrValue
    <3> QED
      BY <2>6, <3>1, <3>2, <3>3, <3>4, <3>5 DEF Reg, CsrRegno
  <2> QED
    BY <2>8 DEF regno
<1> QED
  BY <1>1, <1>2, <1>3, <1>4, PTL DEF SystemSpec, TransferAgrees

-----------------------------------------------------------------------------
(* What a debugger reads: the layouts of LayoutProofs, whose words DebugSystem *)
(* takes over the state of module and hart.                                  *)

Layout == INSTANCE LayoutProofs

\* The two instances of DmiRegisters are one.
LEMMA OneLayout ==
    /\ \A n : Dmi!Bits(n) = Layout!Bits(n)
    /\ \A reg, place : Dmi!get_field(reg, place) = Layout!get_field(reg, place)
    /\ \A layout, reg, values : Dmi!Tells(layout, reg, values) = Layout!Tells(layout, reg, values)
    /\ \A layout, values : Dmi!Pack(layout, values) = Layout!Pack(layout, values)
    /\ Dmi!DCSR = Layout!DCSR /\ Dmi!HART_DCSR = Layout!HART_DCSR
    /\ Dmi!DMSTATUS = Layout!DMSTATUS /\ Dmi!ABSTRACTCS = Layout!ABSTRACTCS
    /\ Dmi!ABSTRACTAUTO = Layout!ABSTRACTAUTO
<1>1. \A n : Dmi!Bits(n) = Layout!Bits(n)
  BY Zenon DEF Dmi!Bits, Layout!Bits, Dmi!Pow2, Layout!Pow2
<1>2. \A reg, place : Dmi!get_field(reg, place) = Layout!get_field(reg, place)
  BY Zenon DEF Dmi!get_field, Layout!get_field, Dmi!FIELD, Layout!FIELD
<1>3. \A layout, reg, values : Dmi!Tells(layout, reg, values) = Layout!Tells(layout, reg, values)
  BY Zenon DEF Dmi!Tells, Layout!Tells, Dmi!Unpack, Layout!Unpack, Dmi!get_field, Layout!get_field,
               Dmi!FIELD, Layout!FIELD
<1>4. \A layout, values : Dmi!Pack(layout, values) = Layout!Pack(layout, values)
  BY Zenon DEF Dmi!Pack, Layout!Pack
<1>5. Dmi!DCSR = Layout!DCSR /\ Dmi!HART_DCSR = Layout!HART_DCSR
  BY Zenon DEF Dmi!DCSR, Layout!DCSR, Dmi!HART_DCSR, Layout!HART_DCSR
<1>6. /\ Dmi!DMSTATUS = Layout!DMSTATUS /\ Dmi!ABSTRACTCS = Layout!ABSTRACTCS
      /\ Dmi!ABSTRACTAUTO = Layout!ABSTRACTAUTO
  BY Zenon DEF Dmi!DMSTATUS, Layout!DMSTATUS, Dmi!ABSTRACTCS, Layout!ABSTRACTCS,
               Dmi!ABSTRACTAUTO, Layout!ABSTRACTAUTO
<1> QED
  BY <1>1, <1>2, <1>3, <1>4, <1>5, <1>6

LEMMA FlagTold == \A b \in BOOLEAN : Dmi!Flag(b) \in {{}, {0}}
BY DEF Dmi!Flag

LEMMA WordsTell == SystemTypeOK => RegistersTell
<1> SUFFICES ASSUME SystemTypeOK
             PROVE  RegistersTell
  OBVIOUS
<1> DEFINE halted    == Dmi!Flag(dm.halted)
           resumeack == Dmi!Flag(dm.resumeack)
           havereset == Dmi!Flag(dm.havereset)
           busy      == Dmi!Flag(dm.busy)
           cmderr    == Dmi!Bits(dm.cmderr)
           size      == Dmi!Bits(ProgBufSize)
           progbuf   == { i - 1 : i \in dm.autoexecprogbuf }
           auto      == Dmi!Flag(dm.autoexecdata)
           step      == Dmi!Flag(cpu.dcsr.step)
           cause     == Dmi!Bits(cpu.dcsr.cause)
           prv       == Dmi!Bits(cpu.dcsr.prv)
           dcsr      == Dmi!enter_dcsr(Dmi!HartDcsr({}, step, {}), cause, prv)
<1>1. dm \in ModuleState /\ cpu \in HartState
  BY DEF SystemTypeOK, TypeOK
<1>2. /\ halted \in {{}, {0}} /\ resumeack \in {{}, {0}} /\ havereset \in {{}, {0}}
      /\ busy \in {{}, {0}} /\ auto \in {{}, {0}} /\ step \in {{}, {0}}
  BY <1>1, FlagTold DEF ModuleState, HartState, DCsr
<1>3. cmderr \in SUBSET (0..2) /\ size \in SUBSET (0..4)
  <2>1. dm.cmderr \in 0..7
    BY <1>1 DEF ModuleState, CMDERR_NONE, CMDERR_BUSY, CMDERR_NOTSUP, CMDERR_EXCEPTION, CMDERR_HALTRESUME
  <2> QED
    BY <2>1, OneLayout, Layout!BitsFit
<1>4. cause \in SUBSET (0..2) /\ prv \in SUBSET (0..1)
  <2>1. cpu.dcsr.cause \in 0..7 /\ cpu.dcsr.prv \in 0..3
    BY <1>1 DEF HartState, DCsr, Privilege, PRV_U, PRV_S, PRV_M
  <2> QED
    BY <2>1, OneLayout, Layout!BitsFit
<1>5. progbuf \in SUBSET (0..15)
  <2>1. ProgBufSize \in 1..15
    BY Constants
  <2>2. dm.autoexecprogbuf \subseteq 1..ProgBufSize
    BY <1>1 DEF ModuleState
  <2>3. \A i \in dm.autoexecprogbuf : i - 1 \in 0..15
    BY <2>1, <2>2
  <2> QED
    BY <2>3
<1> HIDE DEF halted, resumeack, havereset, busy, cmderr, size, progbuf, auto, step, cause, prv
<1>6. Dmi!Tells(Dmi!DMSTATUS, Dmi!read_dmstatus(halted, resumeack, havereset),
                Dmi!StatusValues(halted, resumeack, havereset))
  <2>1. Layout!Tells(Layout!DMSTATUS, Layout!read_dmstatus(halted, resumeack, havereset),
                     Layout!StatusValues(halted, resumeack, havereset))
    BY <1>2, Layout!StatusTells
  <2>2. Layout!StatusValues(halted, resumeack, havereset) = Dmi!StatusValues(halted, resumeack, havereset)
    BY Zenon DEF Layout!StatusValues, Dmi!StatusValues
  <2>3. Layout!read_dmstatus(halted, resumeack, havereset) = Dmi!read_dmstatus(halted, resumeack, havereset)
    BY <2>2, OneLayout, Zenon DEF Layout!read_dmstatus, Dmi!read_dmstatus
  <2> QED
    BY <2>1, <2>2, <2>3, OneLayout, Zenon
<1>7. Dmi!Tells(Dmi!ABSTRACTCS, Dmi!read_abstractcs(busy, cmderr, size),
                Dmi!AbstractcsValues(busy, cmderr, size))
  <2>1. Layout!Tells(Layout!ABSTRACTCS, Layout!read_abstractcs(busy, cmderr, size),
                     Layout!AbstractcsValues(busy, cmderr, size))
    BY <1>2, <1>3, Layout!AbstractcsTells
  <2>2. Layout!AbstractcsValues(busy, cmderr, size) = Dmi!AbstractcsValues(busy, cmderr, size)
    BY Zenon DEF Layout!AbstractcsValues, Dmi!AbstractcsValues
  <2>3. Layout!read_abstractcs(busy, cmderr, size) = Dmi!read_abstractcs(busy, cmderr, size)
    BY <2>2, OneLayout, Zenon DEF Layout!read_abstractcs, Dmi!read_abstractcs
  <2> QED
    BY <2>1, <2>2, <2>3, OneLayout, Zenon
<1>8. Dmi!Tells(Dmi!ABSTRACTAUTO, Dmi!read_abstractauto(progbuf, auto),
                [autoexecprogbuf |-> progbuf, autoexecdata |-> auto])
  <2>1. Layout!Tells(Layout!ABSTRACTAUTO, Layout!read_abstractauto(progbuf, auto),
                     [autoexecprogbuf |-> progbuf, autoexecdata |-> auto])
    BY <1>2, <1>5, Layout!AutoTells
  <2>2. Layout!read_abstractauto(progbuf, auto) = Dmi!read_abstractauto(progbuf, auto)
    BY OneLayout, Zenon DEF Layout!read_abstractauto, Dmi!read_abstractauto
  <2> QED
    BY <2>1, <2>2, OneLayout, Zenon
<1>9. /\ Dmi!get_field(dcsr, Dmi!DCSR.cause) = cause
      /\ Dmi!get_field(dcsr, Dmi!DCSR.step) = step
      /\ Dmi!get_field(dcsr, Dmi!DCSR.prv) = prv
  <2> DEFINE word == Layout!enter_dcsr(Layout!HartDcsr({}, step, {}), cause, prv)
  <2>1. /\ Layout!get_field(word, Layout!DCSR.cause) = cause
        /\ Layout!get_field(word, Layout!DCSR.step) = step
        /\ Layout!get_field(word, Layout!DCSR.prv) = prv
    BY <1>2, <1>4, Layout!DcsrTells
  <2>2. Layout!HartDcsr({}, step, {}) = Dmi!HartDcsr({}, step, {})
    BY OneLayout, Zenon DEF Layout!HartDcsr, Dmi!HartDcsr
  <2>3. word = dcsr
    BY <2>2, OneLayout, Zenon DEF Layout!enter_dcsr, Dmi!enter_dcsr, Layout!Mask, Dmi!Mask, Layout!Shl, Dmi!Shl
  <2> HIDE DEF word, dcsr
  <2> QED
    BY <2>1, <2>3, OneLayout
<1> QED
  BY <1>6, <1>7, <1>8, <1>9, Zenon
     DEF RegistersTell, halted, resumeack, havereset, busy, cmderr, size, progbuf, auto, step, cause, prv

\* What a debugger polls is what the module and the hart hold: dmstatus, abstractcs,
\* abstractauto and dcsr decode to the state (dmi_read), for every size of the program
\* buffer.
THEOREM RegistersTold == SystemSpec => []RegistersTell
BY SystemTypeCorrect, WordsTell, PTL

-----------------------------------------------------------------------------
(* The debug system implements the debug target: what the debugger sees.   *)

\* A halted hart whose registers are the program's.
ParkedHart ==
    [ pc |-> cpu.dpc, prv |-> cpu.dcsr.prv, s0 |-> ghost.s0, s1 |-> cpu.regs["s1"],
      cause |-> cpu.dcsr.cause, step |-> cpu.dcsr.step ]

RunningHart ==
    [ pc |-> cpu.pc, prv |-> cpu.privilege, s0 |-> ghost.s0, s1 |-> cpu.regs["s1"],
      cause |-> IF dm.halted THEN DCSR_CAUSE_DEBUGINT ELSE cpu.dcsr.cause,
      step |-> cpu.dcsr.step ]

\* The target's s0 is the one the program left or the debugger wrote, wherever the
\* ROM and the code of a command keep it.
LEMMA S0Told ==
    ASSUME HandshakeInv, S0Inv
    PROVE  TargetHart.s0 = ghost.s0
<1>1. /\ dm \in ModuleState /\ SessionInv /\ WhereInv /\ AccountInv
  BY DEF HandshakeInv, SystemTypeOK
<1>2. TargetHart.s0 = IF cpu.debug_mode /\ InScratch THEN cpu.dscratch0 ELSE cpu.regs["s0"]
  BY DEF TargetHart
<1>3. CASE ~cpu.debug_mode \/ InScratch
  BY <1>2, <1>3 DEF S0Inv
<1>4. CASE cpu.debug_mode /\ ~InScratch
  <2>1. cpu.pc \in Handshake \cup {768, 2160} \/ cpu.pc \in Code
    BY <1>1, <1>4 DEF SessionInv
  <2>2. CASE cpu.pc \in Handshake \cup {768, 2160}
    <3>1. cpu.pc \in Entering
      BY <1>4, <2>2 DEF InScratch, Handshake, ParkLoop, Exception, Launching, Leading, Leaving, Left
    <3> QED
      BY <1>2, <1>4, <3>1 DEF S0Inv, InRegister
  <2>3. CASE cpu.pc \in Code
    <3>1. cpu.pc \in Assembled /\ WritesS0 /\ cpu.pc = 792
      BY <1>4, <2>3 DEF Code, InScratch
    <3>2. InRegister
      BY <3>1 DEF InRegister
    <3> QED
      BY <1>2, <1>4, <3>2 DEF S0Inv
  <2> QED
    BY <2>1, <2>2, <2>3
<1> QED
  BY <1>3, <1>4

\* In a session the target's hart is kept in dpc, dcsr and dscratch0, outside it is
\* the hart.
LEMMA HartTold ==
    ASSUME HandshakeInv, S0Inv
    PROVE  TargetHart = IF cpu.debug_mode THEN ParkedHart ELSE RunningHart
<1> DEFINE s0 == IF cpu.debug_mode /\ InScratch THEN cpu.dscratch0 ELSE cpu.regs["s0"]
<1>1. s0 = ghost.s0
  <2>1. TargetHart.s0 = s0
    BY DEF TargetHart
  <2> QED
    BY <2>1, S0Told
<1>2. TargetHart =
        [ pc    |-> IF cpu.debug_mode THEN cpu.dpc ELSE cpu.pc,
          prv   |-> IF cpu.debug_mode THEN cpu.dcsr.prv ELSE cpu.privilege,
          s0    |-> s0,
          s1    |-> cpu.regs["s1"],
          cause |-> IF dm.halted /\ ~cpu.debug_mode THEN DCSR_CAUSE_DEBUGINT ELSE cpu.dcsr.cause,
          step  |-> cpu.dcsr.step ]
  BY DEF TargetHart
<1> HIDE DEF s0
<1>3. CASE cpu.debug_mode
  BY <1>1, <1>2, <1>3 DEF ParkedHart
<1>4. CASE ~cpu.debug_mode
  BY <1>1, <1>2, <1>4 DEF RunningHart
<1> QED
  BY <1>3, <1>4

\* In a session no instruction is due, and how far the command is depends on the
\* place.
LEMMA SessionTold ==
    ASSUME HandshakeInv, S0Inv, cpu.debug_mode
    PROVE  /\ TargetHart = ParkedHart /\ TargetDue = FALSE
           /\ TargetMode = IF dm.halted THEN "halted"
                           ELSE IF cpu.pc \in Left THEN "leaving" ELSE "stopping"
<1>1. cpu.single_step = 0
  BY DEF HandshakeInv, SessionInv
<1>2. TargetDue = FALSE
  BY <1>1 DEF TargetDue
<1> QED
  BY <1>2, HartTold DEF TargetMode

\* In the ROM the command is not launched, launched, faulted or at its end.
LEMMA JobInRom ==
    ASSUME dm \in ModuleState, cpu.pc \in Handshake \cup {768, 2160}
    PROVE  TargetJob = IF ~dm.busy THEN "none"
                       ELSE IF dm.completed THEN "reported"
                       ELSE IF Going \/ cpu.pc \in Leading THEN "accepted"
                       ELSE IF cpu.pc \in {2056, 2112, 2116} THEN "faulted"
                       ELSE "ended"
<1>1. cpu.pc \notin Code
  BY Apart DEF Code, Assembled
<1>2. ~Moving
  BY DEF Moving, Handshake, Entering, ParkLoop, Exception, Launching, Leaving
<1> QED
  BY <1>1, <1>2 DEF TargetJob

\* In the code of the command the word is still to be moved, or has been.
LEMMA JobInCode ==
    ASSUME dm \in ModuleState, cpu.pc \in Code, Running
    PROVE  TargetJob = IF Moving THEN "accepted"
                       ELSE IF ghost.command.postexec THEN "executing" ELSE "ended"
<1>1. cpu.pc \notin Leading /\ cpu.pc \notin {2056, 2112, 2116}
  BY Apart DEF Code, Assembled, Leading, Handshake, Exception
<1> QED
  BY <1>1 DEF TargetJob, Running

\* A step that the target does not see.
SameTarget ==
    /\ TargetMode' = TargetMode /\ TargetHart' = TargetHart /\ TargetDue' = TargetDue
    /\ cpu'.halt_request = cpu.halt_request /\ Resuming' = Resuming
    /\ TargetJob' = TargetJob /\ ghost'.command = ghost.command
    /\ dm'.dmdata = dm.dmdata /\ dm'.cmderr = dm.cmderr

\* It leaves every variable of the target alone.
LEMMA TargetStutters ==
    ASSUME SameTarget
    PROVE  UNCHANGED Target!vars
  BY DEF SameTarget, Target!vars, Target!control, Target!work

\* The ROM.
LEMMA RomTarget ==
    ASSUME HandshakeInv, S0Inv, InSession, cpu.pc \in Handshake, CoreStep
    PROVE  Target!Next \/ UNCHANGED Target!vars
<1>1. /\ cpu \in HartState /\ dm \in ModuleState /\ ghost \in Ghost
      /\ cpu.debug_mode /\ SessionInv /\ FlagsInv /\ WhereInv
  BY DEF HandshakeInv, SystemTypeOK, TypeOK, InSession
<1>2. /\ Moves(cpu, cpu', cpu'.pc)
      /\ cpu'.regs["s1"] = cpu.regs["s1"]
      /\ cpu'.dpc = cpu.dpc /\ cpu'.dcsr = cpu.dcsr
      /\ RomPc /\ RomStores /\ KeepsAccount
  BY <1>1, RomStep DEF ModuleState
<1>3. RomModule
  BY <1>1, <1>2, RomModuleEffect
<1>4. cpu'.pc \in Handshake \cup {768, 2160}
  BY <1>2, RomPlace
<1>5. /\ HandshakeInv' /\ S0Inv' /\ dm' \in ModuleState /\ cpu'.debug_mode
      /\ cpu'.halt_request = cpu.halt_request
      /\ ghost'.command = ghost.command /\ dm'.dmdata = dm.dmdata
      /\ dm'.busy = dm.busy
  BY <1>2, <1>3, RomKeeps, RomKeepsS0 DEF Moves, KeepsAccount, RomModule
<1>6. /\ TargetHart = ParkedHart /\ TargetDue = FALSE
      /\ TargetMode = IF dm.halted THEN "halted"
                      ELSE IF cpu.pc \in Left THEN "leaving" ELSE "stopping"
  BY <1>1, SessionTold
<1>7. (HandshakeInv /\ S0Inv /\ cpu.debug_mode =>
          /\ TargetHart = ParkedHart /\ TargetDue = FALSE
          /\ TargetMode = IF dm.halted THEN "halted"
                          ELSE IF cpu.pc \in Left THEN "leaving" ELSE "stopping")'
  BY SessionTold, PTL
<1>8. TargetHart' = TargetHart /\ TargetDue' = TargetDue
  BY <1>2, <1>5, <1>6, <1>7 DEF ParkedHart, KeepsAccount
<1>9. TargetJob = IF ~dm.busy THEN "none"
                  ELSE IF dm.completed THEN "reported"
                  ELSE IF Going \/ cpu.pc \in Leading THEN "accepted"
                  ELSE IF cpu.pc \in {2056, 2112, 2116} THEN "faulted"
                  ELSE "ended"
  BY <1>1, JobInRom
<1>10. (dm \in ModuleState /\ cpu.pc \in Handshake \cup {768, 2160} =>
           TargetJob = IF ~dm.busy THEN "none"
                       ELSE IF dm.completed THEN "reported"
                       ELSE IF Going \/ cpu.pc \in Leading THEN "accepted"
                       ELSE IF cpu.pc \in {2056, 2112, 2116} THEN "faulted"
                       ELSE "ended")'
  BY JobInRom, PTL
<1>11. CASE cpu.pc = 2072
  <2>1. /\ dm'.halted /\ dm'.cmderr = dm.cmderr /\ Going' = Going /\ Resuming' = Resuming
        /\ dm'.completed <=> dm.completed \/ ~Going
    BY <1>3, <1>11 DEF RomModule, Going, Resuming
  <2>2. TargetMode' = "halted" /\ TargetMode = IF dm.halted THEN "halted" ELSE "stopping"
    BY <1>5, <1>6, <1>7, <1>11, <2>1 DEF Left
  <2>3. cpu'.pc \notin Leading /\ cpu'.pc \notin {2056, 2112, 2116}
    BY <1>2, <1>11 DEF RomPc, Sequential, Leading
  <2>4. cpu.pc \notin Leading /\ cpu.pc \notin {2056, 2112, 2116}
    BY <1>11 DEF Leading
  <2>5. CASE ~dm.halted
    <3>1. ~dm.busy
      BY <1>1, <2>5, Unhalted
    <3>2. TargetJob' = TargetJob
      BY <1>4, <1>5, <1>9, <1>10, <3>1
    <3>3. Target!ReportHalted
      BY <1>5, <1>8, <2>1, <2>2, <2>5, <3>2 DEF Target!ReportHalted, Target!work
    <3> QED
      BY <3>3 DEF Target!Next
  <2>6. CASE dm.halted /\ Running
    <3>1. TargetJob = "ended" /\ TargetJob' = "reported"
      BY <1>4, <1>5, <1>9, <1>10, <2>1, <2>4, <2>6 DEF Running
    <3>2. Target!ReportEnd
      BY <1>5, <1>8, <2>1, <2>2, <2>6, <3>1 DEF Target!ReportEnd, Target!control
    <3> QED
      BY <3>2 DEF Target!Next
  <2>7. CASE dm.halted /\ ~Running
    <3>1. TargetJob' = TargetJob
      BY <1>4, <1>5, <1>9, <1>10, <2>1, <2>7 DEF Running
    <3> QED
      BY <1>5, <1>8, <2>1, <2>2, <2>7, <3>1, TargetStutters DEF SameTarget
  <2> QED
    BY <2>5, <2>6, <2>7
<1>12. CASE cpu.pc = 2152
  <2>1. Resuming /\ ~dm.busy /\ dm.halted
    BY <1>1, <1>12 DEF WhereInv, Leaving, FlagsInv
  <2>2. ~Resuming' /\ ~dm'.halted /\ dm'.cmderr = dm.cmderr /\ cpu'.pc \in Left
    BY <1>2, <1>3, <1>12 DEF RomModule, RomPc, Sequential, Left
  <2>3. /\ TargetMode = "halted" /\ TargetMode' = "leaving"
        /\ TargetJob = "none" /\ TargetJob' = "none"
    BY <1>4, <1>5, <1>6, <1>7, <1>9, <1>10, <2>1, <2>2
  <2>4. Resuming' = FALSE
    BY <2>2
  <2>5. Target!AcknowledgeResume
    BY <1>5, <1>8, <2>1, <2>2, <2>3, <2>4 DEF Target!AcknowledgeResume, Target!work
  <2> QED
    BY <2>5 DEF Target!Next
<1>13. CASE cpu.pc = 2116
  <2>1. Running /\ dm.halted
    BY <1>1, <1>13 DEF WhereInv, Exception, FlagsInv, Running
  <2>2. /\ dm'.halted /\ Going' = Going /\ Resuming' = Resuming
        /\ dm'.cmderr = IF dm.cmderr = CMDERR_NONE THEN CMDERR_EXCEPTION ELSE dm.cmderr
        /\ ~dm'.completed
    BY <1>3, <1>13, <2>1 DEF RomModule, Running, Going, Resuming
  <2>3. cpu'.pc = 2120
    BY <1>2, <1>13 DEF RomPc, Sequential
  <2>4. /\ TargetMode = "halted" /\ TargetMode' = "halted"
        /\ TargetJob = "faulted" /\ TargetJob' = "ended"
    <3>1. cpu.pc \notin Leading /\ cpu'.pc \notin Leading
      BY <1>13, <2>3 DEF Leading
    <3> QED
      BY <1>4, <1>5, <1>6, <1>7, <1>9, <1>10, <1>13, <2>1, <2>2, <2>3, <3>1 DEF Running
  <2>5. Target!ReportException
    BY <1>5, <1>8, <2>2, <2>4
    DEF Target!ReportException, Target!control, Target!NONE, Target!EXCEPTION,
        CMDERR_NONE, CMDERR_EXCEPTION
  <2> QED
    BY <2>5 DEF Target!Next
<1>14. CASE cpu.pc \notin {2072, 2152, 2116}
  <2>1. /\ dm'.halted = dm.halted /\ Resuming' = Resuming /\ dm'.cmderr = dm.cmderr
        /\ dm'.completed = dm.completed /\ (Going' <=> Going /\ cpu.pc # 2128)
    BY <1>1, <1>3, <1>14 DEF RomModule, Resuming, ModuleState
  <2>2. TargetMode' = TargetMode
    <3>1. (cpu'.pc \in Left) = (cpu.pc \in Left)
      <4>1. cpu.pc \in Handshake /\ cpu.pc # 2152
        BY <1>14
      <4> QED
        BY <1>2, <4>1
        DEF RomPc, Sequential, Left, Handshake, Entering, ParkLoop, Exception, Launching, Leaving
    <3> QED
      BY <1>5, <1>6, <1>7, <2>1, <3>1
  <2>3. TargetJob' = TargetJob
    <3>1. CASE ~Running \/ cpu.pc = 2128
      <4>1. cpu.pc = 2128 => cpu'.pc \in Leading
        BY <1>2 DEF RomPc, Sequential, Leading
      <4>2. Going => dm.busy /\ ~dm.completed
        BY <1>1 DEF FlagsInv
      <4>3. cpu.pc = 2128 => Going
        BY <1>1 DEF WhereInv, Launching
      <4> QED
        BY <1>4, <1>5, <1>9, <1>10, <2>1, <3>1, <4>1, <4>2, <4>3 DEF Running
    <3>2. CASE Running /\ cpu.pc # 2128
      <4>1. cpu.pc \in Leading \cup Exception \cup Entering \cup {2068}
        <5>1. cpu.pc \notin Code
          BY <1>1, Apart DEF Code, Assembled
        <5> QED
          BY <1>1, <1>14, <3>2, <5>1 DEF WhereInv
      <4>2. /\ cpu'.pc \in Leading <=> cpu.pc \in Leading
            /\ cpu'.pc \in {2056, 2112, 2116} <=> cpu.pc \in {2056, 2112, 2116}
        BY <1>2, <1>14, <4>1 DEF RomPc, Sequential, Leading, Exception, Entering,
           Handshake, ParkLoop, Launching, Leaving
      <4>3. ~Going /\ ~Going' /\ dm.busy /\ dm'.busy /\ ~dm.completed /\ ~dm'.completed
        BY <1>5, <2>1, <3>2 DEF Running
      <4> QED
        BY <1>4, <1>5, <1>9, <1>10, <4>2, <4>3
    <3> QED
      BY <3>1, <3>2
  <2> QED
    BY <1>5, <1>8, <2>1, <2>2, <2>3, TargetStutters DEF SameTarget
<1> QED
  BY <1>11, <1>12, <1>13, <1>14

\* The jump to the code of a command.
LEMMA EnterCodeTarget ==
    ASSUME HandshakeInv, S0Inv, HandshakeInv', S0Inv', InSession, cpu.pc = 768, CoreStep
    PROVE  Target!Next \/ UNCHANGED Target!vars
<1>1. /\ cpu \in HartState /\ dm \in ModuleState /\ ghost \in Ghost
      /\ cpu.debug_mode /\ FlagsInv /\ WhereInv
  BY DEF HandshakeInv, SystemTypeOK, TypeOK, InSession
<1>2. Running
  BY <1>1 DEF WhereInv, Leading
<1>3. /\ dm' = dm /\ Moves(cpu, cpu', 788) /\ Keeps(cpu, cpu')
      /\ ghost'.s0 = ghost.s0 /\ ghost'.command = ghost.command
  BY <1>1, EnterCodeStep
<1>4. cpu'.debug_mode /\ cpu'.halt_request = cpu.halt_request /\ dm.halted
  BY <1>1, <1>2, <1>3 DEF Moves, FlagsInv, Running
<1>5. TargetHart = ParkedHart /\ TargetDue = FALSE /\ TargetMode = "halted"
  BY <1>1, <1>4, SessionTold
<1>6. (HandshakeInv /\ S0Inv /\ cpu.debug_mode =>
          /\ TargetHart = ParkedHart /\ TargetDue = FALSE
          /\ TargetMode = IF dm.halted THEN "halted"
                          ELSE IF cpu.pc \in Left THEN "leaving" ELSE "stopping")'
  BY SessionTold, PTL
<1>7. TargetHart' = TargetHart /\ TargetDue' = TargetDue /\ TargetMode' = TargetMode
  BY <1>3, <1>4, <1>5, <1>6 DEF ParkedHart, Keeps, KeepsRegs, KeepsCsrs
<1>8. TargetJob = "accepted"
  BY <1>2 DEF TargetJob, Leading, Running
<1>9. TargetJob' = "accepted"
  BY <1>2, <1>3 DEF TargetJob, Moving, Moves, Running
<1> QED
  BY <1>3, <1>4, <1>7, <1>8, <1>9, TargetStutters DEF SameTarget, Resuming

\* The end of the session.
LEMMA LeaveTarget ==
    ASSUME HandshakeInv, S0Inv, HandshakeInv', S0Inv', InSession, cpu.pc = 2160, CoreStep
    PROVE  Target!Next \/ UNCHANGED Target!vars
<1>1. /\ cpu \in HartState /\ dm \in ModuleState /\ ghost \in Ghost
      /\ cpu.debug_mode /\ SessionInv /\ FlagsInv /\ WhereInv
  BY DEF HandshakeInv, SystemTypeOK, TypeOK, InSession
<1>2. cpu.mip = {} /\ ~dm.halted
  BY <1>1 DEF SessionInv, WhereInv, Left
<1>3. ~dm.busy /\ ~Resuming
  BY <1>1, <1>2, Unhalted
<1>4. /\ dm' = dm /\ ~cpu'.debug_mode /\ cpu'.pc = cpu.dpc
      /\ cpu'.regs = cpu.regs /\ cpu'.halt_request = cpu.halt_request
      /\ cpu'.single_step = IF cpu.dcsr.step THEN 1 ELSE 0
      /\ cpu'.privilege = cpu.dcsr.prv /\ cpu'.dcsr = cpu.dcsr
      /\ ghost'.s0 = ghost.s0 /\ ghost'.command = ghost.command
  BY <1>1, <1>2, LeaveStep
<1>5. TargetHart = ParkedHart /\ TargetMode = "leaving"
  BY <1>1, <1>2, SessionTold DEF Left
<1>6. (HandshakeInv /\ S0Inv => TargetHart = IF cpu.debug_mode THEN ParkedHart ELSE RunningHart)'
  BY HartTold, PTL
<1>7. TargetHart' = TargetHart
  <2>1. TargetHart' = RunningHart'
    BY <1>4, <1>6
  <2> QED
    BY <1>2, <1>4, <1>5, <2>1 DEF ParkedHart, RunningHart
<1>8. TargetMode' = "running"
  BY <1>2, <1>4 DEF TargetMode
<1>9. TargetDue' = TargetHart.step
  <2>1. TargetHart.step = cpu.dcsr.step /\ cpu.dcsr.step \in BOOLEAN
    BY <1>1 DEF TargetHart, HartState, DCsr
  <2>2. TargetDue' = (cpu'.single_step = 1)
    BY <1>2, <1>4 DEF TargetDue
  <2> QED
    BY <1>4, <2>1, <2>2
<1>10. TargetJob = "none" /\ TargetJob' = "none" /\ Resuming' = Resuming
  BY <1>3, <1>4 DEF TargetJob, Resuming
<1>11. Target!Leave
  BY <1>4, <1>5, <1>7, <1>8, <1>9, <1>10 DEF Target!Leave, Target!work
<1> QED
  BY <1>11 DEF Target!Next

\* A halt request that is honoured: the hart was running, or a reset has taken a
\* halted hart out of debug mode.
LEMMA HaltTarget ==
    ASSUME HandshakeInv, S0Inv, HandshakeInv', S0Inv', ~cpu.debug_mode, cpu.halt_request, CoreStep
    PROVE  Target!Next \/ UNCHANGED Target!vars
<1>1. /\ cpu \in HartState /\ dm \in ModuleState /\ ghost \in Ghost /\ SessionInv /\ FlagsInv
  BY DEF HandshakeInv, SystemTypeOK, TypeOK
<1>2. ~dm.busy /\ ~Resuming
  BY <1>1, Unhalted
<1>3. /\ dm' = dm /\ ghost' = ghost
      /\ cpu'.debug_mode /\ cpu'.single_step = 0 /\ cpu'.pc \in {2048, 2060}
      /\ cpu'.regs = cpu.regs /\ cpu'.halt_request
      /\ cpu'.dcsr.cause = DCSR_CAUSE_DEBUGINT /\ Saves(cpu, cpu', cpu.pc)
  BY <1>1, HaltStep DEF SessionInv
<1>4. cpu'.halt_request = cpu.halt_request
  <2>1. cpu.halt_request \in BOOLEAN /\ cpu'.halt_request \in BOOLEAN
    BY <1>1 DEF HandshakeInv, SystemTypeOK, TypeOK, HartState
  <2> QED
    BY <1>3, <2>1
<1>5. TargetHart = RunningHart
  BY HartTold
<1>6. (HandshakeInv /\ S0Inv /\ cpu.debug_mode =>
          /\ TargetHart = ParkedHart /\ TargetDue = FALSE
          /\ TargetMode = IF dm.halted THEN "halted"
                          ELSE IF cpu.pc \in Left THEN "leaving" ELSE "stopping")'
  BY SessionTold, PTL
<1>7. TargetHart' = ParkedHart' /\ TargetDue' = FALSE
  BY <1>3, <1>6
<1>8. TargetJob = "none" /\ TargetJob' = "none" /\ Resuming' = Resuming
  BY <1>2, <1>3 DEF TargetJob, Resuming
<1>9. ParkedHart' = [RunningHart EXCEPT !.cause = DCSR_CAUSE_DEBUGINT]
  BY <1>3 DEF ParkedHart, RunningHart, Saves
<1>10. CASE dm.halted
  <2>1. TargetMode = "halted" /\ TargetMode' = "halted" /\ TargetDue = FALSE
    BY <1>3, <1>6, <1>10 DEF TargetMode, TargetDue
  <2>2. TargetHart' = TargetHart
    BY <1>3, <1>5, <1>7, <1>10 DEF ParkedHart, RunningHart, Saves
  <2>3. ghost'.command = ghost.command /\ dm'.dmdata = dm.dmdata /\ dm'.cmderr = dm.cmderr
    BY <1>3
  <2>4. TargetMode' = TargetMode /\ TargetJob' = TargetJob
    BY <1>8, <2>1
  <2>5. TargetDue' = TargetDue
    BY <1>7, <2>1, Zenon
  <2>6. SameTarget
    BY <1>4, <1>8, <2>2, <2>3, <2>4, <2>5, Zenon DEF SameTarget
  <2> QED
    BY <2>6, TargetStutters
<1>11. CASE ~dm.halted
  <2>1. TargetMode = "running" /\ TargetMode' = "stopping"
    BY <1>3, <1>6, <1>11 DEF TargetMode, Left
  <2>2. Target!Halt
    BY <1>3, <1>4, <1>5, <1>7, <1>8, <1>9, <2>1
    DEF Target!Halt, Target!work, Target!DEBUGINT, DCSR_CAUSE_DEBUGINT
  <2> QED
    BY <2>2 DEF Target!Next
<1> QED
  BY <1>10, <1>11

\* A step of the program.
LEMMA ProgramTarget ==
    ASSUME HandshakeInv, S0Inv, HandshakeInv', S0Inv', ~cpu.debug_mode, ~cpu.halt_request, CoreStep
    PROVE  Target!Next \/ UNCHANGED Target!vars
<1>1. /\ cpu \in HartState /\ dm \in ModuleState /\ ghost \in Ghost
      /\ SessionInv /\ HaltInv /\ FlagsInv /\ StepInv
  BY DEF HandshakeInv, SystemTypeOK, TypeOK
<1>2. ~dm.halted /\ ~dm.busy /\ ~Resuming
  BY <1>1, Unhalted DEF HaltInv
<1>3. /\ cpu.mip = {} /\ cpu.single_step \in {0, 1} /\ cpu.pc \notin DebugMemory
      /\ ghost.stepping = IF cpu.single_step = 1 THEN "due" ELSE "free"
  BY <1>1 DEF SessionInv, StepInv
<1>4. /\ dm' = dm /\ cpu'.single_step = 0
      /\ ghost'.command = ghost.command
      /\ cpu.regs["s0"] = ghost.s0 => cpu'.regs["s0"] = ghost'.s0
  BY <1>1, <1>3, ProgramStep
<1>5. PICK inst \in ProgramInst : Runs(cpu, inst, cpu')
  BY <1>1, <1>3, ProgramStep
<1>6. inst.op \in {"alu", "set", "jump", "ebreak"} /\ (inst.op = "set" => inst.reg \in Reg)
  BY DebugSystemAssumption
<1>7. cpu.regs["s0"] = ghost.s0 /\ cpu'.regs["s0"] = ghost'.s0
  BY <1>4 DEF S0Inv
<1> DEFINE next == IF inst.op = "jump" THEN inst.to ELSE cpu.pc + 4
           stops == cpu.single_step = 1 \/ inst.op = "ebreak"
           stop == IF inst.op = "ebreak" THEN cpu.pc ELSE next
           cause == IF inst.op = "ebreak" THEN DCSR_CAUSE_SWBP ELSE DCSR_CAUSE_STEP
           ran == [ pc |-> stop, prv |-> cpu.privilege, s0 |-> cpu'.regs["s0"],
                    s1 |-> cpu'.regs["s1"], cause |-> cpu.dcsr.cause, step |-> cpu.dcsr.step ]
<1>8. TargetHart = [ pc |-> cpu.pc, prv |-> cpu.privilege, s0 |-> cpu.regs["s0"],
                     s1 |-> cpu.regs["s1"], cause |-> cpu.dcsr.cause, step |-> cpu.dcsr.step ]
  <2>1. TargetHart = RunningHart
    BY HartTold
  <2> QED
    BY <1>2, <1>7, <2>1 DEF RunningHart
<1>9. (HandshakeInv /\ S0Inv => TargetHart = IF cpu.debug_mode THEN ParkedHart ELSE RunningHart)'
  BY HartTold, PTL
<1>10. Target!After(inst) = ran
  <2>1. cpu.regs \in [Reg -> Value] /\ "s0" \in Reg /\ "s1" \in Reg
    BY <1>1 DEF HartState, Reg
  <2>2. CASE inst.op = "alu"
    <3>1. cpu'.regs = cpu.regs /\ stop = cpu.pc + 4
      BY <1>5, <2>2 DEF Runs
    <3> QED
      BY <1>8, <2>2, <3>1 DEF Target!After
  <2>3. CASE inst.op = "jump"
    <3>1. cpu'.regs = cpu.regs /\ stop = inst.to
      BY <1>5, <2>3 DEF Runs
    <3> QED
      BY <1>8, <2>3, <3>1 DEF Target!After
  <2>4. CASE inst.op = "ebreak"
    <3>1. cpu'.regs = cpu.regs /\ stop = cpu.pc
      BY <1>5, <2>4 DEF Runs
    <3> QED
      BY <1>8, <2>4, <3>1 DEF Target!After
  <2>5. CASE inst.op = "set"
    <3>1. cpu'.regs = [cpu.regs EXCEPT ![inst.reg] = inst.val] /\ stop = cpu.pc + 4
      BY <1>5, <2>5 DEF Runs
    <3> DEFINE at == stop
    <3> HIDE DEF at
    <3>2. CASE inst.reg = "s0"
      <4>1. cpu'.regs["s0"] = inst.val /\ cpu'.regs["s1"] = cpu.regs["s1"]
        BY <2>1, <3>1, <3>2
      <4>2. Target!After(inst) = [TargetHart EXCEPT !.pc = cpu.pc + 4, !.s0 = inst.val]
        BY <1>8, <2>5, <3>2 DEF Target!After
      <4> QED
        BY <1>8, <3>1, <4>1, <4>2
    <3>3. CASE inst.reg = "s1"
      <4>1. cpu'.regs["s1"] = inst.val /\ cpu'.regs["s0"] = cpu.regs["s0"]
        BY <2>1, <3>1, <3>3
      <4>2. Target!After(inst) = [TargetHart EXCEPT !.pc = cpu.pc + 4, !.s1 = inst.val]
        BY <1>8, <2>5, <3>3 DEF Target!After
      <4> QED
        BY <1>8, <3>1, <4>1, <4>2
    <3> QED
      BY <1>6, <2>5, <3>2, <3>3 DEF Reg
  <2> QED
    BY <1>6, <2>2, <2>3, <2>4, <2>5
<1>11. TargetDue = (cpu.single_step = 1) /\ TargetDue' = FALSE
  BY <1>2, <1>4 DEF TargetDue
<1>12. TargetMode = "running"
  BY <1>2 DEF TargetMode
<1>13. TargetMode' = (IF stops THEN "stopping" ELSE "running")
  <2>1. CASE stops
    <3>1. cpu'.debug_mode /\ cpu'.pc = 2048
      BY <1>5, <2>1 DEF Runs
    <3> QED
      BY <1>2, <1>4, <2>1, <3>1 DEF TargetMode, Left
  <2>2. CASE ~stops
    <3>1. ~cpu'.debug_mode
      BY <1>5, <2>2 DEF Runs
    <3> QED
      BY <1>2, <1>4, <2>2, <3>1 DEF TargetMode
  <2> QED
    BY <2>1, <2>2
<1>14. TargetHart' = IF stops THEN [ran EXCEPT !.cause = cause] ELSE ran
  <2>1. CASE stops
    <3>1. /\ cpu'.debug_mode /\ cpu'.dcsr.cause = cause
          /\ cpu'.dpc = stop /\ cpu'.dcsr.prv = cpu.privilege /\ cpu'.dcsr.step = cpu.dcsr.step
      BY <1>5, <2>1 DEF Runs, Saves
    <3>2. TargetHart' = ParkedHart'
      BY <1>9, <3>1
    <3> HIDE DEF stop, cause
    <3> QED
      BY <1>7, <2>1, <3>1, <3>2 DEF ParkedHart
  <2>2. CASE ~stops
    <3>1. /\ ~cpu'.debug_mode /\ cpu'.pc = stop
          /\ cpu'.privilege = cpu.privilege /\ cpu'.dcsr = cpu.dcsr
      BY <1>5, <2>2 DEF Runs
    <3>2. TargetHart' = RunningHart'
      BY <1>9, <3>1
    <3> HIDE DEF stop, cause
    <3> QED
      BY <1>2, <1>4, <1>7, <2>2, <3>1, <3>2 DEF RunningHart
  <2> QED
    BY <2>1, <2>2
<1>15. TargetJob = "none" /\ TargetJob' = "none" /\ Resuming' = Resuming
  BY <1>2, <1>4 DEF TargetJob, Resuming
<1>16. cpu'.halt_request = cpu.halt_request
  <2>1. cpu.halt_request \in BOOLEAN /\ cpu'.halt_request \in BOOLEAN
    BY <1>1 DEF HandshakeInv, SystemTypeOK, TypeOK, HartState
  <2>2. ~cpu'.halt_request
    BY <1>5 DEF Runs
  <2> QED
    BY <2>1, <2>2
<1> DEFINE after == Target!After(inst)
<1> HIDE DEF ran
<1>17. Target!Execute(inst)
  <2>1. cause = IF inst.op = "ebreak" THEN Target!SWBP ELSE Target!STEP
    BY DEF Target!SWBP, Target!STEP, DCSR_CAUSE_SWBP, DCSR_CAUSE_STEP
  <2> HIDE DEF cause
  <2>2. UNCHANGED <<cpu.halt_request, Resuming, TargetJob, ghost.command, dm.dmdata, dm.cmderr>>
    BY <1>4, <1>15, <1>16
  <2>3. stops <=> inst.op = "ebreak" \/ TargetDue
    BY <1>11
  <2>4. IF inst.op = "ebreak" \/ TargetDue
          THEN TargetMode' = "stopping" /\ TargetHart' = [after EXCEPT !.cause = cause]
          ELSE TargetMode' = TargetMode /\ TargetHart' = after
    BY <1>10, <1>12, <1>13, <1>14, <2>3
  <2> QED
    BY <1>11, <1>12, <2>1, <2>2, <2>4 DEF Target!Execute, Target!work
<1> QED
  BY <1>17 DEF Target!Next

\* While a command executes the hart stays halted, and no resume is asked for.
LEMMA CodeTold ==
    ASSUME HandshakeInv, S0Inv, HandshakeInv', S0Inv', InSession, cpu.pc \in Code, CoreStep
    PROVE  /\ Running /\ Holds(ghost.command) /\ dm.halted
           /\ CodeEffect /\ ghost'.command = ghost.command
           /\ TargetMode = "halted" /\ TargetMode' = "halted" /\ TargetDue' = TargetDue
           /\ cpu'.halt_request = cpu.halt_request /\ Resuming' = Resuming
           /\ dm'.busy /\ ~dm'.completed /\ ~Going' /\ dm'.cmderr = dm.cmderr
           /\ Assembled' = Assembled
           /\ TargetHart = ParkedHart /\ TargetHart' = ParkedHart'
<1>1. /\ cpu \in HartState /\ dm \in ModuleState /\ ghost \in Ghost
      /\ cpu.debug_mode /\ FlagsInv /\ WhereInv /\ AccountInv /\ AutoexecInv
  BY DEF HandshakeInv, SystemTypeOK, TypeOK, InSession
<1>2. Running /\ dm.halted
  BY <1>1 DEF WhereInv, FlagsInv, Running
<1>3. Holds(ghost.command)
  BY <1>1, <1>2 DEF AccountInv, Running, Holds
<1>4. CodeEffect
  BY <1>1, <1>3, AssembledEffect, BufferedEffect DEF Code
<1>5. PICK data : dm' = [dm EXCEPT !.dmdata = data]
  BY <1>4 DEF CodeEffect, DataStep
<1>6. /\ dm'.halted = dm.halted /\ dm'.busy = dm.busy /\ dm'.completed = dm.completed
      /\ dm'.cmderr = dm.cmderr /\ dm'.debug_rom_flags = dm.debug_rom_flags
      /\ dm'.debug_abstract = dm.debug_abstract
  BY <1>1, <1>5 DEF ModuleState
<1>7. cpu'.debug_mode /\ cpu'.halt_request = cpu.halt_request /\ ghost'.command = ghost.command
  BY <1>4 DEF CodeEffect, Moves
<1>8. TargetHart = ParkedHart /\ TargetDue = FALSE /\ TargetMode = "halted"
  BY <1>1, <1>2, SessionTold
<1>9. (HandshakeInv /\ S0Inv /\ cpu.debug_mode =>
          /\ TargetHart = ParkedHart /\ TargetDue = FALSE
          /\ TargetMode = IF dm.halted THEN "halted"
                          ELSE IF cpu.pc \in Left THEN "leaving" ELSE "stopping")'
  BY SessionTold, PTL
<1>10. TargetHart' = ParkedHart' /\ TargetMode' = "halted"
  BY <1>2, <1>6, <1>7, <1>9
<1>11. TargetDue' = TargetDue
  BY <1>7, <1>8, <1>9
<1>12. ~Going' /\ Resuming' = Resuming /\ dm'.busy /\ ~dm'.completed
  BY <1>2, <1>6 DEF Running, Going, Resuming
<1>13. Assembled' = Assembled
  BY <1>6 DEF Assembled
<1> QED
  BY <1>2, <1>3, <1>4, <1>6, <1>7, <1>8, <1>10, <1>11, <1>12, <1>13

\* How far the command is once the word is moved: its end, or the buffer.
LEMMA JobAfterMove ==
    ASSUME dm' \in ModuleState, dm'.busy, ~dm'.completed, ~Going',
           ~Moving',
           (cpu.pc \in Assembled)' \/ cpu'.pc = IF ghost'.command.postexec THEN 836 ELSE 2048
    PROVE  TargetJob' = IF ghost'.command.postexec THEN "executing" ELSE "ended"
<1>1. (dm \in ModuleState /\ cpu.pc \in Code /\ Running =>
          TargetJob = IF Moving THEN "accepted"
                      ELSE IF ghost.command.postexec THEN "executing" ELSE "ended")'
  BY JobInCode, PTL
<1>2. Running'
  BY DEF Running
<1>3. CASE (cpu.pc \in Code)'
  BY <1>1, <1>2, <1>3
<1>4. CASE ~(cpu.pc \in Code)'
  <2>1. cpu'.pc = 2048 /\ ~ghost'.command.postexec
    BY <1>4, ProgBufStart DEF Code
  <2>2. (dm \in ModuleState /\ cpu.pc \in Handshake \cup {768, 2160} =>
            TargetJob = IF ~dm.busy THEN "none"
                        ELSE IF dm.completed THEN "reported"
                        ELSE IF Going \/ cpu.pc \in Leading THEN "accepted"
                        ELSE IF cpu.pc \in {2056, 2112, 2116} THEN "faulted"
                        ELSE "ended")'
    BY JobInRom, PTL
  <2> QED
    BY <2>1, <2>2 DEF Handshake, Entering, Leading
<1> QED
  BY <1>3, <1>4

\* The code of a command that moves a CSR.
LEMMA CsrCodeTarget ==
    ASSUME KeepsProgramS0, HandshakeInv, S0Inv, MoveInv, HandshakeInv', S0Inv', InSession,
           cpu.pc \in Assembled, MovesCsr, CoreStep
    PROVE  Target!Next \/ UNCHANGED Target!vars
<1> DEFINE cmd == ghost.command
<1>1. /\ cpu \in HartState /\ dm \in ModuleState /\ ghost \in Ghost /\ dm' \in ModuleState
      /\ cpu.debug_mode
  BY DEF HandshakeInv, SystemTypeOK, TypeOK, InSession
<1>2. /\ Running /\ Holds(cmd)
      /\ ghost'.command = cmd
      /\ TargetMode = "halted" /\ TargetMode' = "halted" /\ TargetDue' = TargetDue
      /\ cpu'.halt_request = cpu.halt_request /\ Resuming' = Resuming
      /\ dm'.busy /\ ~dm'.completed /\ ~Going' /\ dm'.cmderr = dm.cmderr
      /\ Assembled' = Assembled
      /\ TargetHart = ParkedHart /\ TargetHart' = ParkedHart'
  BY CodeTold DEF Code
<1>3. /\ cmd.transfer /\ cmd.regno \in CsrRegno /\ (cmd.write => cmd.regno # "dscratch0")
      /\ cmd \in Command
  BY <1>2 DEF MovesCsr, Holds, KeepsProgramS0
<1>4. CsrCodeSteps(cmd) /\ ghost'.s0 = ghost.s0
  BY <1>1, <1>2, <1>3, AssembledStep DEF CsrRegno
<1>5. Assembled = {788, 792, 796, 800, 804}
  BY <1>2, <1>3, AssembledShape DEF Shape
<1>6. cpu.dscratch0 = ghost.s0
  BY <1>1, <1>3 DEF S0Inv, InScratch, WritesS0, CsrRegno
<1>7. (Moving <=> cpu.pc \in {788, 792, 796}) /\ (Moving' <=> cpu'.pc \in {788, 792, 796})
  BY <1>2 DEF Moving, MovesCsr
<1>8. TargetJob = IF Moving THEN "accepted" ELSE IF cmd.postexec THEN "executing" ELSE "ended"
  BY <1>1, <1>2, JobInCode DEF Code
<1>9. ASSUME NEW r, NEW sc, NEW p, NEW c, NEW d, Puts(r, sc, p, c, d)
      PROVE  /\ cpu'.regs = r /\ cpu'.dscratch0 = sc /\ cpu'.dpc = p
             /\ cpu'.dcsr = c /\ dm'.dmdata = d
  BY <1>9 DEF Puts
<1>10. cpu.regs \in [Reg -> Value] /\ "s0" \in Reg /\ "s1" \in Reg
  BY <1>1 DEF HartState, Reg
<1>11. \A v : SetReg("s0", v)["s1"] = cpu.regs["s1"]
  BY <1>10 DEF SetReg
<1>12. CASE cpu.pc # 796
  <2>1. /\ cpu'.regs["s1"] = cpu.regs["s1"] /\ cpu'.dpc = cpu.dpc /\ cpu'.dcsr = cpu.dcsr
        /\ dm'.dmdata = dm.dmdata
    <3>1. CASE cpu.pc = 788
      BY <1>4, <1>9, <3>1 DEF CsrCodeSteps
    <3>2. CASE cpu.pc = 792
      BY <1>4, <1>9, <1>11, <3>2 DEF CsrCodeSteps
    <3>3. CASE cpu.pc = 800
      BY <1>4, <1>9, <1>11, <3>3 DEF CsrCodeSteps
    <3>4. CASE cpu.pc = 804
      <4>1. EndingStep(cmd)
        BY <1>4, <3>4 DEF CsrCodeSteps
      <4> QED
        BY <4>1 DEF EndingStep, Keeps, KeepsRegs, KeepsCsrs
    <3> QED
      BY <1>5, <1>12, <3>1, <3>2, <3>3, <3>4
  <2>2. TargetHart' = TargetHart
    BY <1>2, <1>4, <2>1 DEF ParkedHart
  <2>3. TargetJob' = TargetJob
    <3>1. CASE cpu.pc \in {788, 792}
      <4>1. cpu'.pc \in {792, 796}
        BY <1>4, <3>1 DEF CsrCodeSteps
      <4>2. (dm \in ModuleState /\ cpu.pc \in Code /\ Running =>
                TargetJob = IF Moving THEN "accepted"
                            ELSE IF ghost.command.postexec THEN "executing" ELSE "ended")'
        BY JobInCode, PTL
      <4>3. (cpu.pc \in Code)' /\ Running'
        BY <1>2, <1>5, <4>1 DEF Code, Running
      <4> QED
        BY <1>1, <1>7, <1>8, <3>1, <4>1, <4>2, <4>3
    <3>2. CASE cpu.pc \in {800, 804}
      <4>1. cpu'.pc = 804 \/ cpu'.pc = IF cmd.postexec THEN 836 ELSE 2048
        BY <1>4, <3>2 DEF CsrCodeSteps, EndingStep
      <4>2. ~Moving /\ ~Moving'
        BY <1>7, <3>2, <4>1
      <4> QED
        BY <1>1, <1>2, <1>5, <1>8, <4>1, <4>2, JobAfterMove
    <3> QED
      BY <1>5, <1>12, <3>1, <3>2
  <2>4. SameTarget
    BY <1>2, <2>1, <2>2, <2>3 DEF SameTarget
  <2> QED
    BY <2>4, TargetStutters
<1>13. CASE cpu.pc = 796
  <2>1. cpu'.pc = 800
    BY <1>4, <1>13 DEF CsrCodeSteps
  <2>2. TargetJob = "accepted" /\ TargetJob' = IF cmd.postexec THEN "executing" ELSE "ended"
    BY <1>1, <1>2, <1>5, <1>7, <1>8, <1>13, <2>1, JobAfterMove
  <2>3. cpu.regs["s0"] = IF cmd.write THEN dm.dmdata ELSE CsrWord(cpu, cmd.regno)
    <3>1. Entered
      BY <1>2, <1>3, <1>13 DEF Entered, Running, Leading
    <3> QED
      BY <1>13, <3>1 DEF MoveInv
  <2>4. IF cmd.write
          THEN TargetHart' = Target!Installed(cmd.regno, dm.dmdata) /\ dm'.dmdata = dm.dmdata
          ELSE TargetHart' = TargetHart /\ dm'.dmdata = Target!Word(cmd.regno)
    <3>1. CASE cmd.write
      <4>1. /\ cpu'.regs = cpu.regs /\ dm'.dmdata = dm.dmdata
            /\ cpu'.dpc = IF cmd.regno = "dpc" THEN dm.dmdata ELSE cpu.dpc
            /\ cpu'.dcsr = IF cmd.regno = "dcsr" THEN CsrValue("dcsr", dm.dmdata) ELSE cpu.dcsr
        BY <1>4, <1>9, <1>13, <2>3, <3>1 DEF CsrCodeSteps
      <4>2. CASE cmd.regno = "dpc"
        <5>1. Target!Installed("dpc", dm.dmdata) = [TargetHart EXCEPT !.pc = dm.dmdata]
          BY DEF Target!Installed, Target!General
        <5> QED
          BY <1>2, <1>4, <3>1, <4>1, <4>2, <5>1 DEF ParkedHart
      <4>3. CASE cmd.regno = "dcsr"
        <5>1. Target!Installed("dcsr", dm.dmdata) =
                 [TargetHart EXCEPT !.cause = (dm.dmdata \div 64) % 8,
                                    !.step = (dm.dmdata \div 4) % 2 = 1, !.prv = dm.dmdata % 4]
          BY DEF Target!Installed, Target!General
        <5>2. cpu'.dcsr = [cause |-> (dm.dmdata \div 64) % 8,
                           step |-> (dm.dmdata \div 4) % 2 = 1, prv |-> dm.dmdata % 4]
          BY <4>1, <4>3 DEF CsrValue
        <5> DEFINE c == (dm.dmdata \div 64) % 8
                   s == (dm.dmdata \div 4) % 2 = 1
                   p == dm.dmdata % 4
        <5>3. cpu'.dcsr = [cause |-> c, step |-> s, prv |-> p]
          BY <5>2
        <5>4. Target!Installed("dcsr", dm.dmdata) =
                 [TargetHart EXCEPT !.cause = c, !.step = s, !.prv = p]
          BY <5>1
        <5>5. ParkedHart' =
                 [ pc |-> cpu.dpc, prv |-> cpu'.dcsr.prv, s0 |-> ghost.s0, s1 |-> cpu.regs["s1"],
                   cause |-> cpu'.dcsr.cause, step |-> cpu'.dcsr.step ]
          BY <1>4, <4>1, <4>3 DEF ParkedHart
        <5> HIDE DEF c, s, p
        <5>6. ParkedHart' = [ParkedHart EXCEPT !.cause = c, !.step = s, !.prv = p]
          <6> DEFINE Parked(x, y, z) ==
                       [ pc |-> cpu.dpc, prv |-> x, s0 |-> ghost.s0, s1 |-> cpu.regs["s1"],
                         cause |-> y, step |-> z ]
                     d == cpu.dcsr
                     e == cpu'.dcsr
          <6>1. e.cause = c /\ e.prv = p /\ e.step = s
            <7>1. e = [cause |-> c, step |-> s, prv |-> p]
              BY <5>3
            <7> HIDE DEF e
            <7> QED
              BY <7>1
          <6>2. ParkedHart' = Parked(e.prv, e.cause, e.step)
            BY <5>5
          <6>3. ParkedHart = Parked(d.prv, d.cause, d.step)
            BY DEF ParkedHart
          <6> HIDE DEF d, e
          <6>4. /\ \A x, y, z : [Parked(x, y, z) EXCEPT !.cause = c] = Parked(x, c, z)
                /\ \A x, y, z : [Parked(x, y, z) EXCEPT !.step = s] = Parked(x, y, s)
                /\ \A x, y, z : [Parked(x, y, z) EXCEPT !.prv = p] = Parked(p, y, z)
            OBVIOUS
          <6> HIDE DEF Parked
          <6>5. ParkedHart' = Parked(p, c, s)
            BY <6>1, <6>2, Zenon
          <6>6. [Parked(d.prv, d.cause, d.step) EXCEPT !.cause = c] = Parked(d.prv, c, d.step)
            BY <6>4
          <6>7. [Parked(d.prv, c, d.step) EXCEPT !.step = s] = Parked(d.prv, c, s)
            BY <6>4
          <6>8. [Parked(d.prv, c, s) EXCEPT !.prv = p] = Parked(p, c, s)
            BY <6>4
          <6> QED
            BY <6>3, <6>5, <6>6, <6>7, <6>8, Zenon
        <5> QED
          BY <1>2, <3>1, <4>1, <4>3, <5>4, <5>6, Zenon
      <4> QED
        BY <1>3, <3>1, <4>2, <4>3 DEF CsrRegno
    <3>2. CASE ~cmd.write
      <4>1. /\ cpu'.regs = cpu.regs /\ dm'.dmdata = CsrWord(cpu, cmd.regno)
            /\ cpu'.dpc = cpu.dpc /\ cpu'.dcsr = cpu.dcsr
        BY <1>4, <1>9, <1>13, <2>3, <3>2 DEF CsrCodeSteps
      <4>2. TargetHart' = TargetHart
        BY <1>2, <1>4, <4>1 DEF ParkedHart
      <4>3. CsrWord(cpu, cmd.regno) = Target!Word(cmd.regno)
        <5>1. CASE cmd.regno = "dpc"
          BY <1>2, <5>1 DEF ParkedHart, CsrWord, Target!Word, Target!General
        <5>2. CASE cmd.regno = "dcsr"
          BY <1>2, <5>2 DEF ParkedHart, CsrWord, Target!Word, Target!General
        <5>3. CASE cmd.regno = "dscratch0"
          BY <1>2, <1>6, <5>3 DEF ParkedHart, CsrWord, Target!Word, Target!General
        <5> QED
          BY <1>3, <5>1, <5>2, <5>3 DEF CsrRegno
      <4> QED
        BY <3>2, <4>1, <4>2, <4>3
    <3> QED
      BY <3>1, <3>2
  <2>5. Target!Move
    BY <1>2, <1>3, <2>2, <2>4 DEF Target!Move, Target!control
  <2> QED
    BY <2>5 DEF Target!Next
<1> QED
  BY <1>12, <1>13

\* The code of a command that moves a general register.
LEMMA RegCodeTarget ==
    ASSUME HandshakeInv, S0Inv, HandshakeInv', S0Inv', InSession, cpu.pc \in Assembled,
           ghost.command.transfer, ~MovesCsr, CoreStep
    PROVE  Target!Next \/ UNCHANGED Target!vars
<1> DEFINE cmd == ghost.command
<1>1. /\ cpu \in HartState /\ dm \in ModuleState /\ ghost \in Ghost /\ dm' \in ModuleState
      /\ cpu.debug_mode
  BY DEF HandshakeInv, SystemTypeOK, TypeOK, InSession
<1>2. /\ Running /\ Holds(cmd)
      /\ ghost'.command = cmd
      /\ TargetMode = "halted" /\ TargetMode' = "halted" /\ TargetDue' = TargetDue
      /\ cpu'.halt_request = cpu.halt_request /\ Resuming' = Resuming
      /\ dm'.busy /\ ~dm'.completed /\ ~Going' /\ dm'.cmderr = dm.cmderr
      /\ Assembled' = Assembled
      /\ TargetHart = ParkedHart /\ TargetHart' = ParkedHart'
  BY CodeTold DEF Code
<1>3. cmd.transfer /\ cmd.regno \notin CsrRegno /\ cmd.regno \in {"s0", "s1"}
  BY <1>2 DEF MovesCsr, Holds, Reg
<1>4. /\ RegCodeSteps(cmd)
      /\ ghost'.s0 = IF cmd.write /\ cmd.regno = "s0" /\ cpu.pc = 788 THEN dm.dmdata ELSE ghost.s0
  BY <1>1, <1>2, <1>3, AssembledStep
<1>5. Assembled = {788, 792} \cup IF cmd.write /\ cmd.regno = "s0" THEN {796} ELSE {}
  BY <1>2, <1>3, AssembledShape DEF Shape
<1>6. cpu.regs["s0"] = ghost.s0
  BY <1>1 DEF S0Inv, InRegister
<1>7. (Moving <=> cpu.pc = 788) /\ (Moving' <=> cpu'.pc = 788)
  BY <1>2 DEF Moving, MovesCsr
<1>8. TargetJob = IF Moving THEN "accepted" ELSE IF cmd.postexec THEN "executing" ELSE "ended"
  BY <1>1, <1>2, JobInCode DEF Code
<1>9. ASSUME NEW r, NEW sc, NEW p, NEW c, NEW d, Puts(r, sc, p, c, d)
      PROVE  cpu'.regs = r /\ cpu'.dpc = p /\ cpu'.dcsr = c /\ dm'.dmdata = d
  BY <1>9 DEF Puts
<1>10. cpu.regs \in [Reg -> Value] /\ Reg = {"s0", "s1"}
  BY <1>1 DEF HartState, Reg
<1>11. /\ cpu'.dpc = cpu.dpc /\ cpu'.dcsr = cpu.dcsr
       /\ \/ cpu'.pc = 792
          \/ cmd.write /\ cmd.regno = "s0" /\ cpu'.pc = 796
          \/ cpu'.pc = IF cmd.postexec THEN 836 ELSE 2048
  <2>1. EndingStep(cmd) => /\ cpu'.dpc = cpu.dpc /\ cpu'.dcsr = cpu.dcsr
                           /\ cpu'.pc = IF cmd.postexec THEN 836 ELSE 2048
    BY DEF EndingStep, Keeps, KeepsCsrs
  <2>2. CASE cpu.pc = 788
    <3>1. CASE cmd.write
      <4>1. /\ cpu'.pc = 792
            /\ Puts(SetReg(cmd.regno, dm.dmdata), cpu.dscratch0, cpu.dpc, cpu.dcsr, dm.dmdata)
        BY <1>4, <2>2, <3>1 DEF RegCodeSteps
      <4> QED
        BY <4>1 DEF Puts
    <3>2. CASE ~cmd.write
      <4>1. cpu'.pc = 792 /\ Puts(cpu.regs, cpu.dscratch0, cpu.dpc, cpu.dcsr, cpu.regs[cmd.regno])
        BY <1>4, <2>2, <3>2 DEF RegCodeSteps
      <4> QED
        BY <4>1 DEF Puts
    <3> QED
      BY <3>1, <3>2
  <2>3. CASE cpu.pc \in {792, 796}
    <3>1. CASE cpu.pc = 792 /\ cmd.write /\ cmd.regno = "s0"
      <4>1. cpu'.pc = 796 /\ Puts(cpu.regs, cpu.regs["s0"], cpu.dpc, cpu.dcsr, dm.dmdata)
        BY <1>4, <3>1 DEF RegCodeSteps
      <4> QED
        BY <3>1, <4>1 DEF Puts
    <3>2. CASE cpu.pc = 796 \/ ~(cmd.write /\ cmd.regno = "s0")
      <4>1. EndingStep(cmd)
        BY <1>4, <2>3, <3>2 DEF RegCodeSteps
      <4> QED
        BY <2>1, <4>1
    <3> QED
      BY <2>3, <3>1, <3>2
  <2> QED
    BY <1>4, <2>2, <2>3 DEF RegCodeSteps
<1>12. ~Moving'
  BY <1>7, <1>11
<1>13. TargetJob' = IF cmd.postexec THEN "executing" ELSE "ended"
  BY <1>1, <1>2, <1>5, <1>11, <1>12, JobAfterMove
<1>14. CASE cpu.pc # 788
  <2>1. cpu'.regs = cpu.regs /\ dm'.dmdata = dm.dmdata
    BY <1>4, <1>9, <1>14 DEF RegCodeSteps, EndingStep, Keeps, KeepsRegs
  <2>2. TargetHart' = TargetHart
    BY <1>2, <1>4, <1>11, <1>14, <2>1 DEF ParkedHart
  <2>3. TargetJob' = TargetJob
    BY <1>7, <1>8, <1>13, <1>14
  <2>4. SameTarget
    BY <1>2, <2>1, <2>2, <2>3 DEF SameTarget
  <2> QED
    BY <2>4, TargetStutters
<1>15. CASE cpu.pc = 788
  <2>1. TargetJob = "accepted"
    BY <1>7, <1>8, <1>15
  <2>2. IF cmd.write
          THEN TargetHart' = Target!Installed(cmd.regno, dm.dmdata) /\ dm'.dmdata = dm.dmdata
          ELSE TargetHart' = TargetHart /\ dm'.dmdata = Target!Word(cmd.regno)
    <3>1. CASE cmd.write
      <4>1. cpu'.regs = SetReg(cmd.regno, dm.dmdata) /\ dm'.dmdata = dm.dmdata
        BY <1>4, <1>9, <1>15, <3>1 DEF RegCodeSteps
      <4>2. CASE cmd.regno = "s0"
        <5>1. Target!Installed("s0", dm.dmdata) = [TargetHart EXCEPT !.s0 = dm.dmdata]
          BY DEF Target!Installed, Target!General
        <5>2. cpu'.regs["s1"] = cpu.regs["s1"]
          BY <1>10, <4>1, <4>2 DEF SetReg
        <5> QED
          BY <1>2, <1>4, <1>11, <1>15, <3>1, <4>1, <4>2, <5>1, <5>2 DEF ParkedHart
      <4>3. CASE cmd.regno = "s1"
        <5>1. Target!Installed("s1", dm.dmdata) = [TargetHart EXCEPT !.s1 = dm.dmdata]
          BY DEF Target!Installed, Target!General
        <5>2. cpu'.regs["s1"] = dm.dmdata
          BY <1>10, <4>1, <4>3 DEF SetReg
        <5> QED
          BY <1>2, <1>4, <1>11, <3>1, <4>1, <4>3, <5>1, <5>2 DEF ParkedHart
      <4> QED
        BY <1>3, <3>1, <4>2, <4>3
    <3>2. CASE ~cmd.write
      <4>1. cpu'.regs = cpu.regs /\ dm'.dmdata = cpu.regs[cmd.regno]
        BY <1>4, <1>9, <1>15, <3>2 DEF RegCodeSteps
      <4>2. TargetHart' = TargetHart
        BY <1>2, <1>4, <1>11, <3>2, <4>1 DEF ParkedHart
      <4>3. cpu.regs[cmd.regno] = Target!Word(cmd.regno)
        <5>1. CASE cmd.regno = "s0"
          BY <1>2, <1>6, <5>1 DEF ParkedHart, Target!Word, Target!General
        <5>2. CASE cmd.regno = "s1"
          BY <1>2, <5>2 DEF ParkedHart, Target!Word, Target!General
        <5> QED
          BY <1>3, <5>1, <5>2
      <4> QED
        BY <3>2, <4>1, <4>2, <4>3
    <3> QED
      BY <3>1, <3>2
  <2>3. Target!Move
    BY <1>2, <1>3, <1>13, <2>1, <2>2 DEF Target!Move, Target!control
  <2> QED
    BY <2>3 DEF Target!Next
<1> QED
  BY <1>14, <1>15

\* The code of a command that moves nothing.
LEMMA PlainCodeTarget ==
    ASSUME HandshakeInv, S0Inv, HandshakeInv', S0Inv', InSession, cpu.pc \in Assembled,
           ~ghost.command.transfer, CoreStep
    PROVE  Target!Next
<1> DEFINE cmd == ghost.command
<1>1. /\ cpu \in HartState /\ dm \in ModuleState /\ ghost \in Ghost /\ dm' \in ModuleState
      /\ cpu.debug_mode
  BY DEF HandshakeInv, SystemTypeOK, TypeOK, InSession
<1>2. /\ Running /\ Holds(cmd)
      /\ ghost'.command = cmd
      /\ TargetMode = "halted" /\ TargetMode' = "halted" /\ TargetDue' = TargetDue
      /\ cpu'.halt_request = cpu.halt_request /\ Resuming' = Resuming
      /\ dm'.busy /\ ~dm'.completed /\ ~Going' /\ dm'.cmderr = dm.cmderr
      /\ Assembled' = Assembled
      /\ TargetHart = ParkedHart /\ TargetHart' = ParkedHart'
  BY CodeTold DEF Code
<1>3. EndingStep(cmd) /\ ghost'.s0 = ghost.s0
  BY <1>1, <1>2, AssembledStep
<1>4. Assembled = {788}
  BY <1>2, AssembledShape DEF Shape
<1>5. cpu.pc = 788 /\ Moving
  BY <1>4 DEF Moving
<1>6. cpu'.pc = (IF cmd.postexec THEN 836 ELSE 2048) /\ ~Moving'
  BY <1>2, <1>3 DEF EndingStep, Moving
<1>7. TargetJob = "accepted"
  BY <1>1, <1>2, <1>5, JobInCode DEF Code
<1>8. TargetJob' = IF cmd.postexec THEN "executing" ELSE "ended"
  BY <1>1, <1>2, <1>6, JobAfterMove
<1>9. TargetHart' = TargetHart /\ dm'.dmdata = dm.dmdata
  BY <1>2, <1>3 DEF EndingStep, Keeps, KeepsRegs, KeepsCsrs, ParkedHart
<1>10. Target!Move
  BY <1>2, <1>7, <1>8, <1>9 DEF Target!Move, Target!control
<1> QED
  BY <1>10 DEF Target!Next

\* A word of the program buffer is an instruction of the target's.
LEMMA BufferedTarget ==
    ASSUME KeepsProgramS0, HandshakeInv, S0Inv, MoveInv, HandshakeInv', S0Inv', InSession,
           cpu.pc \in Buffered, CoreStep
    PROVE  Target!Next
<1>1. /\ cpu \in HartState /\ dm \in ModuleState /\ ghost \in Ghost /\ dm' \in ModuleState
      /\ cpu.debug_mode /\ WhereInv
      /\ \A i \in 1..ProgBufSize : dm.program_buffer[i] \in BufferWord
  BY DEF HandshakeInv, SystemTypeOK, TypeOK, InSession, AutoexecInv
<1>2. /\ Running
      /\ ghost'.command = ghost.command
      /\ TargetMode = "halted" /\ TargetMode' = "halted" /\ TargetDue' = TargetDue
      /\ cpu'.halt_request = cpu.halt_request /\ Resuming' = Resuming
      /\ dm'.busy /\ ~dm'.completed /\ ~Going' /\ dm'.cmderr = dm.cmderr
      /\ TargetHart = ParkedHart /\ TargetHart' = ParkedHart'
  BY CodeTold DEF Code
<1>3. PICK word \in BufferWord :
         /\ Effect(cpu, word, cpu')
         /\ (cpu'.pc = 2056) = (word.op = "fault")
  BY <1>1, BufferedStep
<1>4. /\ dm' = dm /\ ghost'.s0 = ghost.s0
      /\ cpu'.pc \in Buffered \cup {2048, 2056}
  BY <1>1, BufferedStep
<1>5. word \in Instruction /\ Confined(word)
  BY BufferWords
<1>6. ~(word.op = "set" /\ word.reg = "s0") /\ ~(word.op = "csr" /\ word.csr = "dscratch0")
  BY DEF KeepsProgramS0, BufferWord, Unwritten
<1>7. ghost.command.postexec
  BY <1>2 DEF MoveInv, Running
<1>8. /\ cpu.pc \notin {788, 792, 796, 2048, 2056}
      /\ (cpu'.pc \in Buffered => cpu'.pc \notin {788, 792, 796})
  BY BufferRegion
<1>9. TargetJob = "executing"
  BY <1>1, <1>2, <1>7, <1>8, JobInCode DEF Code, Moving
<1>10. TargetJob' = CASE word.op = "ebreak" -> "ended"
                      [] word.op = "fault"  -> "faulted"
                      [] OTHER              -> "executing"
  <2>1. (dm \in ModuleState /\ cpu.pc \in Handshake \cup {768, 2160} =>
            TargetJob = IF ~dm.busy THEN "none"
                        ELSE IF dm.completed THEN "reported"
                        ELSE IF Going \/ cpu.pc \in Leading THEN "accepted"
                        ELSE IF cpu.pc \in {2056, 2112, 2116} THEN "faulted"
                        ELSE "ended")'
    BY JobInRom, PTL
  <2>2. (dm \in ModuleState /\ cpu.pc \in Code /\ Running =>
            TargetJob = IF Moving THEN "accepted"
                        ELSE IF ghost.command.postexec THEN "executing" ELSE "ended")'
    BY JobInCode, PTL
  <2>3. CASE cpu'.pc = 2056
    <3>1. TargetJob' = "faulted"
      BY <1>1, <1>2, <2>1, <2>3 DEF Handshake, Exception, Leading
    <3> QED
      BY <1>3, <2>3, <3>1
  <2>4. CASE cpu'.pc = 2048
    <3>1. TargetJob' = "ended"
      BY <1>1, <1>2, <2>1, <2>4 DEF Handshake, Entering, Leading
    <3>2. cpu.pc <= 896 /\ cpu.pc \in Nat
      BY BufferRegion
    <3>3. word.op \in {"alu", "set", "csr"} => word.len = 4
      BY <1>5 DEF Confined, Instruction, CsrWrite
    <3>4. word.op \notin {"alu", "set", "csr"}
      BY <1>3, <1>5, <2>4, <3>2, <3>3 DEF Effect, Moves, Confined
    <3>5. word.op = "jump" => word.to <= 896 /\ word.to \in Nat
      BY <1>5, BufferRegion DEF Confined, Buffered
    <3>6. word.op = "ebreak"
      BY <1>3, <1>5, <2>4, <3>4, <3>5 DEF Effect, Moves, Confined
    <3> QED
      BY <3>1, <3>6
  <2>5. CASE cpu'.pc \in Buffered
    <3>1. TargetJob' = "executing"
      BY <1>1, <1>2, <1>7, <1>8, <2>2, <2>5 DEF Code, Running, Moving
    <3>2. word.op # "ebreak" /\ word.op # "fault"
      BY <1>3, <2>5, BufferRegion DEF Effect, Moves
    <3> QED
      BY <3>1, <3>2
  <2> QED
    BY <1>4, <2>3, <2>4, <2>5
<1>11. TargetHart' =
         CASE word.op = "set" -> [TargetHart EXCEPT ![word.reg] = word.val]
           [] word.op = "csr" /\ word.csr = "dpc" -> [TargetHart EXCEPT !.pc = word.val]
           [] word.op = "csr" /\ word.csr = "dcsr" ->
                [TargetHart EXCEPT !.cause = word.val.cause, !.step = word.val.step,
                                   !.prv = word.val.prv]
           [] OTHER -> TargetHart
  <2>1. cpu.regs \in [Reg -> Value]
    BY <1>1 DEF HartState
  <2>2. CASE word.op \in {"alu", "jump", "ebreak", "fault"}
    BY <1>2, <1>3, <1>4, <2>2 DEF Effect, Keeps, KeepsRegs, KeepsCsrs, ParkedHart
  <2>3. CASE word.op = "set"
    <3>1. word.reg = "s1"
      BY <1>5, <1>6, <2>3 DEF Instruction, CsrWrite, Reg
    <3>2. cpu'.regs["s1"] = word.val
      BY <1>3, <2>1, <2>3, <3>1 DEF Effect, Reg
    <3>3. TargetHart' = [TargetHart EXCEPT !.s1 = word.val]
      BY <1>2, <1>3, <1>4, <2>3, <3>2 DEF Effect, KeepsCsrs, ParkedHart
    <3> QED
      BY <2>3, <3>1, <3>3
  <2>4. CASE word.op = "csr"
    <3>1. word.csr # "mip" /\ word.csr # "dscratch0"
      BY <1>5, <1>6, <2>4 DEF Confined
    <3>2. /\ cpu'.regs = cpu.regs
          /\ cpu'.dpc = IF word.csr = "dpc" THEN word.val ELSE cpu.dpc
          /\ cpu'.dcsr = IF word.csr = "dcsr" THEN word.val ELSE cpu.dcsr
      BY <1>3, <2>4, <3>1 DEF Effect, KeepsRegs
    <3>3. CASE word.csr = "dpc"
      BY <1>2, <1>4, <2>4, <3>2, <3>3 DEF ParkedHart
    <3>4. CASE word.csr = "dcsr"
      <4> DEFINE Parked(x, y, z) ==
                   [ pc |-> cpu.dpc, prv |-> x, s0 |-> ghost.s0, s1 |-> cpu.regs["s1"],
                     cause |-> y, step |-> z ]
                 d == cpu.dcsr
                 e == word.val
      <4>1. TargetHart' = Parked(e.prv, e.cause, e.step)
        BY <1>2, <1>4, <3>2, <3>4 DEF ParkedHart
      <4>2. TargetHart = Parked(d.prv, d.cause, d.step)
        BY <1>2 DEF ParkedHart
      <4> HIDE DEF d, e
      <4>3. /\ \A x, y, z, c : [Parked(x, y, z) EXCEPT !.cause = c] = Parked(x, c, z)
            /\ \A x, y, z, s : [Parked(x, y, z) EXCEPT !.step = s] = Parked(x, y, s)
            /\ \A x, y, z, p : [Parked(x, y, z) EXCEPT !.prv = p] = Parked(p, y, z)
        OBVIOUS
      <4> HIDE DEF Parked
      <4>4. [Parked(d.prv, d.cause, d.step) EXCEPT !.cause = e.cause] =
            Parked(d.prv, e.cause, d.step)
        BY <4>3
      <4>5. [Parked(d.prv, e.cause, d.step) EXCEPT !.step = e.step] =
            Parked(d.prv, e.cause, e.step)
        BY <4>3
      <4>6. [Parked(d.prv, e.cause, e.step) EXCEPT !.prv = e.prv] =
            Parked(e.prv, e.cause, e.step)
        BY <4>3
      <4>7. TargetHart' = [TargetHart EXCEPT !.cause = e.cause, !.step = e.step, !.prv = e.prv]
        BY <4>1, <4>2, <4>4, <4>5, <4>6, Zenon
      <4> QED
        BY <2>4, <3>4, <4>7 DEF e
    <3>5. CASE word.csr \notin {"dpc", "dcsr"}
      BY <1>2, <1>4, <2>4, <3>2, <3>5 DEF ParkedHart
    <3> QED
      BY <3>3, <3>4, <3>5
  <2>5. word.op \in {"alu", "set", "csr", "jump", "ebreak", "fault"}
    BY <1>5 DEF Confined
  <2> QED
    BY <2>2, <2>3, <2>4, <2>5
<1>12. Target!RunBuffer(word)
  BY <1>2, <1>4, <1>9, <1>10, <1>11 DEF Target!RunBuffer, Target!control
<1> QED
  BY <1>12 DEF Target!Next

\* An access leaves the hart as the target has it.
LEMMA SameHartTold ==
    ASSUME HandshakeInv, S0Inv, HandshakeInv', S0Inv', SameHart,
           dm'.halted = dm.halted, ghost'.s0 = ghost.s0
    PROVE  TargetMode' = TargetMode /\ TargetHart' = TargetHart /\ TargetDue' = TargetDue
<1>1. TargetMode' = TargetMode
  BY DEF SameHart, TargetMode
<1>2. TargetDue' = TargetDue
  BY DEF SameHart, TargetDue
<1>3. ParkedHart' = ParkedHart
  BY DEF SameHart, ParkedHart
<1>4. RunningHart' = RunningHart
  BY DEF SameHart, RunningHart
<1>5. TargetHart = IF cpu.debug_mode THEN ParkedHart ELSE RunningHart
  BY HartTold
<1>6. (HandshakeInv /\ S0Inv => TargetHart = IF cpu.debug_mode THEN ParkedHart ELSE RunningHart)'
  BY HartTold, PTL
<1>7. TargetHart' = TargetHart
  BY <1>3, <1>4, <1>5, <1>6 DEF SameHart
<1> QED
  BY <1>1, <1>2, <1>7

\* And the command, if it leaves the module's account of it.
LEMMA SameJobTold ==
    ASSUME cpu'.pc = cpu.pc, dm'.busy = dm.busy, dm'.completed = dm.completed,
           dm'.debug_rom_flags = dm.debug_rom_flags, dm'.debug_abstract = dm.debug_abstract,
           ghost'.command = ghost.command
    PROVE  TargetJob' = TargetJob /\ Resuming' = Resuming
<1>1. /\ Moving' = Moving /\ Going' = Going /\ Resuming' = Resuming
      /\ (cpu.pc \in Code)' = (cpu.pc \in Code)
  BY DEF Moving, MovesCsr, Going, Resuming, Code, Assembled
<1> QED
  BY <1>1 DEF TargetJob

\* An access to the command, data and program buffer registers.
LEMMA AbstractTarget ==
    ASSUME HandshakeInv, S0Inv, HandshakeInv', S0Inv', AbstractEffect
    PROVE  Target!Next \/ UNCHANGED Target!vars
<1>1. /\ cpu \in HartState /\ dm \in ModuleState /\ ghost \in Ghost /\ dm' \in ModuleState
      /\ FlagsInv
  BY DEF HandshakeInv, SystemTypeOK, TypeOK
<1>2. /\ cpu' = cpu /\ accessed = "none" /\ ~Resuming
      /\ dm'.halted = dm.halted
      /\ Quiet(dm, dm') \/ Launched(dm, dm')
      /\ ghost' = IF dm'.busy /\ ~dm.busy THEN Opened(ghost, dm'.command) ELSE ghost
  BY DEF AbstractEffect, Served, SameLines
<1>3. ghost'.s0 = ghost.s0
  BY <1>1, <1>2, OpenedAccount DEF Quiet, Launched
<1>4. SameHart
  BY <1>2 DEF SameHart
<1>5. TargetMode' = TargetMode /\ TargetHart' = TargetHart /\ TargetDue' = TargetDue
  BY <1>2, <1>3, <1>4, SameHartTold
<1>6. cpu'.halt_request = cpu.halt_request
  BY <1>2
<1>7. dm.dmdata \in Value /\ dm'.dmdata \in Value
  BY <1>1 DEF ModuleState
<1>8. CASE Quiet(dm, dm')
  <2>1. /\ dm'.busy = dm.busy /\ dm'.completed = dm.completed
        /\ dm'.debug_rom_flags = dm.debug_rom_flags /\ dm'.debug_abstract = dm.debug_abstract
        /\ dm'.cmderr = dm.cmderr \/ Errs(dm, dm')
        /\ dm.busy => dm'.dmdata = dm.dmdata
    BY <1>8 DEF Quiet
  <2>2. ghost' = ghost
    BY <1>2, <2>1
  <2>3. TargetJob' = TargetJob /\ Resuming' = Resuming
    BY <1>2, <2>1, <2>2, SameJobTold
  <2>4. CASE dm.busy /\ dm'.cmderr = dm.cmderr
    <3>1. SameTarget
      BY <1>5, <1>6, <2>1, <2>2, <2>3, <2>4 DEF SameTarget
    <3> QED
      BY <3>1, TargetStutters
  <2>5. CASE dm.busy /\ Errs(dm, dm')
    <3>1. TargetJob # "none"
      BY <2>5 DEF TargetJob
    <3>2. dm.cmderr = 0 /\ dm'.cmderr = 1
      BY <2>5 DEF Errs, CMDERR_NONE, CMDERR_BUSY
    <3>3. Target!Intrude
      BY <1>5, <1>6, <2>1, <2>2, <2>3, <2>5, <3>1, <3>2
      DEF Target!Intrude, Target!control, Target!NONE, Target!BUSY
    <3> QED
      BY <3>3 DEF Target!Next
  <2>6. CASE ~dm.busy
    <3>1. TargetJob = "none"
      BY <2>6 DEF TargetJob
    <3>2. \/ dm'.cmderr = dm.cmderr
          \/ dm.cmderr = 0 /\ dm'.cmderr = 2
          \/ dm.cmderr = 0 /\ dm'.cmderr = 4 /\ TargetMode # "halted"
      <4>1. ~dm.halted => TargetMode # "halted"
        BY DEF TargetMode
      <4> QED
        BY <2>1, <2>6, <4>1 DEF Errs, CMDERR_NONE, CMDERR_NOTSUP, CMDERR_HALTRESUME
    <3>3. Target!Use
      BY <1>2, <1>5, <1>6, <1>7, <2>2, <2>3, <3>1, <3>2
      DEF Target!Use, Target!control, Target!NONE, Target!NOTSUP, Target!HALTRESUME
    <3> QED
      BY <3>3 DEF Target!Next
  <2> QED
    BY <2>1, <2>4, <2>5, <2>6
<1>9. CASE Launched(dm, dm')
  <2>1. /\ ~dm.busy /\ dm.halted /\ dm.cmderr = 0 /\ dm'.cmderr = 0
        /\ dm'.busy /\ ~dm'.completed /\ dm'.debug_rom_flags = dm.debug_rom_flags \cup {"GO"}
        /\ dm'.command \in Command
        /\ dm'.command.access_register /\ dm'.command.aarsize32
        /\ dm'.command.transfer => dm'.command.regno \in Reg \cup CsrRegno
    BY <1>9 DEF Launched, CMDERR_NONE
  <2>2. ghost'.command = dm'.command
    BY <1>1, <1>2, <2>1, OpenedAccount
  <2>3. Resuming' = Resuming /\ Going'
    BY <2>1 DEF Resuming, Going
  <2>4. TargetJob = "none" /\ TargetJob' = "accepted" /\ TargetMode = "halted"
    BY <2>1, <2>3 DEF TargetJob, TargetMode
  <2>5. Target!Supported(dm'.command)
    BY <2>1 DEF Target!Supported, Target!Register, Target!General, Reg, CsrRegno
  <2>6. Target!Start(dm'.command)
    BY <1>2, <1>5, <1>6, <1>7, <2>1, <2>2, <2>3, <2>4, <2>5
    DEF Target!Start, Target!control, Target!NONE
  <2> QED
    BY <2>1, <2>6 DEF Target!Next
<1> QED
  BY <1>2, <1>8, <1>9

\* An access the handshake does not notice requests a halt, withdraws the request
\* or clears the error.
LEMMA UnnoticedTarget ==
    ASSUME HandshakeInv, S0Inv, HandshakeInv', S0Inv', Unnoticed
    PROVE  Target!Next
<1>1. /\ cpu' \in HartState /\ ghost' = ghost /\ SameHart
      /\ dm'.halted = dm.halted /\ dm'.busy = dm.busy /\ dm'.completed = dm.completed
      /\ dm'.debug_rom_flags = dm.debug_rom_flags /\ dm'.debug_abstract = dm.debug_abstract
      /\ dm'.dmdata = dm.dmdata
      /\ dm'.cmderr = dm.cmderr \/ (~dm.busy /\ dm'.cmderr = 0)
  BY DEF Unnoticed, SameModule, CMDERR_NONE
<1>2. TargetMode' = TargetMode /\ TargetHart' = TargetHart /\ TargetDue' = TargetDue
  BY <1>1, SameHartTold
<1>3. TargetJob' = TargetJob /\ Resuming' = Resuming
  BY <1>1, SameJobTold DEF SameHart
<1>4. ~dm.busy => TargetJob = "none"
  BY DEF TargetJob
<1>5. Target!Configure(cpu'.halt_request)
  BY <1>1, <1>2, <1>3, <1>4 DEF Target!Configure, Target!NONE
<1>6. cpu'.halt_request \in BOOLEAN
  BY <1>1 DEF HartState
<1> QED
  BY <1>5, <1>6 DEF Target!Next

\* Setting the RESUME flag asks the target to resume.
LEMMA ResumeTarget ==
    ASSUME HandshakeInv, S0Inv, HandshakeInv', S0Inv', ResumeEffect
    PROVE  Target!Next
<1>1. ghost \in Ghost /\ ghost' = [ghost EXCEPT !.resuming = TRUE]
  BY DEF HandshakeInv, SystemTypeOK, ResumeEffect
<1>2. ghost'.s0 = ghost.s0 /\ ghost'.command = ghost.command
  BY <1>1 DEF Ghost
<1>3. /\ SameHart /\ dm.halted /\ ~dm.busy /\ ~Resuming /\ ~cpu'.halt_request
      /\ dm'.halted = dm.halted /\ dm'.busy = dm.busy
      /\ dm'.debug_rom_flags = dm.debug_rom_flags \cup {"RESUME"}
      /\ dm'.dmdata = dm.dmdata /\ dm'.cmderr = dm.cmderr
  BY DEF ResumeEffect, SameModule
<1>4. TargetMode' = TargetMode /\ TargetHart' = TargetHart /\ TargetDue' = TargetDue
  BY <1>2, <1>3, SameHartTold
<1>5. TargetMode = "halted" /\ TargetJob = "none" /\ TargetJob' = "none" /\ Resuming'
  BY <1>3 DEF TargetMode, TargetJob, Resuming
<1>6. Resuming \in BOOLEAN /\ Resuming' = TRUE
  BY <1>5 DEF Resuming
<1>7. cpu'.halt_request = FALSE
  <2>1. cpu'.halt_request \in BOOLEAN
    BY DEF ResumeEffect, HartState
  <2> QED
    BY <1>3, <2>1
<1>8. Target!AskResume
  BY <1>2, <1>3, <1>4, <1>5, <1>6, <1>7 DEF Target!AskResume, Target!work
<1> QED
  BY <1>8 DEF Target!Next

\* A reset of the hart resets the target.
LEMMA ResetTarget ==
    ASSUME HandshakeInv, S0Inv, HandshakeInv', S0Inv', ResetEffect
    PROVE  Target!Next
<1>1. /\ cpu \in HartState /\ dm \in ModuleState /\ ghost \in Ghost /\ HaltInv
  BY DEF HandshakeInv, SystemTypeOK, TypeOK
<1>2. /\ cpu' = [ResetState EXCEPT !.halt_request = cpu.debug_mode]
      /\ ~cpu'.debug_mode /\ cpu'.single_step = 0
      /\ ~dm.busy /\ ~Resuming /\ accessed = "none"
      /\ dm'.busy = dm.busy /\ dm'.halted = dm.halted
      /\ dm'.debug_rom_flags = dm.debug_rom_flags
      /\ dm'.dmdata = dm.dmdata /\ dm'.cmderr = dm.cmderr
      /\ ghost' = [ghost EXCEPT !.s0 = 0, !.stepping = "free"]
  BY DEF ResetEffect, SameModule
<1>3. ghost'.s0 = 0 /\ ghost'.command = ghost.command
  BY <1>1, <1>2 DEF Ghost
<1>4. TargetJob = "none" /\ TargetJob' = "none"
  BY <1>2 DEF TargetJob
<1>5. Resuming' = Resuming
  BY <1>2 DEF Resuming
<1>6. /\ TargetMode = "halted" <=> dm.halted
      /\ TargetMode = "running" <=> ~dm.halted /\ ~cpu.debug_mode
  BY DEF TargetMode
<1>7. TargetMode' = IF TargetMode = "halted" THEN TargetMode ELSE "running"
  BY <1>2, <1>6 DEF TargetMode
<1>8. cpu'.halt_request = (TargetMode # "running")
  <2>1. cpu'.halt_request = cpu.debug_mode
    BY <1>2 DEF ResetState
  <2>2. TargetMode # "running" <=> cpu.debug_mode
    BY <1>1, <1>2, <1>6 DEF HaltInv
  <2>3. cpu.debug_mode \in BOOLEAN
    BY <1>1 DEF HartState
  <2> QED
    BY <2>1, <2>2, <2>3
<1>9. TargetDue' = FALSE
  BY <1>2 DEF TargetDue
<1>10. (HandshakeInv /\ S0Inv => TargetHart = IF cpu.debug_mode THEN ParkedHart ELSE RunningHart)'
  BY HartTold, PTL
<1>11. TargetHart' = RunningHart'
  BY <1>2, <1>10
<1>12. /\ cpu'.pc = START_PC /\ cpu'.privilege = PRV_M /\ cpu'.regs["s1"] = 0
       /\ cpu'.dcsr = [cause |-> 0, prv |-> PRV_U, step |-> FALSE]
  BY <1>2 DEF ResetState, Reg
<1>13. TargetHart' = IF TargetMode = "halted" THEN [HartAtReset EXCEPT !.cause = 3] ELSE HartAtReset
  <2> DEFINE no == FALSE
             cause == IF dm.halted THEN 3 ELSE 0
  <2>1. cpu'.dcsr.cause = 0 /\ cpu'.dcsr.step = no
    BY <1>12
  <2>2. HartAtReset = [ pc |-> START_PC, prv |-> PRV_M, s0 |-> 0, s1 |-> 0, cause |-> 0, step |-> no ]
    BY DEF HartAtReset
  <2>3. TargetHart' =
          [ pc |-> cpu'.pc, prv |-> cpu'.privilege, s0 |-> ghost'.s0, s1 |-> cpu'.regs["s1"],
            cause |-> IF dm'.halted THEN 3 ELSE cpu'.dcsr.cause, step |-> cpu'.dcsr.step ]
    BY <1>11 DEF RunningHart, DCSR_CAUSE_DEBUGINT
  <2> HIDE DEF no
  <2>4. TargetHart' =
          [ pc |-> START_PC, prv |-> PRV_M, s0 |-> 0, s1 |-> 0, cause |-> cause, step |-> no ]
    BY <1>2, <1>3, <1>12, <2>1, <2>3
  <2> QED
    BY <1>6, <2>2, <2>4
<1>14. Target!Reset
  BY <1>2, <1>3, <1>4, <1>5, <1>7, <1>8, <1>9, <1>13 DEF Target!Reset, Target!work, Target!DEBUGINT
<1> QED
  BY <1>14 DEF Target!Next

\* The idle cycle that clears busy completes the target's command.
LEMMA CompletionTarget ==
    ASSUME HandshakeInv, S0Inv, HandshakeInv', S0Inv', CompletionEffect
    PROVE  Target!Next
<1>1. ghost \in Ghost
  BY DEF HandshakeInv, SystemTypeOK
<1>2. /\ cpu' = cpu /\ dm.busy /\ dm.completed /\ ~dm'.busy
      /\ dm'.halted = dm.halted /\ dm'.dmdata = dm.dmdata /\ dm'.cmderr = dm.cmderr
      /\ dm'.debug_rom_flags = dm.debug_rom_flags
      /\ ghost' = Opened(ghost, NoCommand)
  BY DEF CompletionEffect
<1>3. ghost'.s0 = ghost.s0 /\ ghost'.command = NoCommand
  BY <1>1, <1>2, OpenedAccount
<1>4. SameHart
  BY <1>2 DEF SameHart
<1>5. TargetMode' = TargetMode /\ TargetHart' = TargetHart /\ TargetDue' = TargetDue
  BY <1>2, <1>3, <1>4, SameHartTold
<1>6. TargetJob = "reported" /\ TargetJob' = "none"
  BY <1>2 DEF TargetJob
<1>7. Resuming' = Resuming /\ cpu'.halt_request = cpu.halt_request
  BY <1>2 DEF Resuming
<1>8. Target!Complete
  BY <1>2, <1>3, <1>5, <1>6, <1>7 DEF Target!Complete, Target!control
<1> QED
  BY <1>8 DEF Target!Next

\* A step of the hart, wherever it is.
LEMMA CoreStepTarget ==
    ASSUME KeepsProgramS0, HandshakeInv, S0Inv, MoveInv, HandshakeInv', S0Inv', CoreStep
    PROVE  Target!Next \/ UNCHANGED Target!vars
<1>1. SessionInv /\ cpu \in HartState
  BY DEF HandshakeInv, SystemTypeOK, TypeOK
<1>2. CASE cpu.debug_mode
  <2>1. InSession /\ (cpu.pc \in Handshake \cup {768, 2160} \/ cpu.pc \in Code)
    BY <1>1, <1>2 DEF SessionInv, InSession
  <2>2. CASE cpu.pc \in Handshake
    BY <2>1, <2>2, RomTarget
  <2>3. CASE cpu.pc = 768
    BY <2>1, <2>3, EnterCodeTarget
  <2>4. CASE cpu.pc = 2160
    BY <2>1, <2>4, LeaveTarget
  <2>5. CASE cpu.pc \in Assembled
    BY <2>1, <2>5, CsrCodeTarget, RegCodeTarget, PlainCodeTarget
  <2>6. CASE cpu.pc \in Buffered
    BY <2>1, <2>6, BufferedTarget
  <2> QED
    BY <2>1, <2>2, <2>3, <2>4, <2>5, <2>6 DEF Code
<1>3. CASE ~cpu.debug_mode /\ cpu.halt_request
  BY <1>3, HaltTarget
<1>4. CASE ~cpu.debug_mode /\ ~cpu.halt_request
  BY <1>4, ProgramTarget
<1> QED
  BY <1>2, <1>3, <1>4

\* The hart after its reset, under a module no one has activated, is the target's
\* initial state.
LEMMA InitTarget ==
    ASSUME SystemInit
    PROVE  Target!Init
<1>1. /\ cpu = ResetState /\ dm = InitModule /\ ghost = InitGhost
  BY DEF SystemInit, Init
<1>2. TargetMode = "running" /\ TargetJob = "none" /\ ghost.command = NoCommand
      /\ dm.dmdata = 0 /\ dm.cmderr = 0
  BY <1>1 DEF ResetState, InitModule, InitGhost, TargetMode, TargetJob, CMDERR_NONE
<1>3. TargetDue = FALSE
  BY <1>1 DEF ResetState, TargetDue
<1>4. cpu.halt_request = FALSE
  BY <1>1 DEF ResetState
<1>5. Resuming = FALSE
  BY <1>1 DEF InitModule, Resuming
<1>6. TargetHart = HartAtReset
  <2> DEFINE no == FALSE
  <2>1. ~cpu.debug_mode /\ ~dm.halted /\ cpu.pc = START_PC /\ cpu.privilege = PRV_M
        /\ cpu.regs["s0"] = 0 /\ cpu.regs["s1"] = 0
        /\ cpu.dcsr = [cause |-> 0, prv |-> PRV_U, step |-> no]
    BY <1>1 DEF ResetState, InitModule, Reg
  <2>2. HartAtReset = [ pc |-> START_PC, prv |-> PRV_M, s0 |-> 0, s1 |-> 0, cause |-> 0, step |-> no ]
    BY DEF HartAtReset
  <2> HIDE DEF no
  <2>3. cpu.dcsr.cause = 0 /\ cpu.dcsr.step = no
    BY <2>1
  <2>4. TargetHart =
          [ pc |-> cpu.pc, prv |-> cpu.privilege, s0 |-> cpu.regs["s0"], s1 |-> cpu.regs["s1"],
            cause |-> cpu.dcsr.cause, step |-> cpu.dcsr.step ]
    BY <2>1 DEF TargetHart
  <2> QED
    BY <2>1, <2>2, <2>3, <2>4
<1> QED
  BY <1>2, <1>3, <1>4, <1>5, <1>6 DEF Target!Init, Target!NONE

\* The refinement: behind the ROM's polling, the flags and the borrowed registers,
\* the debugger's accesses and the hart's steps are those of a debug target, if the
\* debugger's own code leaves s0 and dscratch0 alone.
THEOREM DebugTargetImplemented == KeepsProgramS0 => (SystemSpec => ImplementsTarget)
<1> SUFFICES ASSUME KeepsProgramS0
             PROVE  SystemSpec => ImplementsTarget
  OBVIOUS
<1>1. SystemInit => Target!Init
  BY InitTarget
<1>2. ASSUME HandshakeInv, S0Inv, MoveInv, HandshakeInv', S0Inv', [SystemNext]_vars
      PROVE  [Target!Next]_(Target!vars)
  <2>1. CASE CoreStep
    BY <1>2, <2>1, CoreStepTarget
  <2>2. CASE Debugger \/ RunTestIdle \/ UNCHANGED vars
    BY <1>2, <2>2, AccessKinds, AbstractTarget, UnnoticedTarget, ResumeTarget, ResetTarget,
       CompletionTarget
  <2> QED
    BY <1>2, <2>1, <2>2 DEF SystemNext
<1>3. HandshakeInv /\ S0Inv /\ MoveInv /\ HandshakeInv' /\ S0Inv' /\ [SystemNext]_vars
        => [Target!Next]_(Target!vars)
  BY <1>2
<1> QED
  BY <1>1, <1>3, HandshakeInvariant, S0Invariant, MoveInvariant, PTL
  DEF SystemSpec, ImplementsTarget, Target!Spec

=============================================================================
