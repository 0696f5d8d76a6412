------------------------------- MODULE Decoder -------------------------------
(***************************************************************************)
(* Instruction::decode of core/src/Instruction.cpp, and the encoders at    *)
(* the end of that file with which the debug module writes code.           *)
(*                                                                         *)
(* A throw of EXC_II and the code ILL are one: both end in the illegal     *)
(* instruction exception before anything has changed.                      *)
(***************************************************************************)
EXTENDS Words, Sequences

Illegal == [code |-> "ILL", immediate |-> {}, rs1 |-> {}, rs2 |-> {}, rd |-> {}]

\* The entry of a table of codes that starts at index 0.
Entry(table, i) == table[i + 1]

rd(inst)  == FIELD(inst, 7, 5)
rs1(inst) == FIELD(inst, 15, 5)
rs2(inst) == FIELD(inst, 20, 5)
funct3(inst) == Num(FIELD(inst, 12, 3))

-----------------------------------------------------------------------------
(* The 32-bit formats.                                                     *)

decode_type_R(inst) ==
    LET funct == 16 * Bit(inst, 25) + 8 * Bit(inst, 30) + funct3(inst)
    IN  [ Illegal EXCEPT
            !.rd = rd(inst), !.rs1 = rs1(inst), !.rs2 = rs2(inst),
            !.code = Entry(<< "ADD", "SLL", "SLT", "SLTU", "XOR", "SRL", "OR", "AND",
                              "SUB", "ILL", "ILL", "ILL", "ILL", "SRA", "ILL", "ILL",
                              "MUL", "MULH", "MULHSU", "MULHU", "DIV", "DIVU", "REM", "REMU",
                              "ILL", "ILL", "ILL", "ILL", "ILL", "ILL", "ILL", "ILL" >>, funct) ]

\* Mutant: bit 7 is taken for bit 4 of the offset, as in a store.
imm_B_AsStore(inst) ==
    SIGN_BIT(31 \in inst, 12) \cup Shl(FIELD(inst, 25, 6), 5) \cup FIELD(inst, 7, 5)

imm_B(inst) ==
    SIGN_BIT(31 \in inst, 12)
    \cup Shl(FIELD(inst, 7, 1), 11)
    \cup Shl(FIELD(inst, 25, 6), 5)
    \cup Shl(FIELD(inst, 8, 4), 1)

decode_type_B(inst) ==
    [ Illegal EXCEPT
        !.rs1 = rs1(inst), !.rs2 = rs2(inst), !.immediate = imm_B(inst),
        !.code = Entry(<<"BEQ", "BNE", "ILL", "ILL", "BLT", "BGE", "BLTU", "BGEU">>, funct3(inst)) ]

decode_type_U(inst) ==
    [ Illegal EXCEPT
        !.rd = rd(inst), !.immediate = Shl(FIELD(inst, 12, 20), 12),
        !.code = IF 5 \in inst THEN "LUI" ELSE "AUIPC" ]

imm_J(inst) ==
    SIGN_BIT(31 \in inst, 20)
    \cup Shl(FIELD(inst, 12, 8), 12)
    \cup Shl(FIELD(inst, 20, 1), 11)
    \cup Shl(FIELD(inst, 25, 6), 5)
    \cup Shl(FIELD(inst, 21, 4), 1)

decode_type_J(inst) ==
    [ Illegal EXCEPT !.rd = rd(inst), !.immediate = imm_J(inst), !.code = "JAL" ]

imm_S(inst) ==
    SIGN_BIT(31 \in inst, 11) \cup Shl(FIELD(inst, 25, 6), 5) \cup FIELD(inst, 7, 5)

decode_type_S(inst) ==
    [ Illegal EXCEPT
        !.rs1 = rs1(inst), !.rs2 = rs2(inst), !.immediate = imm_S(inst),
        !.code = Entry(<<"SB", "SH", "SW", "ILL", "ILL", "ILL", "ILL", "ILL">>, funct3(inst)) ]

imm_I(inst) == SIGN_BIT(31 \in inst, 11) \cup FIELD(inst, 20, 11)

decode_type_I_JALR(inst) ==
    [ Illegal EXCEPT
        !.rs1 = rs1(inst), !.rd = rd(inst), !.immediate = imm_I(inst), !.code = "JALR" ]

\* Only the right shifts mask their amount.
decode_type_I_arithm(inst) ==
    [ Illegal EXCEPT
        !.rs1 = rs1(inst), !.rd = rd(inst),
        !.immediate = IF funct3(inst) = 5 THEN imm_I(inst) \cap (0..4) ELSE imm_I(inst),
        !.code = Entry(<< "ADDI", "SLLI", "SLTI", "SLTIU", "XORI", "SRLI", "ORI", "ANDI",
                          "ADDI", "SLLI", "SLTI", "SLTIU", "XORI", "SRAI", "ORI", "ANDI" >>,
                       8 * Bit(inst, 30) + funct3(inst)) ]

decode_type_I_load(inst) ==
    [ Illegal EXCEPT
        !.rs1 = rs1(inst), !.rd = rd(inst), !.immediate = imm_I(inst),
        !.code = Entry(<<"LB", "LH", "LW", "ILL", "LBU", "LHU", "ILL", "ILL">>, funct3(inst)) ]

\* 0x30200073, 0x7b200073, 0x10500073, and opcode 0xf with funct3 0 or 1.
MATCH_MRET == {0, 1, 4, 5, 6, 21, 28, 29}
MATCH_DRET == {0, 1, 4, 5, 6, 21, 24, 25, 27, 28, 29, 30}
MATCH_WFI  == {0, 1, 4, 5, 6, 20, 22, 28}
IsFence(inst) == inst \cap (0..6 \cup 12..14) \in {0..3, 0..3 \cup {12}}

decode_type_I_system(inst) ==
    [ Illegal EXCEPT
        !.rs1 = rs1(inst), !.rd = rd(inst), !.immediate = FIELD(inst, 20, 12),
        !.code = IF inst = MATCH_MRET THEN "MRET"
                 ELSE IF inst = MATCH_DRET THEN "DRET"
                 ELSE IF IsFence(inst) \/ inst = MATCH_WFI THEN "NOP"
                 ELSE Entry(<< "ECALL",  "CSRRW", "CSRRS", "CSRRC", "ILL", "CSRRWI", "CSRRSI", "CSRRCI",
                               "EBREAK", "CSRRW", "CSRRS", "CSRRC", "ILL", "CSRRWI", "CSRRSI", "CSRRCI" >>,
                            8 * Bit(inst, 20) + funct3(inst)) ]

type_by_opcode(inst) ==
    Entry(<< "I_LOAD",  "INVALID", "INVALID", "I_SYSTEM", "I_ARITHM", "U",       "INVALID", "INVALID",
             "S",       "INVALID", "INVALID", "INVALID",  "R",        "U",       "INVALID", "INVALID",
             "INVALID", "INVALID", "INVALID", "INVALID",  "INVALID",  "INVALID", "INVALID", "INVALID",
             "B",       "I_JALR",  "INVALID", "J",        "I_SYSTEM", "INVALID", "INVALID", "INVALID" >>,
          Num(FIELD(inst, 2, 5)))

decode_basic(inst) ==
    LET type == type_by_opcode(inst)
    IN  CASE type = "R"        -> decode_type_R(inst)
          [] type = "I_JALR"   -> decode_type_I_JALR(inst)
          [] type = "I_ARITHM" -> decode_type_I_arithm(inst)
          [] type = "I_SYSTEM" -> decode_type_I_system(inst)
          [] type = "I_LOAD"   -> decode_type_I_load(inst)
          [] type = "S"        -> decode_type_S(inst)
          [] type = "B"        -> decode_type_B(inst)
          [] type = "U"        -> decode_type_U(inst)
          [] type = "J"        -> decode_type_J(inst)
          [] OTHER             -> Illegal

-----------------------------------------------------------------------------
(* The 16-bit formats.  Registers of three bits are x8 to x15.             *)

r1c(inst) == FIELD(inst, 7, 3) \cup {3}
r2c(inst) == FIELD(inst, 2, 3) \cup {3}
op(inst)  == Num(FIELD(inst, 0, 2))
funct3c(inst) == Num(FIELD(inst, 13, 3))

x0 == {}
ra == {0}
sp == {1}

decode_type_CR(inst) ==
    LET bit == 12 \in inst
        r1  == FIELD(inst, 7, 5)
        r2  == FIELD(inst, 2, 5)
    IN  IF r2 # x0
          THEN [Illegal EXCEPT !.rd = r1, !.rs1 = IF bit THEN r1 ELSE x0, !.rs2 = r2, !.code = "ADD"]
        ELSE IF r1 # x0
          THEN [Illegal EXCEPT !.rd = IF bit THEN ra ELSE x0, !.rs1 = r1, !.code = "JALR"]
        ELSE IF bit THEN [Illegal EXCEPT !.code = "EBREAK"]
        ELSE Illegal

\* The six bits of CI, and their sign extension.
imm6(inst) == FIELD(inst, 2, 5) \cup Put(inst, 12, 5)
imm6_signed(inst) == SIGN_BIT(12 \in inst, 5) \cup imm6(inst)

imm_ADDI16SP(inst) ==
    LET imm == imm6(inst)
    IN  Put(imm, 4, 4) \cup Put(imm, 0, 5) \cup Put(imm, 3, 6) \cup Put(imm, 1, 7)
        \cup Put(imm, 2, 8) \cup SIGN_BIT(5 \in imm, 9)

imm_LWSP(inst) ==
    LET imm == imm6(inst)
    IN  Put(imm, 2, 2) \cup Put(imm, 3, 3) \cup Put(imm, 4, 4) \cup Put(imm, 5, 5)
        \cup Put(imm, 0, 6) \cup Put(imm, 1, 7)

decode_type_CI(inst) ==
    LET r  == FIELD(inst, 7, 5)
        op3 == <<op(inst), funct3c(inst)>>
        RdI(code, imm, source) ==
            [Illegal EXCEPT !.code = code, !.rd = r, !.rs1 = source, !.immediate = imm]
    IN  CASE op3 = <<1, 0>> -> RdI("ADDI", imm6_signed(inst), r)
          [] op3 = <<1, 2>> -> RdI("ADDI", imm6_signed(inst), x0)
          [] op3 = <<1, 3>> /\ imm6(inst) # {} /\ r = sp -> RdI("ADDI", imm_ADDI16SP(inst), sp)
          [] op3 = <<1, 3>> /\ imm6(inst) # {} /\ r # sp -> RdI("LUI", Shl(imm6_signed(inst), 12), x0)
          [] op3 = <<2, 0>> /\ imm6(inst) # {} /\ 12 \notin inst -> RdI("SLLI", imm6(inst), r)
          [] op3 = <<2, 2>> -> RdI("LW", imm_LWSP(inst), sp)
          [] OTHER -> Illegal

imm_SWSP(inst) ==
    LET imm == FIELD(inst, 7, 6)
    IN  Put(imm, 2, 2) \cup Put(imm, 3, 3) \cup Put(imm, 4, 4) \cup Put(imm, 5, 5)
        \cup Put(imm, 0, 6) \cup Put(imm, 1, 7)

decode_type_CSS(inst) ==
    [Illegal EXCEPT !.code = "SW", !.rs2 = FIELD(inst, 2, 5), !.rs1 = sp, !.immediate = imm_SWSP(inst)]

imm_ADDI4SPN(inst) ==
    LET imm == FIELD(inst, 5, 8)
    IN  Put(imm, 1, 2) \cup Put(imm, 0, 3) \cup Put(imm, 6, 4) \cup Put(imm, 7, 5)
        \cup Put(imm, 2, 6) \cup Put(imm, 3, 7) \cup Put(imm, 4, 8) \cup Put(imm, 5, 9)

decode_type_CIW(inst) ==
    IF FIELD(inst, 2, 3) = {} /\ FIELD(inst, 5, 8) = {}
      THEN Illegal
      ELSE [Illegal EXCEPT !.code = "ADDI", !.rd = r2c(inst), !.rs1 = sp, !.immediate = imm_ADDI4SPN(inst)]

\* The offset of C.LW and C.SW.
imm_CL(inst) ==
    LET imm == FIELD(inst, 5, 2) \cup Shl(FIELD(inst, 10, 3), 2)
    IN  Put(imm, 1, 2) \cup Put(imm, 2, 3) \cup Put(imm, 3, 4) \cup Put(imm, 4, 5) \cup Put(imm, 0, 6)

decode_type_CL(inst) ==
    [Illegal EXCEPT !.code = "LW", !.rs1 = r1c(inst), !.rd = r2c(inst), !.immediate = imm_CL(inst)]

imm_CJ(inst) ==
    LET imm == FIELD(inst, 2, 11)
    IN  Put(imm, 1, 1) \cup Put(imm, 2, 2) \cup Put(imm, 3, 3) \cup Put(imm, 9, 4)
        \cup Put(imm, 0, 5) \cup Put(imm, 5, 6) \cup Put(imm, 4, 7) \cup Put(imm, 7, 8)
        \cup Put(imm, 8, 9) \cup Put(imm, 6, 10) \cup SIGN_BIT(10 \in imm, 11)

decode_type_CJ(inst) ==
    [Illegal EXCEPT !.code = "JAL", !.rd = IF funct3c(inst) = 1 THEN ra ELSE x0, !.immediate = imm_CJ(inst)]

imm_CB(inst) ==
    LET imm == FIELD(inst, 2, 5) \cup Shl(FIELD(inst, 10, 3), 5)
    IN  Put(imm, 1, 1) \cup Put(imm, 2, 2) \cup Put(imm, 5, 3) \cup Put(imm, 6, 4)
        \cup Put(imm, 0, 5) \cup Put(imm, 3, 6) \cup Put(imm, 4, 7) \cup SIGN_BIT(7 \in imm, 8)

\* C.SUB, C.XOR, C.OR, C.AND; C.SRLI, C.SRAI, C.ANDI, the immediate of all three unsigned.
decode_type_CA(inst) ==
    LET funct2 == Num(FIELD(inst, 10, 2))
        rdc == [Illegal EXCEPT !.rd = r1c(inst), !.rs1 = r1c(inst)]
    IN  IF 12 \in inst /\ funct2 # 2 THEN Illegal
        ELSE IF funct2 = 3
          THEN [rdc EXCEPT !.rs2 = r2c(inst),
                           !.code = Entry(<<"SUB", "XOR", "OR", "AND">>, Num(FIELD(inst, 5, 2)))]
          ELSE [rdc EXCEPT !.immediate = imm6(inst), !.code = Entry(<<"SRLI", "SRAI", "ANDI">>, funct2)]

decode_type_CS_B(inst) ==
    IF op(inst) = 0
      THEN [ Illegal EXCEPT !.code = "SW", !.rs1 = r1c(inst), !.rs2 = r2c(inst), !.immediate = imm_CL(inst) ]
    ELSE IF funct3c(inst) = 4 THEN decode_type_CA(inst)
    ELSE [ Illegal EXCEPT !.code = IF funct3c(inst) = 6 THEN "BEQ" ELSE "BNE",
                          !.rs1 = r1c(inst), !.immediate = imm_CB(inst) ]

type_by_opcode_c(inst) ==
    Entry(<< "CIW", "INVALID", "CL", "INVALID", "INVALID", "INVALID", "CS_B", "INVALID",
             "CI",  "CJ",      "CI", "CI",      "CS_B",    "CJ",      "CS_B", "CS_B",
             "CI",  "INVALID", "CI", "INVALID", "CR",      "INVALID", "CSS",  "INVALID" >>,
          8 * op(inst) + funct3c(inst))

decode_compressed(inst) ==
    LET type == type_by_opcode_c(inst)
    IN  CASE type = "CR"   -> decode_type_CR(inst)
          [] type = "CI"   -> decode_type_CI(inst)
          [] type = "CSS"  -> decode_type_CSS(inst)
          [] type = "CIW"  -> decode_type_CIW(inst)
          [] type = "CL"   -> decode_type_CL(inst)
          [] type = "CS_B" -> decode_type_CS_B(inst)
          [] type = "CJ"   -> decode_type_CJ(inst)
          [] OTHER         -> Illegal

is_c_ext(inst) == ~({0, 1} \subseteq inst)

decode(inst) == IF is_c_ext(inst) THEN decode_compressed(inst) ELSE decode_basic(inst)
=============================================================================
