------------------------- MODULE InstructionsProofs -------------------------
(***************************************************************************)
(* For every word: the decoder's immediate is insn_t's, and the encoders'  *)
(* code is decoded as what it was made of.                                 *)
(*                                                                         *)
(* Sets of bit positions make both questions first-order: one lemma per    *)
(* format compares two sets, and the theorem selects the format.           *)
(*                                                                         *)
(* Then for every program: what registers and pc hold, where jumps and     *)
(* branches land, what divisions and shifts give, in registers of 32 bits  *)
(* as well as in the narrower ones that a model checker can enumerate.     *)
(***************************************************************************)
EXTENDS Instructions, TLAPS

-----------------------------------------------------------------------------
(* One lemma for each format that scatters its immediate.                  *)

\* The formats of the basic set gather what the accessors of insn_t gather.
LEMMA BasicFormats ==
    ASSUME NEW w \in Word
    PROVE  /\ imm_I(w) = i_imm(w)
           /\ imm_S(w) = s_imm(w)
           /\ imm_B(w) = sb_imm(w)
           /\ imm_J(w) = uj_imm(w)
           /\ Shl(FIELD(w, 12, 20), 12) = u_imm(w)
           /\ FIELD(w, 20, 12) = csr(w)
<1>1. imm_I(w) = i_imm(w)   BY DEF imm_I, i_imm, xs, FIELD, SIGN_BIT
<1>2. imm_S(w) = s_imm(w)   BY DEF imm_S, s_imm, xs, x, FIELD, SIGN_BIT, Shl
<1>3. imm_B(w) = sb_imm(w)  BY DEF imm_B, sb_imm, xs, x, FIELD, SIGN_BIT, Shl
<1>4. imm_J(w) = uj_imm(w)  BY DEF imm_J, uj_imm, xs, x, FIELD, SIGN_BIT, Shl
<1>5. Shl(FIELD(w, 12, 20), 12) = u_imm(w)
  BY DEF u_imm, xs, FIELD, SIGN_BIT, Shl, Word
<1>6. FIELD(w, 20, 12) = csr(w)  BY DEF csr, x
<1> QED BY <1>1, <1>2, <1>3, <1>4, <1>5, <1>6

\* The amount of a shift, when the reserved bits of its word are clear.
LEMMA ShiftAmounts ==
    ASSUME NEW w \in Word
    PROVE  /\ 25 \notin w => imm_I(w) \cap (0..4) = shamt(w)
           /\ w \cap (25..31) = {} => imm_I(w) = shamt(w)
<1>1. 25 \notin w => imm_I(w) \cap (0..4) = shamt(w)
  BY DEF imm_I, shamt, x, FIELD, SIGN_BIT
<1>2. ASSUME w \cap (25..31) = {} PROVE imm_I(w) = shamt(w)
  <2>1. \A i \in 25..31 : i \notin w  BY <1>2
  <2> QED BY <2>1 DEF imm_I, shamt, x, FIELD, SIGN_BIT
<1> QED BY <1>1, <1>2

\* The formats of the compressed set.
LEMMA CompressedFormats ==
    ASSUME NEW w \in Word
    PROVE  /\ imm6(w) = rvc_zimm(w)
           /\ imm6_signed(w) = rvc_imm(w)
           /\ imm_ADDI16SP(w) = rvc_addi16sp_imm(w)
           /\ imm_LWSP(w) = rvc_lwsp_imm(w)
           /\ imm_SWSP(w) = rvc_swsp_imm(w)
           /\ imm_ADDI4SPN(w) = rvc_addi4spn_imm(w)
           /\ imm_CL(w) = rvc_lw_imm(w)
           /\ imm_CJ(w) = rvc_j_imm(w)
           /\ imm_CB(w) = rvc_b_imm(w)
<1>1. imm6(w) = rvc_zimm(w)
  BY DEF imm6, rvc_zimm, x, FIELD, Shl, Put
<1>2. imm6_signed(w) = rvc_imm(w)
  BY DEF imm6_signed, imm6, rvc_imm, xs, x, FIELD, SIGN_BIT, Shl, Put
<1>3. imm_ADDI16SP(w) = rvc_addi16sp_imm(w)
  BY DEF imm_ADDI16SP, imm6, rvc_addi16sp_imm, xs, x, FIELD, SIGN_BIT, Shl, Put
<1>4. imm_LWSP(w) = rvc_lwsp_imm(w)
  BY DEF imm_LWSP, imm6, rvc_lwsp_imm, x, FIELD, Shl, Put
<1>5. imm_SWSP(w) = rvc_swsp_imm(w)
  BY DEF imm_SWSP, rvc_swsp_imm, x, FIELD, Shl, Put
<1>6. imm_ADDI4SPN(w) = rvc_addi4spn_imm(w)
  BY DEF imm_ADDI4SPN, rvc_addi4spn_imm, x, FIELD, Shl, Put
<1>7. imm_CL(w) = rvc_lw_imm(w)
  BY DEF imm_CL, rvc_lw_imm, x, FIELD, Shl, Put
<1>8. imm_CJ(w) = rvc_j_imm(w)
  BY DEF imm_CJ, rvc_j_imm, xs, x, FIELD, SIGN_BIT, Shl, Put
<1>9. imm_CB(w) = rvc_b_imm(w)
  BY DEF imm_CB, rvc_b_imm, xs, x, FIELD, SIGN_BIT, Shl, Put
<1> QED BY <1>1, <1>2, <1>3, <1>4, <1>5, <1>6, <1>7, <1>8, <1>9

-----------------------------------------------------------------------------
(* The decoder selects the format insn_t's user selects.                   *)

LEMMA BasicImmediates ==
    ASSUME NEW w \in Word, ~IsReservedShift(w), decode_basic(w).code # "ILL"
    PROVE  decode_basic(w).immediate = BasicImmediate(w)
<1> DEFINE T == type_by_opcode(w)
<1> USE BasicFormats
<1>1. CASE T = "R"
  BY <1>1 DEF decode_basic, BasicImmediate, decode_type_R, Illegal
<1>2. CASE T = "I_JALR"
  BY <1>2 DEF decode_basic, BasicImmediate, decode_type_I_JALR, Illegal
<1>3. CASE T = "I_ARITHM"
  <2>1. decode_basic(w).immediate = IF funct3(w) = 5 THEN imm_I(w) \cap (0..4) ELSE imm_I(w)
    BY <1>3 DEF decode_basic, decode_type_I_arithm, Illegal
  <2>2. BasicImmediate(w) = IF funct3(w) \in {1, 5} THEN shamt(w) ELSE i_imm(w)
    BY <1>3 DEF BasicImmediate
  <2>3. /\ funct3(w) = 1 => w \cap (25..31) = {}
        /\ funct3(w) = 5 => 25 \notin w
    BY <1>3 DEF IsReservedShift
  <2> QED BY <2>1, <2>2, <2>3, ShiftAmounts
<1>4. CASE T = "I_SYSTEM"
  BY <1>4 DEF decode_basic, BasicImmediate, decode_type_I_system, Illegal
<1>5. CASE T = "I_LOAD"
  BY <1>5 DEF decode_basic, BasicImmediate, decode_type_I_load, Illegal
<1>6. CASE T = "S"
  BY <1>6 DEF decode_basic, BasicImmediate, decode_type_S, Illegal
<1>7. CASE T = "B"
  BY <1>7 DEF decode_basic, BasicImmediate, decode_type_B, Illegal
<1>8. CASE T = "U"
  BY <1>8 DEF decode_basic, BasicImmediate, decode_type_U, Illegal
<1>9. CASE T = "J"
  BY <1>9 DEF decode_basic, BasicImmediate, decode_type_J, Illegal
<1>10. CASE T \notin {"R", "I_JALR", "I_ARITHM", "I_SYSTEM", "I_LOAD", "S", "B", "U", "J"}
  BY <1>10 DEF decode_basic, Illegal
<1> QED BY <1>1, <1>2, <1>3, <1>4, <1>5, <1>6, <1>7, <1>8, <1>9, <1>10

LEMMA CompressedImmediates ==
    ASSUME NEW w \in Word, ~IsCompressedAnd(w), decode_compressed(w).code # "ILL"
    PROVE  decode_compressed(w).immediate = CompressedImmediate(w)
<1> DEFINE T == type_by_opcode_c(w)
<1> USE CompressedFormats
<1>1. CASE T = "CR"
  BY <1>1 DEF decode_compressed, CompressedImmediate, decode_type_CR, Illegal
<1>2. CASE T = "CI"
  BY <1>2 DEF decode_compressed, CompressedImmediate, decode_type_CI, Illegal
<1>3. CASE T = "CSS"
  BY <1>3 DEF decode_compressed, CompressedImmediate, decode_type_CSS, Illegal
<1>4. CASE T = "CIW"
  BY <1>4 DEF decode_compressed, CompressedImmediate, decode_type_CIW, Illegal
<1>5. CASE T = "CL"
  BY <1>5 DEF decode_compressed, CompressedImmediate, decode_type_CL, Illegal
<1>6. CASE T = "CS_B"
  <2>1. decode_compressed(w) = decode_type_CS_B(w)
    BY <1>6 DEF decode_compressed
  <2>2. CompressedImmediate(w) =
           IF op(w) = 0 THEN rvc_lw_imm(w)
           ELSE IF funct3c(w) # 4 THEN rvc_b_imm(w)
           ELSE IF 10 \in w /\ 11 \in w THEN {}
           ELSE rvc_zimm(w)
    BY <1>6 DEF CompressedImmediate
  <2>3. CASE op(w) = 0 \/ funct3c(w) # 4
    BY <2>1, <2>2, <2>3 DEF decode_type_CS_B, Illegal
  <2>4. CASE op(w) # 0 /\ funct3c(w) = 4
    <3>1. decode_compressed(w) = decode_type_CA(w)
      BY <2>1, <2>4 DEF decode_type_CS_B
    <3>2. Num(FIELD(w, 10, 2)) = Bit(w, 10) + 2 * Bit(w, 11)
      BY DEF Num, Bit, FIELD
    <3>3. Num(FIELD(w, 10, 2)) = 3 <=> 10 \in w /\ 11 \in w
      BY <3>2 DEF Bit
    <3>4. decode_type_CA(w).immediate =
            IF Num(FIELD(w, 10, 2)) = 3 THEN {} ELSE imm6(w)
      BY <3>1 DEF decode_type_CA, Illegal
    <3> QED BY <2>2, <2>4, <3>1, <3>3, <3>4
  <2> QED BY <2>3, <2>4
<1>7. CASE T = "CJ"
  BY <1>7 DEF decode_compressed, CompressedImmediate, decode_type_CJ, Illegal
<1>8. CASE T \notin {"CR", "CI", "CSS", "CIW", "CL", "CS_B", "CJ"}
  BY <1>8 DEF decode_compressed, Illegal
<1> QED BY <1>1, <1>2, <1>3, <1>4, <1>5, <1>6, <1>7, <1>8

\* The immediate of every word is the one insn_t reads.
THEOREM EveryImmediateAgrees == \A w \in Word : ImmediateAgrees(w)
BY BasicImmediates, CompressedImmediates DEF ImmediateAgrees, decode

-----------------------------------------------------------------------------
(* The encoders.                                                           *)

\* A field that agrees with a set of bits, bit by bit, is that set.
LEMMA FieldIs ==
    ASSUME NEW w \in Word, NEW b \in 0..31, NEW n \in 1..31, NEW r \in SUBSET (0..n-1),
           \A i \in 0..n-1 : i + b \in w <=> i \in r
    PROVE  FIELD(w, b, n) = r
BY DEF FIELD

\* The opcode and funct3 of a word of the basic set, from its bits.
LEMMA OpcodeBits ==
    ASSUME NEW w \in Word
    PROVE  /\ Num(FIELD(w, 2, 5)) =
                Bit(w, 2) + 2 * Bit(w, 3) + 4 * Bit(w, 4) + 8 * Bit(w, 5) + 16 * Bit(w, 6)
           /\ funct3(w) = Bit(w, 12) + 2 * Bit(w, 13) + 4 * Bit(w, 14)
<1>1. Num(FIELD(w, 2, 5)) =
         Bit(w, 2) + 2 * Bit(w, 3) + 4 * Bit(w, 4) + 8 * Bit(w, 5) + 16 * Bit(w, 6)
  BY DEF Num, Bit, FIELD
<1>2. funct3(w) = Bit(w, 12) + 2 * Bit(w, 13) + 4 * Bit(w, 14)
  BY DEF funct3, Num, Bit, FIELD
<1> QED BY <1>1, <1>2

\* The word of an lw decodes to that lw.
LEMMA LoadsDecode ==
    ASSUME NEW r \in SUBSET (0..4), NEW s \in SUBSET (0..4), NEW v \in Word
    PROVE  decode(lw(r, s, v)) =
             [code |-> "LW", rd |-> r, rs1 |-> s, rs2 |-> {}, immediate |-> Extended(v, 12)]
<1> DEFINE w == lw(r, s, v)
<1>1. w \in Word
  BY DEF lw, bits, MATCH_LW, FIELD, Shl, Word
<1>2. /\ 0 \in w /\ 1 \in w /\ 2 \notin w /\ 3 \notin w /\ 4 \notin w /\ 5 \notin w /\ 6 \notin w
      /\ 12 \notin w /\ 13 \in w /\ 14 \notin w
  BY DEF lw, bits, MATCH_LW, FIELD, Shl
<1>3. rd(w) = r
  <2>1. \A i \in 0..4 : i + 7 \in w <=> i \in r  BY DEF lw, bits, MATCH_LW, FIELD, Shl
  <2> QED BY <1>1, <2>1, FieldIs DEF rd
<1>4. rs1(w) = s
  <2>1. \A i \in 0..4 : i + 15 \in w <=> i \in s  BY DEF lw, bits, MATCH_LW, FIELD, Shl
  <2> QED BY <1>1, <2>1, FieldIs DEF rs1
<1>5. imm_I(w) = Extended(v, 12)
  BY DEF lw, bits, MATCH_LW, FIELD, Shl, imm_I, Extended, SIGN_BIT, Word
<1> HIDE DEF w
<1>6. type_by_opcode(w) = "I_LOAD"
  BY <1>1, <1>2, OpcodeBits DEF type_by_opcode, Entry, Bit
<1>7. funct3(w) = 2
  BY <1>1, <1>2, OpcodeBits DEF Bit
<1>8. decode(w) = decode_type_I_load(w)
  BY <1>2, <1>6 DEF decode, is_c_ext, decode_basic
<1>9. decode(w) = [Illegal EXCEPT !.rs1 = s, !.rd = r, !.immediate = Extended(v, 12), !.code = "LW"]
  BY <1>3, <1>4, <1>5, <1>7, <1>8 DEF decode_type_I_load, Entry
<1> QED BY <1>9 DEF Illegal, w

\* The word of an sw decodes to that sw.
LEMMA StoresDecode ==
    ASSUME NEW r \in SUBSET (0..4), NEW s \in SUBSET (0..4), NEW v \in Word
    PROVE  LET i == decode(sw(r, s, v))
           IN  i.code = "SW" /\ i.rs2 = r /\ i.rs1 = s /\ i.immediate = Extended(v, 12)
<1> DEFINE w == sw(r, s, v)
<1>1. w \in Word
  BY DEF sw, bits, MATCH_SW, FIELD, Shl, Word
<1>2. /\ 0 \in w /\ 1 \in w /\ 2 \notin w /\ 3 \notin w /\ 4 \notin w /\ 5 \in w /\ 6 \notin w
      /\ 12 \notin w /\ 13 \in w /\ 14 \notin w
  BY DEF sw, bits, MATCH_SW, FIELD, Shl
<1>3. rs2(w) = r
  <2>1. \A i \in 0..4 : i + 20 \in w <=> i \in r  BY DEF sw, bits, MATCH_SW, FIELD, Shl
  <2> QED BY <1>1, <2>1, FieldIs DEF rs2
<1>4. rs1(w) = s
  <2>1. \A i \in 0..4 : i + 15 \in w <=> i \in s  BY DEF sw, bits, MATCH_SW, FIELD, Shl
  <2> QED BY <1>1, <2>1, FieldIs DEF rs1
<1>5. imm_S(w) = Extended(v, 12)
  BY DEF sw, bits, MATCH_SW, FIELD, Shl, imm_S, Extended, SIGN_BIT, Word
<1> HIDE DEF w
<1>6. type_by_opcode(w) = "S"
  BY <1>1, <1>2, OpcodeBits DEF type_by_opcode, Entry, Bit
<1>7. funct3(w) = 2
  BY <1>1, <1>2, OpcodeBits DEF Bit
<1>8. decode(w) = decode_type_S(w)
  BY <1>2, <1>6 DEF decode, is_c_ext, decode_basic
<1>9. decode(w) = [Illegal EXCEPT !.rs1 = s, !.rs2 = r, !.immediate = Extended(v, 12), !.code = "SW"]
  BY <1>3, <1>4, <1>5, <1>7, <1>8 DEF decode_type_S, Entry
<1> QED BY <1>9 DEF Illegal, w

\* The word of a jal with an even offset decodes to that jal.
LEMMA JumpsDecode ==
    ASSUME NEW r \in SUBSET (0..4), NEW v \in Word, 0 \notin v
    PROVE  LET i == decode(jal(r, v))
           IN  i.code = "JAL" /\ i.rd = r /\ i.immediate = Extended(v, 21)
<1> DEFINE w == jal(r, v)
<1>1. w \in Word
  BY DEF jal, bits, MATCH_JAL, FIELD, Shl, Put, Word
<1>2. 0 \in w /\ 1 \in w /\ 2 \in w /\ 3 \in w /\ 4 \notin w /\ 5 \in w /\ 6 \in w
  BY DEF jal, bits, MATCH_JAL, FIELD, Shl, Put
<1>3. rd(w) = r
  <2>1. \A i \in 0..4 : i + 7 \in w <=> i \in r  BY DEF jal, bits, MATCH_JAL, FIELD, Shl, Put
  <2> QED BY <1>1, <2>1, FieldIs DEF rd
<1>4. imm_J(w) = Extended(v, 21)
  BY DEF jal, bits, MATCH_JAL, FIELD, Shl, Put, imm_J, Extended, SIGN_BIT, Word
<1> HIDE DEF w
<1>5. type_by_opcode(w) = "J"
  BY <1>1, <1>2, OpcodeBits DEF type_by_opcode, Entry, Bit
<1>6. decode(w) = decode_type_J(w)
  BY <1>2, <1>5 DEF decode, is_c_ext, decode_basic
<1> QED BY <1>3, <1>4, <1>6 DEF decode_type_J, Illegal, w

\* A system word with funct3 1 or 2 accesses a CSR.
LEMMA CsrWords ==
    ASSUME NEW w \in Word, 0 \in w, 1 \in w, 2 \notin w, 3 \notin w, 4 \in w, 5 \in w, 6 \in w,
           funct3(w) \in {1, 2}
    PROVE  /\ decode(w).code = IF funct3(w) = 1 THEN "CSRRW" ELSE "CSRRS"
           /\ decode(w).rd = rd(w)
           /\ decode(w).rs1 = rs1(w)
           /\ decode(w).immediate = FIELD(w, 20, 12)
<1> DEFINE table == << "ECALL",  "CSRRW", "CSRRS", "CSRRC", "ILL", "CSRRWI", "CSRRSI", "CSRRCI",
                       "EBREAK", "CSRRW", "CSRRS", "CSRRC", "ILL", "CSRRWI", "CSRRSI", "CSRRCI" >>
           code == Entry(table, 8 * Bit(w, 20) + funct3(w))
<1>1. type_by_opcode(w) = "I_SYSTEM"
  BY OpcodeBits DEF type_by_opcode, Entry, Bit
<1>2. 12 \in w \/ 13 \in w
  BY OpcodeBits DEF Bit
<1>3. w # MATCH_MRET /\ w # MATCH_DRET /\ w # MATCH_WFI
  BY <1>2 DEF MATCH_MRET, MATCH_DRET, MATCH_WFI
<1>4. ~IsFence(w)
  <2>1. 4 \in w \cap (0..6 \cup 12..14)  OBVIOUS
  <2>2. 4 \notin 0..3 /\ 4 \notin 0..3 \cup {12}  OBVIOUS
  <2> QED BY <2>1, <2>2 DEF IsFence
<1>5. decode(w) = decode_type_I_system(w)
  BY <1>1 DEF decode, is_c_ext, decode_basic
<1>6. code = IF funct3(w) = 1 THEN "CSRRW" ELSE "CSRRS"
  <2>1. CASE funct3(w) = 1  BY <2>1 DEF Entry, Bit
  <2>2. CASE funct3(w) = 2  BY <2>2 DEF Entry, Bit
  <2> QED BY <2>1, <2>2
<1>7. decode(w) = [ Illegal EXCEPT !.rs1 = rs1(w), !.rd = rd(w),
                                   !.immediate = FIELD(w, 20, 12), !.code = code ]
  BY <1>3, <1>4, <1>5 DEF decode_type_I_system
<1> HIDE DEF code
<1> QED BY <1>6, <1>7 DEF Illegal

\* The words of csrw and csrr decode to those accesses.
LEMMA CsrAccessesDecode ==
    ASSUME NEW r \in SUBSET (0..4), NEW n \in SUBSET (0..11)
    PROVE  LET i == decode(csrw(r, n))
               j == decode(csrr(r, n))
           IN  /\ i.code = "CSRRW" /\ i.rd = {} /\ i.rs1 = r /\ i.immediate = n
               /\ j.code = "CSRRS" /\ j.rd = r /\ j.rs1 = {} /\ j.immediate = n
<1>1. /\ decode(csrw(r, n)).code = "CSRRW" /\ decode(csrw(r, n)).rd = {}
      /\ decode(csrw(r, n)).rs1 = r /\ decode(csrw(r, n)).immediate = n
  <2> DEFINE w == csrw(r, n)
  <2>1. w \in Word  BY DEF csrw, MATCH_CSRRW, Shl, Word
  <2>2. /\ 0 \in w /\ 1 \in w /\ 2 \notin w /\ 3 \notin w /\ 4 \in w /\ 5 \in w /\ 6 \in w
        /\ 12 \in w /\ 13 \notin w /\ 14 \notin w
    BY DEF csrw, MATCH_CSRRW, Shl
  <2>3. \A i \in 0..4 : i + 7 \notin w  BY DEF csrw, MATCH_CSRRW, Shl
  <2>4. \A i \in 0..4 : i + 15 \in w <=> i \in r  BY DEF csrw, MATCH_CSRRW, Shl
  <2>5. \A i \in 0..11 : i + 20 \in w <=> i \in n  BY DEF csrw, MATCH_CSRRW, Shl
  <2> HIDE DEF w
  <2>6. rd(w) = {}  BY <2>3 DEF rd, FIELD
  <2>7. rs1(w) = r  BY <2>1, <2>4, FieldIs DEF rs1
  <2>8. FIELD(w, 20, 12) = n  BY <2>1, <2>5, FieldIs
  <2>9. funct3(w) = 1  BY <2>1, <2>2, OpcodeBits DEF Bit
  <2> QED BY <2>1, <2>2, <2>6, <2>7, <2>8, <2>9, CsrWords DEF w
<1>2. /\ decode(csrr(r, n)).code = "CSRRS" /\ decode(csrr(r, n)).rd = r
      /\ decode(csrr(r, n)).rs1 = {} /\ decode(csrr(r, n)).immediate = n
  <2> DEFINE w == csrr(r, n)
  <2>1. w \in Word  BY DEF csrr, MATCH_CSRRS, Shl, Word
  <2>2. /\ 0 \in w /\ 1 \in w /\ 2 \notin w /\ 3 \notin w /\ 4 \in w /\ 5 \in w /\ 6 \in w
        /\ 12 \notin w /\ 13 \in w /\ 14 \notin w
    BY DEF csrr, MATCH_CSRRS, Shl
  <2>3. \A i \in 0..4 : i + 7 \in w <=> i \in r  BY DEF csrr, MATCH_CSRRS, Shl
  <2>4. \A i \in 0..4 : i + 15 \notin w  BY DEF csrr, MATCH_CSRRS, Shl
  <2>5. \A i \in 0..11 : i + 20 \in w <=> i \in n  BY DEF csrr, MATCH_CSRRS, Shl
  <2> HIDE DEF w
  <2>6. rd(w) = r  BY <2>1, <2>3, FieldIs DEF rd
  <2>7. rs1(w) = {}  BY <2>4 DEF rs1, FIELD
  <2>8. FIELD(w, 20, 12) = n  BY <2>1, <2>5, FieldIs
  <2>9. funct3(w) = 2  BY <2>1, <2>2, OpcodeBits DEF Bit
  <2> QED BY <2>1, <2>2, <2>6, <2>7, <2>8, <2>9, CsrWords DEF w
<1> QED BY <1>1, <1>2

\* The word ebreak decodes to EBREAK.
LEMMA BreakpointDecodes == decode(ebreak).code = "EBREAK"
<1> DEFINE w == ebreak
<1>1. w \in Word  BY DEF ebreak, MATCH_EBREAK, Word
<1>2. /\ 0 \in w /\ 1 \in w /\ 2 \notin w /\ 3 \notin w /\ 4 \in w /\ 5 \in w /\ 6 \in w
      /\ 12 \notin w /\ 13 \notin w /\ 14 \notin w /\ 20 \in w /\ 21 \notin w /\ 22 \notin w
  BY DEF ebreak, MATCH_EBREAK
<1>3. w # MATCH_MRET /\ w # MATCH_DRET /\ w # MATCH_WFI
  BY <1>2 DEF MATCH_MRET, MATCH_DRET, MATCH_WFI
<1> HIDE DEF w
<1>4. ~IsFence(w)
  <2>1. 4 \in w \cap (0..6 \cup 12..14)  BY <1>2
  <2>2. 4 \notin 0..3 /\ 4 \notin 0..3 \cup {12}  OBVIOUS
  <2> QED BY <2>1, <2>2 DEF IsFence
<1>5. type_by_opcode(w) = "I_SYSTEM"
  BY <1>1, <1>2, OpcodeBits DEF type_by_opcode, Entry, Bit
<1>6. funct3(w) = 0  BY <1>1, <1>2, OpcodeBits DEF Bit
<1>7. decode(w) = decode_type_I_system(w)
  BY <1>2, <1>5 DEF decode, is_c_ext, decode_basic
<1>8. decode_type_I_system(w).code = "EBREAK"
  BY <1>2, <1>3, <1>4, <1>6 DEF decode_type_I_system, Entry, Bit, Illegal
<1> QED BY <1>7, <1>8 DEF w

\* What the encoders make of any registers and any number is decoded as that.
THEOREM EveryEncodingAgrees ==
    \A r \in SUBSET (0..4), s \in SUBSET (0..4), v \in Word : EncodersAgree(r, s, v)
<1> SUFFICES ASSUME NEW r \in SUBSET (0..4), NEW s \in SUBSET (0..4), NEW v \in Word
             PROVE  EncodersAgree(r, s, v)
  OBVIOUS
<1>0. \A n \in SUBSET (0..11) :
         LET i == decode(csrw(r, n))
             j == decode(csrr(r, n))
         IN  /\ i.code = "CSRRW" /\ i.rd = {} /\ i.rs1 = r /\ i.immediate = n
             /\ j.code = "CSRRS" /\ j.rd = r /\ j.rs1 = {} /\ j.immediate = n
  BY CsrAccessesDecode
<1> DEFINE n == v \cap (0..11)
<1>1. LET i == decode(csrw(r, n))
          j == decode(csrr(r, n))
      IN  /\ i.code = "CSRRW" /\ i.rd = {} /\ i.rs1 = r /\ i.immediate = n
          /\ j.code = "CSRRS" /\ j.rd = r /\ j.rs1 = {} /\ j.immediate = n
  <2>1. n \in SUBSET (0..11)  OBVIOUS
  <2> QED BY <2>1, <1>0
<1>2. 0 \notin v => LET i == decode(jal(r, v))
                   IN  i.code = "JAL" /\ i.rd = r /\ i.immediate = Extended(v, 21)
  BY JumpsDecode
<1>3. decode(lw(r, s, v)) =
         [code |-> "LW", rd |-> r, rs1 |-> s, rs2 |-> {}, immediate |-> Extended(v, 12)]
  BY LoadsDecode
<1>4. LET i == decode(sw(r, s, v))
      IN  i.code = "SW" /\ i.rs2 = r /\ i.rs1 = s /\ i.immediate = Extended(v, 12)
  BY StoresDecode
<1> QED BY <1>1, <1>2, <1>3, <1>4, BreakpointDecodes, Zenon DEF EncodersAgree

-----------------------------------------------------------------------------
(* The two invariants of the run, for every program.                       *)

InstIsWord == inst \in Word \cup {NoWord}

LEMMA Fetched == InstrSpec => []InstIsWord
<1>1. InstrInit => InstIsWord
  BY DEF InstrInit, InstIsWord
<1>2. InstIsWord /\ [InstrNext]_instrVars => InstIsWord'
  <2> SUFFICES ASSUME InstIsWord, [InstrNext]_instrVars PROVE InstIsWord'
    OBVIOUS
  <2> USE DEF InstIsWord
  <2>1. CASE Fetch  BY <2>1, InstructionsAssumption DEF Fetch
  <2>2. CASE FetchFaults  BY <2>2 DEF FetchFaults
  <2>3. CASE ExecuteRegister  BY <2>3 DEF ExecuteRegister, Completes
  <2>4. CASE ExecuteImmediate  BY <2>4 DEF ExecuteImmediate, Completes
  <2>5. CASE ExecuteUpper  BY <2>5 DEF ExecuteUpper, Completes
  <2>6. CASE ExecuteJAL  BY <2>6 DEF ExecuteJAL, Completes
  <2>7. CASE ExecuteJALR  BY <2>7 DEF ExecuteJALR, Completes
  <2>8. CASE ExecuteBranch  BY <2>8 DEF ExecuteBranch, CompletesQuietly
  <2>9. CASE ExecuteRead  BY <2>9 DEF ExecuteRead, Completes
  <2>10. CASE ExecuteStore  BY <2>10 DEF ExecuteStore, CompletesQuietly
  <2>11. CASE Leave  BY <2>11 DEF Leave
  <2>12. CASE UNCHANGED instrVars  BY <2>12 DEF instrVars
  <2> QED BY <2>1, <2>2, <2>3, <2>4, <2>5, <2>6, <2>7, <2>8, <2>9, <2>10, <2>11, <2>12 DEF InstrNext
<1> QED BY <1>1, <1>2, PTL DEF InstrSpec

\* Whatever is fetched, its immediate is the one insn_t reads.
THEOREM ImmediatesDecoded == InstrSpec => []ImmediatesAgree
<1>1. InstIsWord => ImmediatesAgree
  BY EveryImmediateAgrees DEF InstIsWord, ImmediatesAgree
<1> QED BY <1>1, Fetched, PTL

\* The code of the debug module is decoded as the instructions meant.
THEOREM CodeDecoded == InstrSpec => []CodeIsDecoded
<1>1. InstIsWord => CodeIsDecoded
  <2> SUFFICES ASSUME InstIsWord, inst # NoWord
               PROVE  EncodersAgree(rd(inst), rs1(inst), FIELD(inst, 11, 21))
    BY DEF CodeIsDecoded
  <2>1. rd(inst) \in SUBSET (0..4) /\ rs1(inst) \in SUBSET (0..4)
    BY DEF rd, rs1, FIELD
  <2>2. FIELD(inst, 11, 21) \in Word
    BY DEF FIELD, Word
  <2> QED BY <2>1, <2>2, EveryEncodingAgrees
<1> QED BY <1>1, Fetched, PTL

-----------------------------------------------------------------------------
(* Registers and numbers.                                                  *)

\* Powers of two, as far as the width of a word.
LEMMA Powers ==
    \A k \in 0..31 : Pow2(k) \in Nat \ {0} /\ Pow2(k + 1) \in Nat \ {0} /\ Pow2(k + 1) = 2 * Pow2(k)
BY SMT DEF Pow2

\* A register holds the numbers below 2 H, and the immediate's sign is H.
LEMMA Widths ==
    /\ XLEN \in 2..32
    /\ Pow2(XLEN - 1) \in Nat /\ Pow2(XLEN - 1) >= 2
    /\ Pow2(XLEN) = 2 * Pow2(XLEN - 1)
<1>1. XLEN \in 2..32
  BY InstructionsAssumption
<1>2. XLEN - 2 \in 0..31 /\ XLEN - 1 \in 0..31 /\ (XLEN - 2) + 1 = XLEN - 1 /\ (XLEN - 1) + 1 = XLEN
  BY <1>1
<1>3. /\ Pow2(XLEN - 2) \in Nat \ {0} /\ Pow2(XLEN - 1) \in Nat /\ Pow2(XLEN) \in Nat
      /\ Pow2(XLEN - 1) = 2 * Pow2(XLEN - 2) /\ Pow2(XLEN) = 2 * Pow2(XLEN - 1)
  BY <1>2, Powers
<1>4. Pow2(XLEN - 1) >= 2
  BY <1>3
<1> QED
  BY <1>1, <1>3, <1>4

\* The remainder by 2 H of a number of either sign.
LEMMA Wrapped ==
    ASSUME NEW H \in Nat \ {0}
    PROVE  /\ \A n \in Int : n % (2 * H) \in 0 .. 2 * H - 1
           /\ \A v \in 0 .. 2 * H - 1 : v % (2 * H) = v
           /\ \A n \in -H .. H - 1 : n % (2 * H) = IF n < 0 THEN n + 2 * H ELSE n
<1>1. ASSUME NEW n \in Int PROVE n % (2 * H) \in 0 .. 2 * H - 1
  OBVIOUS
<1>2. ASSUME NEW v \in 0 .. 2 * H - 1 PROVE v % (2 * H) = v
  OBVIOUS
<1>3. ASSUME NEW n \in -H .. H - 1 PROVE n % (2 * H) = IF n < 0 THEN n + 2 * H ELSE n
  OBVIOUS
<1> QED
  BY <1>1, <1>2, <1>3

LEMMA Values ==
    /\ Value = 0 .. Pow2(XLEN) - 1
    /\ INT_MIN = -Pow2(XLEN - 1)
    /\ 0 \in Value /\ 1 \in Value
    /\ \A n \in Int : Trunc(n) \in Value
    /\ \A v \in Value : Trunc(v) = v
    /\ \A v \in Value : Signed(v) \in INT_MIN .. -INT_MIN - 1
    /\ \A n \in INT_MIN .. -INT_MIN - 1 : Signed(Trunc(n)) = n
<1> DEFINE H == Pow2(XLEN - 1)
<1>1. H \in Nat /\ H >= 2 /\ Pow2(XLEN) = 2 * H
  BY Widths
<1>2. /\ Value = 0 .. 2 * H - 1 /\ Value = 0 .. Pow2(XLEN) - 1
      /\ INT_MIN = -H
      /\ \A n : Trunc(n) = n % (2 * H)
      /\ \A v : Signed(v) = IF v >= H THEN v - 2 * H ELSE v
  BY <1>1 DEF Value, INT_MIN, Trunc, Signed
<1> HIDE DEF H
<1>3. 0 \in Value /\ 1 \in Value /\ -INT_MIN - 1 = H - 1
  BY <1>1, <1>2
<1>8. /\ \A n \in Int : n % (2 * H) \in 0 .. 2 * H - 1
      /\ \A v \in 0 .. 2 * H - 1 : v % (2 * H) = v
      /\ \A n \in -H .. H - 1 : n % (2 * H) = IF n < 0 THEN n + 2 * H ELSE n
  <2>1. H \in Nat \ {0}
    BY <1>1
  <2> QED
    BY <2>1, Wrapped
<1>4. \A n \in Int : Trunc(n) \in Value
  BY <1>2, <1>8
<1>5. \A v \in Value : Trunc(v) = v
  BY <1>2, <1>8
<1>6. \A v \in Value : Signed(v) \in INT_MIN .. -INT_MIN - 1
  BY <1>1, <1>2
<1>7. ASSUME NEW n \in INT_MIN .. -INT_MIN - 1 PROVE Signed(Trunc(n)) = n
  <2>1. n \in -H .. H - 1
    BY <1>2, <1>3
  <2>2. Trunc(n) = IF n < 0 THEN n + 2 * H ELSE n
    BY <1>2, <1>8, <2>1
  <2> QED
    BY <1>1, <1>2, <2>1, <2>2
<1> QED
  BY <1>2, <1>3, <1>4, <1>5, <1>6, <1>7, H = Pow2(XLEN - 1) DEF H

LEMMA BitRange == \A word, i : Bit(word, i) \in 0..1
BY DEF Bit

\* The fields of a decoded instruction are numbers of registers.
LEMMA DecodedFields ==
    ASSUME NEW w
    PROVE  /\ decode(w).rd \in SUBSET (0..4)
           /\ decode(w).rs1 \in SUBSET (0..4)
           /\ decode(w).rs2 \in SUBSET (0..4)
<1> DEFINE Named(i) == i.rd \in SUBSET (0..4) /\ i.rs1 \in SUBSET (0..4) /\ i.rs2 \in SUBSET (0..4)
<1>1. /\ \A i : FIELD(w, i, 5) \in SUBSET (0..4)
      /\ \A i : FIELD(w, i, 3) \cup {3} \in SUBSET (0..4)
      /\ {} \in SUBSET (0..4) /\ {0} \in SUBSET (0..4) /\ {1} \in SUBSET (0..4)
  BY DEF FIELD
<1>2. /\ rd(w) \in SUBSET (0..4) /\ rs1(w) \in SUBSET (0..4) /\ rs2(w) \in SUBSET (0..4)
      /\ r1c(w) \in SUBSET (0..4) /\ r2c(w) \in SUBSET (0..4)
      /\ x0 \in SUBSET (0..4) /\ ra \in SUBSET (0..4) /\ sp \in SUBSET (0..4)
  BY <1>1 DEF rd, rs1, rs2, r1c, r2c, x0, ra, sp
<1>3. Named(Illegal)
  BY <1>1 DEF Illegal
<1>4. /\ Named(decode_type_R(w)) /\ Named(decode_type_I_JALR(w)) /\ Named(decode_type_I_arithm(w))
      /\ Named(decode_type_I_system(w)) /\ Named(decode_type_I_load(w)) /\ Named(decode_type_S(w))
      /\ Named(decode_type_B(w)) /\ Named(decode_type_U(w)) /\ Named(decode_type_J(w))
  BY <1>1, <1>2
     DEF Illegal, decode_type_R, decode_type_I_JALR, decode_type_I_arithm, decode_type_I_system,
         decode_type_I_load, decode_type_S, decode_type_B, decode_type_U, decode_type_J
<1>5. Named(decode_basic(w))
  BY <1>3, <1>4, Zenon DEF decode_basic
<1>6. Named(decode_type_CR(w))
  BY <1>1, <1>2 DEF Illegal, decode_type_CR
<1>7. Named(decode_type_CI(w))
  BY <1>1, <1>2 DEF Illegal, decode_type_CI
<1>8. Named(decode_type_CSS(w)) /\ Named(decode_type_CIW(w)) /\ Named(decode_type_CL(w)) /\ Named(decode_type_CJ(w))
  BY <1>1, <1>2 DEF Illegal, decode_type_CSS, decode_type_CIW, decode_type_CL, decode_type_CJ
<1>9. Named(decode_type_CA(w))
  BY <1>1, <1>2 DEF Illegal, decode_type_CA
<1>10. Named(decode_type_CS_B(w))
  BY <1>1, <1>2, <1>9 DEF Illegal, decode_type_CS_B
<1>11. Named(decode_compressed(w))
  BY <1>3, <1>6, <1>7, <1>8, <1>10, Zenon DEF decode_compressed
<1> QED
  BY <1>5, <1>11 DEF decode

LEMMA Registers ==
    /\ 0 \in RegNo
    /\ \A w : /\ Reg(decode(w).rd) \in RegNo
              /\ Reg(decode(w).rs1) \in RegNo
              /\ Reg(decode(w).rs2) \in RegNo
<1>1. x0 \in SUBSET (0..4)
  BY DEF x0
<1>2. RegOf[x0] = 0
  BY <1>1, InstructionsAssumption
<1> QED
  BY <1>1, <1>2, DecodedFields DEF Reg, RegNo

\* A word of the lowest k bits, k up to 5, is a number below 2^k.
LEMMA NumRange ==
    ASSUME NEW word
    PROVE  /\ Num(word) \in 0..31
           /\ word \subseteq 0..3 => Num(word) \in 0..15
           /\ word \subseteq 0..2 => Num(word) \in 0..7
           /\ word \subseteq 0..1 => Num(word) \in 0..3
           /\ word \subseteq 0..0 => Num(word) \in 0..1
           /\ word = {} => Num(word) = 0
<1>1. /\ Bit(word, 0) \in 0..1 /\ Bit(word, 1) \in 0..1 /\ Bit(word, 2) \in 0..1 /\ Bit(word, 3) \in 0..1
      /\ Bit(word, 4) \in 0..1
  BY BitRange
<1>2. /\ word \subseteq 0..3 => Bit(word, 4) = 0
      /\ word \subseteq 0..2 => Bit(word, 3) = 0 /\ Bit(word, 4) = 0
      /\ word \subseteq 0..1 => Bit(word, 2) = 0 /\ Bit(word, 3) = 0 /\ Bit(word, 4) = 0
      /\ word \subseteq 0..0 => Bit(word, 1) = 0 /\ Bit(word, 2) = 0 /\ Bit(word, 3) = 0 /\ Bit(word, 4) = 0
      /\ word = {} => Bit(word, 0) = 0 /\ Bit(word, 1) = 0 /\ Bit(word, 2) = 0 /\ Bit(word, 3) = 0 /\ Bit(word, 4) = 0
  BY DEF Bit
<1> QED
  BY <1>1, <1>2 DEF Num

\* The widths of a register, and those of its numbers without the sign.
Width == {1, 2, 3, 4, 7, 8, 15, 16, 31, 32}

\* The same for a word: of its eight groups of four bits, those from bit k on are 0.
LEMMA UnsignedRange ==
    ASSUME NEW k \in Width, NEW word \in SUBSET (0 .. k - 1)
    PROVE  Unsigned(word) \in 0 .. Pow2(k) - 1
<1> DEFINE G(i) == Num(FIELD(word, i, 4))
<1>1. ASSUME NEW i \in 0..28
      PROVE  /\ G(i) \in 0..15
             /\ k = i + 3 => G(i) \in 0..7
             /\ k = i + 2 => G(i) \in 0..3
             /\ k = i + 1 => G(i) \in 0..1
             /\ k <= i => G(i) = 0
  <2>1. /\ FIELD(word, i, 4) \subseteq 0..3
        /\ k = i + 3 => FIELD(word, i, 4) \subseteq 0..2
        /\ k = i + 2 => FIELD(word, i, 4) \subseteq 0..1
        /\ k = i + 1 => FIELD(word, i, 4) \subseteq 0..0
        /\ k <= i => FIELD(word, i, 4) = {}
    BY DEF FIELD, Width
  <2> QED
    BY <2>1, NumRange
<1>2. Unsigned(word) =
        G(0) * Pow2(0) + G(4) * Pow2(4) + G(8) * Pow2(8) + G(12) * Pow2(12)
          + G(16) * Pow2(16) + G(20) * Pow2(20) + G(24) * Pow2(24) + G(28) * Pow2(28)
  BY DEF Unsigned
<1> HIDE DEF G
<1>3. /\ G(0) \in 0..15 /\ G(4) \in 0..15 /\ G(8) \in 0..15 /\ G(12) \in 0..15
      /\ G(16) \in 0..15 /\ G(20) \in 0..15 /\ G(24) \in 0..15 /\ G(28) \in 0..15
  BY <1>1
<1>4. /\ k <= 4  => G(4) = 0
      /\ k <= 8  => G(8) = 0
      /\ k <= 12 => G(12) = 0
      /\ k <= 16 => G(16) = 0
      /\ k <= 20 => G(20) = 0
      /\ k <= 24 => G(24) = 0
      /\ k <= 28 => G(28) = 0
  BY <1>1
<1>5. /\ k = 1  => G(0) \in 0..1
      /\ k = 2  => G(0) \in 0..3
      /\ k = 3  => G(0) \in 0..7
      /\ k = 7  => G(4) \in 0..7
      /\ k = 15 => G(12) \in 0..7
      /\ k = 31 => G(28) \in 0..7
  BY <1>1
<1>6. /\ Pow2(0) = 1 /\ Pow2(4) = 16 /\ Pow2(8) = 256 /\ Pow2(12) = 4096 /\ Pow2(16) = 65536
      /\ Pow2(20) = 1048576 /\ Pow2(24) = 16777216 /\ Pow2(28) = 268435456
      /\ Pow2(15) = 32768 /\ Pow2(31) = 2147483648 /\ Pow2(32) = 4294967296
  BY SMT DEF Pow2
<1>7. Unsigned(word) =
         G(0) + 16 * G(4) + 256 * G(8) + 4096 * G(12)
           + 65536 * G(16) + 1048576 * G(20) + 16777216 * G(24) + 268435456 * G(28)
  BY <1>2, <1>3, <1>6, SMT
<1>8. CASE k \in {1, 2, 3, 4, 7, 8}
  BY <1>2, <1>3, <1>4, <1>5, <1>8, SMT DEF Pow2
<1>9. CASE k \in {15, 16, 31, 32}
  <2> DEFINE U == Unsigned(word)
             P == Pow2(k)
  <2>1. /\ G(0) \in Int /\ 0 <= G(0) /\ G(0) <= 15 /\ G(4) \in Int /\ 0 <= G(4) /\ G(4) <= 15
        /\ G(8) \in Int /\ 0 <= G(8) /\ G(8) <= 15 /\ G(12) \in Int /\ 0 <= G(12) /\ G(12) <= 15
        /\ G(16) \in Int /\ 0 <= G(16) /\ G(16) <= 15 /\ G(20) \in Int /\ 0 <= G(20) /\ G(20) <= 15
        /\ G(24) \in Int /\ 0 <= G(24) /\ G(24) <= 15 /\ G(28) \in Int /\ 0 <= G(28) /\ G(28) <= 15
    BY <1>3
  <2>2. /\ k = 15 => G(12) <= 7
        /\ k = 31 => G(28) <= 7
    BY <1>5
  <2>3. /\ k \in {15, 16} => G(16) = 0 /\ G(20) = 0 /\ G(24) = 0 /\ G(28) = 0
    BY <1>4
  <2>4. /\ k = 15 => P = 32768
        /\ k = 16 => P = 65536
        /\ k = 31 => P = 2147483648
        /\ k = 32 => P = 4294967296
    BY <1>6, SMT
  <2>5. U = G(0) + 16 * G(4) + 256 * G(8) + 4096 * G(12)
              + 65536 * G(16) + 1048576 * G(20) + 16777216 * G(24) + 268435456 * G(28)
    BY <1>7, SMT
  <2> HIDE DEF U, P
  <2>6. P \in Int /\ U \in Int /\ 0 <= U /\ U <= P - 1
    <3>1. CASE k \in {15, 16}
      <4>1. U = G(0) + 16 * G(4) + 256 * G(8) + 4096 * G(12)
        BY <2>1, <2>3, <2>5, <3>1, SMT
      <4> QED
        BY <2>1, <2>2, <2>4, <3>1, <4>1, SMT
    <3>2. CASE k \in {31, 32}
      BY <2>1, <2>2, <2>4, <2>5, <3>2, SMT
    <3> QED
      BY <1>9, <3>1, <3>2
  <2>7. U \in 0 .. P - 1
    BY <2>6
  <2> QED
    BY <2>7 DEF U, P
<1> QED
  BY <1>8, <1>9 DEF Width

\* An immediate is cut to a number of the width of a register.
LEMMA Immediates == \A word : Imm(word) \in Value
<1> SUFFICES ASSUME NEW word
             PROVE  Imm(word) \in Value
  OBVIOUS
<1> DEFINE low == word \cap (0 .. XLEN - 2)
<1>1. XLEN - 1 \in Width /\ low \in SUBSET (0 .. (XLEN - 1) - 1)
  BY InstructionsAssumption DEF Width
<1>2. Unsigned(low) \in 0 .. Pow2(XLEN - 1) - 1
  BY <1>1, UnsignedRange
<1>3. Imm(word) = Unsigned(low) + (IF 31 \in word THEN Pow2(XLEN - 1) ELSE 0)
  BY DEF Imm
<1> DEFINE H == Pow2(XLEN - 1)
<1>4. H \in Nat /\ Value = 0 .. 2 * H - 1
  BY Widths, Values
<1> HIDE DEF low
<1>5. Unsigned(low) \in 0 .. H - 1 /\ Imm(word) = Unsigned(low) + (IF 31 \in word THEN H ELSE 0)
  BY <1>2, <1>3
<1> HIDE DEF H
<1> QED
  BY <1>4, <1>5

\* A number of a register has the bits of one.
LEMMA RegisterBits ==
    ASSUME NEW a, NEW b, NEW word \in SUBSET (RegBits(a) \cup RegBits(b))
    PROVE  Unsigned(word) \in Value
<1>1. XLEN \in Width /\ word \in SUBSET (0 .. XLEN - 1)
  BY InstructionsAssumption DEF Width, RegBits
<1> QED
  BY <1>1, UnsignedRange, Values

\* The factor of a shift.
LEMMA Scales == \A b \in Value : Pow2(b % XLEN) \in Nat \ {0}
<1> SUFFICES ASSUME NEW b \in Value
             PROVE  Pow2(b % XLEN) \in Nat \ {0}
  OBVIOUS
<1>1. b \in Int
  BY Values, Widths
<1>2. b % XLEN \in 0..31
  BY <1>1, Widths
<1> QED
  BY <1>2, Powers

\* The quotient of two numbers, rounded down, by the definition of \div.
LEMMA Quotient ==
    ASSUME NEW n \in Nat, NEW d \in Nat \ {0}
    PROVE  /\ n \div d \in 0..n
           /\ n - d * (n \div d) \in 0 .. d - 1
           /\ d * (n \div d) = (n \div d) * d
OBVIOUS

\* Division rounds towards zero: the quotient fits but for INT_MIN by -1, and what is left is
\* smaller than the divisor and has the sign of the dividend.
LEMMA TruncDivExact ==
    ASSUME NEW n \in INT_MIN .. -INT_MIN - 1, NEW d \in INT_MIN .. -INT_MIN - 1, d # 0
    PROVE  /\ TruncDiv(n, d) \in INT_MIN .. -INT_MIN
           /\ n # INT_MIN \/ d # -1 => TruncDiv(n, d) \in INT_MIN .. -INT_MIN - 1
           /\ n - d * TruncDiv(n, d) \in INT_MIN .. -INT_MIN - 1
           /\ Divides(n, d, TruncDiv(n, d), n - d * TruncDiv(n, d))
<1> DEFINE N == Magnitude(n)
           D == Magnitude(d)
           Q == N \div D
           R == N - D * Q
<1>1. /\ N \in Nat /\ D \in Nat \ {0}
      /\ N = (IF n < 0 THEN -n ELSE n) /\ D = (IF d < 0 THEN -d ELSE d)
      /\ INT_MIN \in Int /\ INT_MIN <= -2 /\ N \in 0 .. -INT_MIN /\ D \in 1 .. -INT_MIN
  BY Widths DEF INT_MIN, Magnitude
<1>2. Q \in 0..N /\ R \in 0 .. D - 1 /\ D * Q = Q * D /\ N = D * Q + R
  <2> HIDE DEF N, D
  <2>1. Q \in 0..N /\ N - D * Q \in 0 .. D - 1 /\ D * Q = Q * D
    BY <1>1, Quotient
  <2> HIDE DEF Q
  <2>2. D * Q \in Int /\ N \in Int /\ R = N - D * Q
    BY <1>1, <2>1
  <2> HIDE DEF R
  <2> QED
    BY <2>1, <2>2
<1>3. D = 1 \/ Q < N \/ N = 0
  <2>1. ASSUME D >= 2, Q = N, N >= 1 PROVE FALSE
    <3> HIDE DEF N, D
    <3>1. Q \in Nat
      BY <1>1, <1>2
    <3> HIDE DEF Q
    <3>2. D * Q >= 2 * Q
      BY <1>1, <2>1, <3>1
    <3> QED
      BY <1>1, <1>2, <2>1, <3>1, <3>2
  <2> HIDE DEF N, D, Q
  <2> QED
    BY <1>1, <1>2, <2>1
<1>4. TruncDiv(n, d) = IF (n < 0) # (d < 0) THEN -Q ELSE Q
  BY DEF TruncDiv
<1> HIDE DEF N, D, Q
<1>5. /\ n >= 0 /\ d > 0 => n - d * Q = R
      /\ n >= 0 /\ d < 0 => n - d * (-Q) = R
      /\ n < 0 /\ d > 0 => n - d * (-Q) = -R
      /\ n < 0 /\ d < 0 => n - d * Q = -R
  BY <1>1, <1>2
<1>6. /\ TruncDiv(n, d) \in Int
      /\ n - d * TruncDiv(n, d) = IF n < 0 THEN -R ELSE R
  BY <1>1, <1>2, <1>4, <1>5
<1> HIDE DEF R
<1>7. n - d * TruncDiv(n, d) \in INT_MIN .. -INT_MIN - 1
  BY <1>1, <1>2, <1>6
<1>8. n = TruncDiv(n, d) * d + (n - d * TruncDiv(n, d))
  BY <1>6
<1>9. Magnitude(n - d * TruncDiv(n, d)) < Magnitude(d)
  BY <1>1, <1>2, <1>6 DEF Magnitude
<1>10. (n - d * TruncDiv(n, d)) * n >= 0
  <2>1. CASE n < 0
    <3>1. (-R) * n = R * (-n)
      BY <1>2
    <3>2. R \in Nat /\ -n \in Nat
      BY <1>1, <1>2, <2>1
    <3> QED
      BY <1>6, <2>1, <3>1, <3>2
  <2>2. CASE n >= 0
    BY <1>1, <1>2, <1>6, <2>2
  <2> QED
    BY <1>1, <2>1, <2>2
<1>11. TruncDiv(n, d) \in INT_MIN .. -INT_MIN
  BY <1>1, <1>2, <1>4
<1>12. n # INT_MIN \/ d # -1 => TruncDiv(n, d) \in INT_MIN .. -INT_MIN - 1
  <2>1. CASE Q < N \/ N = 0
    BY <1>1, <1>2, <1>4, <2>1
  <2>2. CASE D = 1 /\ n # INT_MIN
    BY <1>1, <1>2, <1>4, <2>2
  <2>3. CASE D = 1 /\ n = INT_MIN /\ d # -1
    <3>1. d = 1
      BY <1>1, <2>3
    <3> QED
      BY <1>1, <1>2, <1>4, <2>3, <3>1
  <2> QED
    BY <1>3, <2>1, <2>2, <2>3
<1> QED
  BY <1>7, <1>8, <1>9, <1>10, <1>11, <1>12 DEF Divides

\* A shift of a signed number to the right rounds down, and its result fits.
LEMMA ShiftExact ==
    ASSUME NEW n \in INT_MIN .. -INT_MIN - 1, NEW scale \in Nat \ {0}
    PROVE  /\ n \div scale \in INT_MIN .. -INT_MIN - 1
           /\ (n \div scale) * scale <= n
           /\ n < (n \div scale + 1) * scale
<1>1. INT_MIN \in Int /\ INT_MIN <= -2
  BY Widths DEF INT_MIN
<1>2. n \div scale \in Int /\ n - scale * (n \div scale) \in 0 .. scale - 1
  BY <1>1
<1>3. n \div scale \in INT_MIN .. -INT_MIN - 1
  BY <1>1
<1>4. (n \div scale) * scale = scale * (n \div scale)
  BY <1>2
<1>5. (n \div scale + 1) * scale = scale * (n \div scale) + scale
  BY <1>2
<1> QED
  BY <1>1, <1>2, <1>3, <1>4, <1>5

\* Every operation gives a number of the width of a register.
LEMMA OperationTyped ==
    ASSUME NEW code \in RegisterCode \cup ImmediateCode, NEW a \in Value, NEW b \in Value
    PROVE  Operation(code, a, b) \in Value
<1> DEFINE M == Pow2(XLEN)
<1>1. /\ M \in Nat \ {0} /\ Value = 0 .. M - 1
      /\ a \in 0 .. M - 1 /\ b \in 0 .. M - 1 /\ a \in Nat /\ b \in Nat
      /\ Signed(a) \in INT_MIN .. -INT_MIN - 1 /\ Signed(b) \in INT_MIN .. -INT_MIN - 1
      /\ INT_MIN \in Int
  <2>1. M \in Nat \ {0} /\ Value = 0 .. M - 1
    <3>1. Pow2(XLEN) \in Nat \ {0}
      BY Widths
    <3> QED
      BY <3>1 DEF Value
  <2>2. Signed(a) \in INT_MIN .. -INT_MIN - 1 /\ Signed(b) \in INT_MIN .. -INT_MIN - 1
    BY Values
  <2>3. INT_MIN \in Int
    BY Widths DEF INT_MIN
  <2> HIDE DEF M
  <2>4. a \in 0 .. M - 1 /\ b \in 0 .. M - 1 /\ a \in Nat /\ b \in Nat
    BY <2>1
  <2> QED
    BY <2>1, <2>2, <2>3, <2>4
<1>2. Pow2(b % XLEN) \in Nat \ {0}
  BY Scales
<1>3. CASE code \in {"ADD", "ADDI", "SUB", "MUL"}
  <2>1. a + b \in Int /\ a - b \in Int /\ a * b \in Int
    BY <1>1
  <2> QED
    BY <1>3, <2>1, Values DEF Operation
<1>4. CASE code \in {"SLL", "SLLI", "SRA", "SRAI"}
  <2>1. a * Pow2(b % XLEN) \in Int
    BY <1>1, <1>2
  <2>2. Signed(a) \div Pow2(b % XLEN) \in Int
    BY <1>1, <1>2
  <2> QED
    BY <1>4, <2>1, <2>2, Values DEF Operation, ShiftLeft, ShiftRightArith
<1>5. CASE code \in {"SRL", "SRLI"}
  <2>1. a \div Pow2(b % XLEN) \in 0..a
    BY <1>1, <1>2
  <2>2. 0..a \subseteq Value
    BY <1>1
  <2>3. ShiftRight(a, b) \in Value
    BY <2>1, <2>2 DEF ShiftRight
  <2> QED
    BY <1>5, <2>3 DEF Operation
<1>6. CASE code \in {"SLT", "SLTI", "SLTU", "SLTIU"}
  BY <1>6, Values DEF Operation, Flag
<1>7. CASE code \in {"XOR", "XORI", "OR", "ORI", "AND", "ANDI"}
  <2>1. /\ (Bits(a) \ Bits(b)) \cup (Bits(b) \ Bits(a)) \in SUBSET (Bits(a) \cup Bits(b))
        /\ Bits(a) \cup Bits(b) \in SUBSET (Bits(a) \cup Bits(b))
        /\ Bits(a) \cap Bits(b) \in SUBSET (Bits(a) \cup Bits(b))
    OBVIOUS
  <2> QED
    BY <1>7, <2>1, RegisterBits DEF Operation
<1>8. CASE code \in {"MULH", "MULHSU", "MULHU"}
  <2> HIDE DEF M
  <2>1. (a * b) \div M \in 0 .. M - 1
    BY <1>1
  <2>2. Operation(code, a, b) = (a * b) \div M
    BY <1>8 DEF Operation, M
  <2> QED
    BY <1>1, <2>1, <2>2
<1>9. CASE code = "DIV"
  <2>1. Signed(b) # 0 => TruncDiv(Signed(a), Signed(b)) \in Int
    BY <1>1, TruncDivExact
  <2> QED
    BY <1>9, <2>1, Values DEF Operation, Div
<1>10. CASE code = "REM"
  <2>1. Signed(b) # 0 => Signed(a) - Signed(b) * TruncDiv(Signed(a), Signed(b)) \in Int
    BY <1>1, TruncDivExact
  <2> QED
    BY <1>10, <2>1, Values DEF Operation, Rem
<1>11. CASE code \in {"DIVU", "REMU"}
  <2>1. b # 0 => a \div b \in 0..a /\ a % b \in 0 .. b - 1
    BY <1>1
  <2>2. Divu(a, b) \in Value /\ Remu(a, b) \in Value
    BY <2>1, Values, Widths DEF Divu, Remu, Value
  <2> QED
    BY <1>11, <2>2 DEF Operation
<1> QED
  BY <1>3, <1>4, <1>5, <1>6, <1>7, <1>8, <1>9, <1>10, <1>11 DEF RegisterCode, ImmediateCode

-----------------------------------------------------------------------------
(* The steps.                                                              *)

LEMMA Lengths == Length \in {2, 4}
BY DEF Length

\* An instruction leaves a number in every register, 0 in x0, and pc a number.
LEMMA CompletesTyped ==
    ASSUME InstrTypeOK, NEW v \in Value, NEW at \in Int, Completes(v, at)
    PROVE  /\ InstrTypeOK'
           /\ pc' = Trunc(at + Length)
           /\ Reg(Decoded.rd) # 0 => regs'[Reg(Decoded.rd)] = v
<1>1. Reg(Decoded.rd) \in RegNo /\ 0 \in RegNo
  BY Registers DEF Decoded
<1>2. regs' = [regs EXCEPT ![Reg(Decoded.rd)] = v, ![0] = 0]
  BY DEF Completes
<1>3. regs' \in [RegNo -> Value] /\ regs'[0] = 0
  BY <1>1, <1>2, Values DEF InstrTypeOK
<1>4. Reg(Decoded.rd) # 0 => regs'[Reg(Decoded.rd)] = v
  BY <1>1, <1>2 DEF InstrTypeOK
<1>5. pc' = Trunc(at + Length) /\ inst' = NoWord
  BY DEF Completes
<1>6. pc' \in Value
  BY <1>5, Lengths, Values
<1> QED
  BY <1>3, <1>4, <1>5, <1>6 DEF InstrTypeOK

LEMMA QuietTyped ==
    ASSUME InstrTypeOK, NEW at \in Int, CompletesQuietly(at)
    PROVE  InstrTypeOK' /\ pc' = Trunc(at + Length)
<1>1. pc' = Trunc(at + Length) /\ inst' = NoWord /\ regs' = regs
  BY DEF CompletesQuietly
<1>2. pc' \in Value
  BY <1>1, Lengths, Values
<1> QED
  BY <1>1, <1>2 DEF InstrTypeOK

\* What the operands of an instruction are.
LEMMA Operands ==
    ASSUME InstrTypeOK
    PROVE  /\ regs[Reg(Decoded.rs1)] \in Value /\ regs[Reg(Decoded.rs2)] \in Value
           /\ Imm(Decoded.immediate) \in Value /\ pc \in Value
           /\ Value \subseteq Int /\ Length \in Int
<1>1. Reg(Decoded.rs1) \in RegNo /\ Reg(Decoded.rs2) \in RegNo
  BY Registers DEF Decoded
<1>2. Value \subseteq Int
  BY Values, Widths
<1> QED
  BY <1>1, <1>2, Immediates, Lengths DEF InstrTypeOK

\* What each instruction writes and where it goes on.
LEMMA RegisterStep ==
    ASSUME InstrTypeOK, ExecuteRegister
    PROVE  /\ InstrTypeOK' /\ pc' = Trunc(pc + Length)
           /\ Decoded.code \in RegisterCode
           /\ Reg(Decoded.rd) # 0 => regs'[Reg(Decoded.rd)] =
                Operation(Decoded.code, regs[Reg(Decoded.rs1)], regs[Reg(Decoded.rs2)])
<1> DEFINE v == Operation(Decoded.code, regs[Reg(Decoded.rs1)], regs[Reg(Decoded.rs2)])
<1>1. Decoded.code \in RegisterCode /\ Completes(v, pc)
  BY DEF ExecuteRegister, Executing
<1>2. v \in Value /\ pc \in Int
  BY <1>1, Operands, OperationTyped
<1> HIDE DEF v
<1>3. InstrTypeOK' /\ pc' = Trunc(pc + Length) /\ (Reg(Decoded.rd) # 0 => regs'[Reg(Decoded.rd)] = v)
  BY <1>1, <1>2, CompletesTyped
<1> QED
  BY <1>1, <1>3 DEF v

LEMMA ImmediateStep ==
    ASSUME InstrTypeOK, ExecuteImmediate
    PROVE  /\ InstrTypeOK' /\ pc' = Trunc(pc + Length)
           /\ Decoded.code \in ImmediateCode
<1> DEFINE v == Operation(Decoded.code, regs[Reg(Decoded.rs1)], Imm(Decoded.immediate))
<1>1. Decoded.code \in ImmediateCode /\ Completes(v, pc)
  BY DEF ExecuteImmediate, Executing
<1>2. v \in Value /\ pc \in Int
  BY <1>1, Operands, OperationTyped
<1> HIDE DEF v
<1> QED
  BY <1>1, <1>2, CompletesTyped

LEMMA UpperStep ==
    ASSUME InstrTypeOK, ExecuteUpper
    PROVE  /\ InstrTypeOK' /\ pc' = Trunc(pc + Length)
           /\ Decoded.code \in {"LUI", "AUIPC"}
<1> DEFINE n == Imm(Decoded.immediate) + (IF Decoded.code = "AUIPC" THEN pc ELSE 0)
<1>1. Decoded.code \in {"LUI", "AUIPC"} /\ Completes(Trunc(n), pc)
  BY DEF ExecuteUpper, Executing
<1>2. n \in Int /\ pc \in Int
  BY Operands
<1> HIDE DEF n
<1>3. Trunc(n) \in Value
  BY <1>2, Values
<1> QED
  BY <1>1, <1>2, <1>3, CompletesTyped

LEMMA JumpStep ==
    ASSUME InstrTypeOK, ExecuteJAL \/ ExecuteJALR
    PROVE  /\ InstrTypeOK'
           /\ Decoded.code \in {"JAL", "JALR"}
           /\ pc' = Trunc((IF Decoded.code = "JALR" THEN regs[Reg(Decoded.rs1)] ELSE pc)
                            + Imm(Decoded.immediate))
           /\ Reg(Decoded.rd) # 0 => regs'[Reg(Decoded.rd)] = Trunc(pc + Length)
<1> DEFINE base == IF Decoded.code = "JALR" THEN regs[Reg(Decoded.rs1)] ELSE pc
           at   == base + Imm(Decoded.immediate) - Length
<1>1. Decoded.code \in {"JAL", "JALR"} /\ Completes(Trunc(pc + Length), at)
  <2>1. CASE ExecuteJAL
    <3>1. Decoded.code = "JAL" /\ base = pc
      BY <2>1 DEF ExecuteJAL, Executing
    <3> QED
      BY <2>1, <3>1 DEF ExecuteJAL
  <2>2. CASE ExecuteJALR
    <3>1. Decoded.code = "JALR" /\ base = regs[Reg(Decoded.rs1)]
      BY <2>2 DEF ExecuteJALR, Executing
    <3> QED
      BY <2>2, <3>1 DEF ExecuteJALR
  <2> QED
    BY <2>1, <2>2
<1>2. base \in Int /\ Imm(Decoded.immediate) \in Int /\ Length \in Int /\ pc \in Int
  BY Operands
<1> HIDE DEF base
<1>3. at \in Int /\ at + Length = base + Imm(Decoded.immediate) /\ pc + Length \in Int
  BY <1>2
<1> HIDE DEF at
<1>4. Trunc(pc + Length) \in Value
  BY <1>3, Values
<1>5. /\ InstrTypeOK' /\ pc' = Trunc(at + Length)
      /\ Reg(Decoded.rd) # 0 => regs'[Reg(Decoded.rd)] = Trunc(pc + Length)
  BY <1>1, <1>3, <1>4, CompletesTyped
<1> QED
  BY <1>1, <1>3, <1>5 DEF base

LEMMA BranchStep ==
    ASSUME InstrTypeOK, ExecuteBranch
    PROVE  /\ InstrTypeOK'
           /\ Decoded.code \in BranchCode
           /\ pc' = IF Taken(Decoded.code, regs[Reg(Decoded.rs1)], regs[Reg(Decoded.rs2)])
                      THEN Trunc(pc + Imm(Decoded.immediate))
                      ELSE Trunc(pc + Length)
<1> DEFINE taken == Taken(Decoded.code, regs[Reg(Decoded.rs1)], regs[Reg(Decoded.rs2)])
           at    == IF taken THEN pc + Imm(Decoded.immediate) - Length ELSE pc
<1>1. Decoded.code \in BranchCode /\ CompletesQuietly(at)
  BY DEF ExecuteBranch, Executing
<1>2. pc \in Int /\ Imm(Decoded.immediate) \in Int /\ Length \in Int
  BY Operands
<1> HIDE DEF taken
<1>3. at \in Int /\ at + Length = IF taken THEN pc + Imm(Decoded.immediate) ELSE pc + Length
  BY <1>2
<1> HIDE DEF at
<1>4. InstrTypeOK' /\ pc' = Trunc(at + Length)
  BY <1>1, <1>3, QuietTyped
<1> QED
  BY <1>1, <1>3, <1>4 DEF taken

LEMMA QuietStep ==
    ASSUME InstrTypeOK, ExecuteStore
    PROVE  /\ InstrTypeOK' /\ pc' = Trunc(pc + Length)
           /\ Decoded.code \in StoreCode \cup {"NOP"}
<1>1. Decoded.code \in StoreCode \cup {"NOP"} /\ CompletesQuietly(pc)
  BY DEF ExecuteStore, Executing
<1>2. pc \in Int
  BY Operands
<1> QED
  BY <1>1, <1>2, QuietTyped

\* A read, a fetch and an exception: nothing is said of their values but the type.
LEMMA OtherSteps ==
    ASSUME InstrTypeOK, Fetch \/ FetchFaults \/ ExecuteRead \/ Leave
    PROVE  /\ InstrTypeOK'
           /\ Executed => Decoded.code \in {"ILL", "ECALL", "EBREAK", "MRET", "DRET"}
                                             \cup LoadCode \cup StoreCode \cup CsrCode
<1>1. CASE Fetch
  BY <1>1, InstructionsAssumption DEF Fetch, InstrTypeOK, Executed
<1>2. CASE FetchFaults
  BY <1>2 DEF FetchFaults, InstrTypeOK, Executed
<1>3. CASE ExecuteRead
  <2>1. Decoded.code \in LoadCode \cup CsrCode
    BY <1>3 DEF ExecuteRead, Executing
  <2>2. PICK v \in Value : Completes(v, pc)
    BY <1>3 DEF ExecuteRead
  <2>3. pc \in Int
    BY Operands
  <2>4. InstrTypeOK'
    BY <2>2, <2>3, CompletesTyped
  <2> QED
    BY <2>1, <2>4
<1>4. CASE Leave
  BY <1>4 DEF Leave, Executing, InstrTypeOK, Executed
<1> QED
  BY <1>1, <1>2, <1>3, <1>4

\* Type invariant of the execution, for every program and every width of the assumption, the
\* 32 bits of the code included.
THEOREM InstrTypeCorrect == InstrSpec => []InstrTypeOK
<1>1. InstrInit => InstrTypeOK
  BY Values, Registers DEF InstrInit, InstrTypeOK
<1>2. InstrTypeOK /\ [InstrNext]_instrVars => InstrTypeOK'
  <2> SUFFICES ASSUME InstrTypeOK, [InstrNext]_instrVars PROVE InstrTypeOK'
    OBVIOUS
  <2>1. CASE UNCHANGED instrVars
    BY <2>1 DEF instrVars, InstrTypeOK
  <2> QED
    BY <2>1, OtherSteps, RegisterStep, ImmediateStep, UpperStep, JumpStep, BranchStep, QuietStep
       DEF InstrNext
<1> QED
  BY <1>1, <1>2, PTL DEF InstrSpec

\* A jump lands at its offset from its own address or its base and links to the
\* instruction that follows; a branch lands at its offset exactly when its condition
\* holds; every other instruction goes on with the next.
THEOREM TransfersProved == InstrSpec => TransfersLand
<1> DEFINE Excluded == {"ILL", "ECALL", "EBREAK", "MRET", "DRET"} \cup LoadCode \cup StoreCode \cup CsrCode
           a == regs[Reg(Decoded.rs1)]
           b == regs[Reg(Decoded.rs2)]
           next == Trunc(pc + Length)
           target == Trunc((IF Decoded.code = "JALR" THEN a ELSE pc) + Imm(Decoded.immediate))
           link == Reg(Decoded.rd) # 0 => regs'[Reg(Decoded.rd)] = next
           Lands == CASE Decoded.code \in {"JAL", "JALR"} -> pc' = target /\ link
                      [] Decoded.code \in {"BEQ", "BNE"} ->
                           pc' = (IF (a = b) <=> (Decoded.code = "BEQ") THEN target ELSE next)
                      [] Decoded.code \in {"BLT", "BGE"} ->
                           pc' = (IF (Signed(a) - Signed(b) < 0) <=> (Decoded.code = "BLT") THEN target ELSE next)
                      [] Decoded.code \in {"BLTU", "BGEU"} ->
                           pc' = (IF (a - b < 0) <=> (Decoded.code = "BLTU") THEN target ELSE next)
                      [] OTHER -> pc' = next
<1>1. ASSUME InstrTypeOK, InstrNext, Executed, ~Executing(Excluded)
      PROVE  Lands
  <2>1. Decoded.code \notin Excluded
    BY <1>1 DEF Executing, Executed
  <2>2. ~(Fetch \/ FetchFaults \/ ExecuteRead \/ Leave)
    BY <1>1, <2>1, OtherSteps
  <2>3. CASE ExecuteJAL \/ ExecuteJALR
    <3>1. Decoded.code \in {"JAL", "JALR"} /\ pc' = target /\ link
      BY <1>1, <2>3, JumpStep
    <3> HIDE DEF target, link, next
    <3> QED
      BY <3>1
  <2>4. CASE ExecuteBranch
    <3>1. /\ Decoded.code \in BranchCode
          /\ pc' = IF Taken(Decoded.code, a, b) THEN Trunc(pc + Imm(Decoded.immediate)) ELSE next
      BY <1>1, <2>4, BranchStep
    <3>2. target = Trunc(pc + Imm(Decoded.immediate))
      BY <3>1 DEF BranchCode
    <3>3. a \in Int /\ b \in Int /\ Signed(a) \in Int /\ Signed(b) \in Int
      <4>1. a \in Value /\ b \in Value /\ Value \subseteq Int
        BY <1>1, Operands
      <4>2. INT_MIN \in Int
        BY Widths DEF INT_MIN
      <4> HIDE DEF a, b
      <4> QED
        BY <4>1, <4>2, Values
    <3> HIDE DEF target, link, next, a, b
    <3>4. CASE Decoded.code = "BEQ"
      <4>1. Taken(Decoded.code, a, b) <=> a = b
        BY <3>3, <3>4 DEF Taken
      <4>2. pc' = IF a = b THEN target ELSE next
        BY <3>1, <3>2, <4>1
      <4> QED
        BY <3>4, <4>2
    <3>5. CASE Decoded.code = "BNE"
      <4>1. Taken(Decoded.code, a, b) <=> a # b
        BY <3>3, <3>5 DEF Taken
      <4>2. pc' = IF a # b THEN target ELSE next
        BY <3>1, <3>2, <4>1
      <4> QED
        BY <3>5, <4>2
    <3>6. CASE Decoded.code = "BLT"
      <4>1. Taken(Decoded.code, a, b) <=> Signed(a) - Signed(b) < 0
        BY <3>3, <3>6 DEF Taken
      <4>2. pc' = IF Signed(a) - Signed(b) < 0 THEN target ELSE next
        BY <3>1, <3>2, <4>1
      <4> QED
        BY <3>6, <4>2
    <3>7. CASE Decoded.code = "BGE"
      <4>1. Taken(Decoded.code, a, b) <=> ~(Signed(a) - Signed(b) < 0)
        BY <3>3, <3>7 DEF Taken
      <4>2. pc' = IF ~(Signed(a) - Signed(b) < 0) THEN target ELSE next
        BY <3>1, <3>2, <4>1
      <4> QED
        BY <3>7, <4>2
    <3>8. CASE Decoded.code = "BLTU"
      <4>1. Taken(Decoded.code, a, b) <=> a - b < 0
        BY <3>3, <3>8 DEF Taken
      <4>2. pc' = IF a - b < 0 THEN target ELSE next
        BY <3>1, <3>2, <4>1
      <4> QED
        BY <3>8, <4>2
    <3>9. CASE Decoded.code = "BGEU"
      <4>1. Taken(Decoded.code, a, b) <=> ~(a - b < 0)
        BY <3>3, <3>9 DEF Taken
      <4>2. pc' = IF ~(a - b < 0) THEN target ELSE next
        BY <3>1, <3>2, <4>1
      <4> QED
        BY <3>9, <4>2
    <3> QED
      BY <3>1, <3>4, <3>5, <3>6, <3>7, <3>8, <3>9 DEF BranchCode
  <2>5. CASE ExecuteRegister \/ ExecuteImmediate \/ ExecuteUpper \/ ExecuteStore
    <3>1. pc' = next
      BY <1>1, <2>5, RegisterStep, ImmediateStep, UpperStep, QuietStep
    <3>2. Decoded.code \in RegisterCode \cup ImmediateCode \cup {"LUI", "AUIPC"} \cup StoreCode \cup {"NOP"}
      BY <1>1, <2>5, RegisterStep, ImmediateStep, UpperStep, QuietStep
    <3>3. Decoded.code \notin {"JAL", "JALR", "BEQ", "BNE", "BLT", "BGE", "BLTU", "BGEU"}
      BY <3>2 DEF RegisterCode, ImmediateCode, StoreCode
    <3> HIDE DEF target, link, next, a, b
    <3> QED
      BY <3>1, <3>3
  <2> QED
    BY <1>1, <2>2, <2>3, <2>4, <2>5 DEF InstrNext
<1>2. InstrTypeOK /\ [InstrNext]_instrVars => [Executed /\ ~Executing(Excluded) => Lands]_instrVars
  BY <1>1
<1> QED
  BY <1>2, InstrTypeCorrect, PTL DEF InstrSpec, TransfersLand

\* A division gives the quotient and the remainder rounded towards zero, a division by zero
\* and the quotient that does not fit what RISC-V prescribes, a right shift rounds down.
THEOREM DivisionsProved == InstrSpec => DivisionsAreExact
<1> DEFINE a == regs[Reg(Decoded.rs1)]
           b == regs[Reg(Decoded.rs2)]
           v == regs'[Reg(Decoded.rd)]
           n == Signed(a)
           d == Signed(b)
           s == Signed(v)
           IsDiv  == \/ d = 0 /\ s = -1
                     \/ n = INT_MIN /\ d = -1 /\ s = INT_MIN
                     \/ \E r \in INT_MIN..(-INT_MIN) : d # 0 /\ Divides(n, d, s, r)
           IsRem  == \/ d = 0 /\ s = n
                     \/ \E q \in INT_MIN..(-INT_MIN) : d # 0 /\ Divides(n, d, q, s)
           IsDivu == \/ b = 0 /\ s = -1
                     \/ \E r \in Value : b # 0 /\ Divides(a, b, v, r)
           IsRemu == \/ b = 0 /\ v = a
                     \/ \E q \in Value : b # 0 /\ Divides(a, b, q, v)
           IsSra  == LET scale == Pow2(b % XLEN) IN s * scale <= n /\ n < (s + 1) * scale
           Exact  == /\ Decoded.code = "DIV" => IsDiv
                     /\ Decoded.code = "REM" => IsRem
                     /\ Decoded.code = "DIVU" => IsDivu
                     /\ Decoded.code = "REMU" => IsRemu
                     /\ Decoded.code = "SRA" => IsSra
<1>1. ASSUME InstrTypeOK, InstrNext, Executed, Reg(Decoded.rd) # 0
      PROVE  Exact
  <2>1. CASE Decoded.code \notin {"DIV", "REM", "DIVU", "REMU", "SRA"}
    <3> HIDE DEF IsDiv, IsRem, IsDivu, IsRemu, IsSra
    <3> QED
      BY <2>1
  <2>2. CASE Decoded.code \in {"DIV", "REM", "DIVU", "REMU", "SRA"}
    <3>1. ExecuteRegister
      <4>1. ~(Fetch \/ FetchFaults \/ ExecuteRead \/ Leave)
        BY <1>1, <2>2, OtherSteps DEF LoadCode, StoreCode, CsrCode
      <4>2. ~ExecuteImmediate
        BY <1>1, <2>2, ImmediateStep DEF ImmediateCode
      <4>3. ~ExecuteUpper /\ ~(ExecuteJAL \/ ExecuteJALR)
        BY <1>1, <2>2, UpperStep, JumpStep
      <4>4. ~ExecuteBranch
        BY <1>1, <2>2, BranchStep DEF BranchCode
      <4>5. ~ExecuteStore
        BY <1>1, <2>2, QuietStep DEF StoreCode
      <4> QED
        BY <1>1, <4>1, <4>2, <4>3, <4>4, <4>5 DEF InstrNext
    <3>2. v = Operation(Decoded.code, a, b)
      BY <1>1, <3>1, RegisterStep
    <3>3. a \in Value /\ b \in Value
      BY <1>1, Operands
    <3> HIDE DEF a, b, v
    <3>4. n \in INT_MIN .. -INT_MIN - 1 /\ d \in INT_MIN .. -INT_MIN - 1
      BY <3>3, Values
    <3>5. INT_MIN \in Int /\ INT_MIN <= -2 /\ -1 \in INT_MIN .. -INT_MIN - 1
      BY Widths DEF INT_MIN
    <3>6. CASE Decoded.code = "DIV"
      <4>1. v = Div(a, b)
        BY <3>2, <3>6 DEF Operation
      <4> SUFFICES IsDiv
        BY <3>6
      <4>2. CASE d = 0
        <5>1. v = Trunc(-1)
          BY <4>1, <4>2 DEF Div
        <5>2. s = -1
          BY <3>5, <5>1, Values
        <5> QED
          BY <4>2, <5>2
      <4>3. CASE d # 0 /\ n = INT_MIN /\ d = -1
        <5>1. v = a
          BY <4>1, <4>3 DEF Div
        <5> QED
          BY <4>3, <5>1
      <4>4. CASE d # 0 /\ ~(n = INT_MIN /\ d = -1)
        <5>1. v = Trunc(TruncDiv(n, d))
          BY <4>1, <4>4 DEF Div
        <5> DEFINE r == n - d * TruncDiv(n, d)
        <5> HIDE DEF n, d
        <5>2. /\ TruncDiv(n, d) \in INT_MIN .. -INT_MIN - 1
              /\ r \in INT_MIN .. -INT_MIN - 1
              /\ Divides(n, d, TruncDiv(n, d), r)
          BY <3>4, <4>4, TruncDivExact
        <5>3. s = TruncDiv(n, d)
          BY <5>1, <5>2, Values
        <5> HIDE DEF r, s
        <5>4. r \in INT_MIN .. -INT_MIN
          BY <3>5, <5>2
        <5> QED
          BY <4>4, <5>2, <5>3, <5>4
      <4> QED
        BY <4>2, <4>3, <4>4
    <3>7. CASE Decoded.code = "REM"
      <4>1. v = Rem(a, b)
        BY <3>2, <3>7 DEF Operation
      <4> SUFFICES IsRem
        BY <3>7
      <4>2. CASE d = 0
        <5>1. v = a
          BY <4>1, <4>2 DEF Rem
        <5> QED
          BY <4>2, <5>1
      <4>3. CASE d # 0 /\ n = INT_MIN /\ d = -1
        <5>1. v = 0
          BY <4>1, <4>3 DEF Rem
        <5>2. s = 0
          BY <5>1, Widths DEF Signed
        <5>3. -INT_MIN \in INT_MIN .. -INT_MIN
          BY <3>5
        <5>4. Divides(n, d, -INT_MIN, s)
          BY <3>5, <4>3, <5>2 DEF Divides, Magnitude
        <5> QED
          BY <4>3, <5>3, <5>4
      <4>4. CASE d # 0 /\ ~(n = INT_MIN /\ d = -1)
        <5> DEFINE r == n - d * TruncDiv(n, d)
                   q == TruncDiv(n, d)
        <5>1. v = Trunc(r)
          BY <4>1, <4>4 DEF Rem
        <5> HIDE DEF n, d
        <5>2. /\ q \in INT_MIN .. -INT_MIN
              /\ r \in INT_MIN .. -INT_MIN - 1
              /\ Divides(n, d, q, r)
          BY <3>4, <4>4, TruncDivExact
        <5>3. s = r
          BY <5>1, <5>2, Values
        <5> HIDE DEF r, s, q
        <5> QED
          BY <4>4, <5>2, <5>3
      <4> QED
        BY <4>2, <4>3, <4>4
    <3>8. CASE Decoded.code \in {"DIVU", "REMU"}
      <4> SUFFICES IF Decoded.code = "DIVU" THEN IsDivu ELSE IsRemu
        BY <3>8
      <4>1. v = IF Decoded.code = "DIVU" THEN Divu(a, b) ELSE Remu(a, b)
        BY <3>2, <3>8 DEF Operation
      <4>2. CASE b = 0
        <5>1. Decoded.code = "DIVU" => v = Trunc(-1)
          BY <4>1, <4>2 DEF Divu
        <5>2. Decoded.code = "DIVU" => s = -1
          BY <3>5, <5>1, Values
        <5>3. Decoded.code # "DIVU" => v = a
          BY <4>1, <4>2 DEF Remu
        <5> HIDE DEF s
        <5> QED
          BY <4>2, <5>2, <5>3
      <4>3. CASE b # 0
        <5> DEFINE q == a \div b
                   r == a % b
        <5>1. a \in Nat /\ b \in Nat \ {0} /\ Value = 0 .. Pow2(XLEN) - 1 /\ Pow2(XLEN) \in Nat
              /\ a <= Pow2(XLEN) - 1
          BY <3>3, <4>3, Widths DEF Value
        <5>2. q \in 0..a /\ r \in 0 .. b - 1 /\ r <= a /\ a = q * b + r
          BY <5>1
        <5>3. v = IF Decoded.code = "DIVU" THEN q ELSE r
          BY <4>1, <4>3 DEF Divu, Remu
        <5> HIDE DEF q, r
        <5>4. q \in Value /\ r \in Value
          BY <5>1, <5>2
        <5>5. Magnitude(r) < Magnitude(b) /\ r * a >= 0
          BY <5>1, <5>2 DEF Magnitude
        <5>6. Divides(a, b, q, r)
          BY <5>2, <5>5 DEF Divides
        <5> QED
          BY <4>3, <5>3, <5>4, <5>6
      <4> QED
        BY <4>2, <4>3
    <3>9. CASE Decoded.code = "SRA"
      <4> DEFINE scale == Pow2(b % XLEN)
      <4>1. v = Trunc(n \div scale)
        BY <3>2, <3>9 DEF Operation, ShiftRightArith
      <4>2. scale \in Nat \ {0}
        BY <3>3, Scales
      <4> SUFFICES s * scale <= n /\ n < (s + 1) * scale
        BY <3>9
      <4> HIDE DEF n, scale
      <4>3. /\ n \div scale \in INT_MIN .. -INT_MIN - 1
            /\ (n \div scale) * scale <= n /\ n < (n \div scale + 1) * scale
        BY <3>4, <4>2, ShiftExact
      <4>4. s = n \div scale
        BY <4>1, <4>3, Values
      <4> QED
        BY <4>3, <4>4
    <3> HIDE DEF IsDiv, IsRem, IsDivu, IsRemu, IsSra
    <3> QED
      BY <2>2, <3>6, <3>7, <3>8, <3>9
  <2> QED
    BY <2>1, <2>2
<1>2. InstrTypeOK /\ [InstrNext]_instrVars => [Executed /\ Reg(Decoded.rd) # 0 => Exact]_instrVars
  BY <1>1
<1> QED
  BY <1>2, InstrTypeCorrect, PTL DEF InstrSpec, DivisionsAreExact
=============================================================================
