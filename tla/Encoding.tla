------------------------------ MODULE Encoding ------------------------------
(***************************************************************************)
(* Two other readings of an instruction word that the decoder has to agree *)
(* with: the accessors of insn_t in modules/debug/include/decode.h, and    *)
(* the encoders at the end of core/src/Instruction.cpp, with which the     *)
(* debug module writes code for the hart.                                  *)
(*                                                                         *)
(* The accessors add fields that do not overlap: the sum is a union.       *)
(***************************************************************************)
EXTENDS Decoder

\* insn_t::x and insn_t::xs, the latter cut to 32 bits.
x(b, lo, len)  == FIELD(b, lo, len)
xs(b, lo, len) == FIELD(b, lo, len) \cup SIGN_BIT(lo + len - 1 \in b, len)

i_imm(b)  == xs(b, 20, 12)
s_imm(b)  == x(b, 7, 5) \cup Shl(xs(b, 25, 7), 5)
sb_imm(b) == Shl(x(b, 8, 4), 1) \cup Shl(x(b, 25, 6), 5) \cup Shl(x(b, 7, 1), 11)
             \cup Shl(xs(b, 31, 1), 12)
u_imm(b)  == Shl(xs(b, 12, 20), 12)
uj_imm(b) == Shl(x(b, 21, 10), 1) \cup Shl(x(b, 20, 1), 11) \cup Shl(x(b, 12, 8), 12)
             \cup Shl(xs(b, 31, 1), 20)
shamt(b)  == x(b, 20, 6)
csr(b)    == x(b, 20, 12)

rvc_imm(b)  == x(b, 2, 5) \cup Shl(xs(b, 12, 1), 5)
rvc_zimm(b) == x(b, 2, 5) \cup Shl(x(b, 12, 1), 5)
rvc_addi4spn_imm(b) == Shl(x(b, 6, 1), 2) \cup Shl(x(b, 5, 1), 3)
                       \cup Shl(x(b, 11, 2), 4) \cup Shl(x(b, 7, 4), 6)
rvc_addi16sp_imm(b) == Shl(x(b, 6, 1), 4) \cup Shl(x(b, 2, 1), 5) \cup Shl(x(b, 5, 1), 6)
                       \cup Shl(x(b, 3, 2), 7) \cup Shl(xs(b, 12, 1), 9)
rvc_lwsp_imm(b) == Shl(x(b, 4, 3), 2) \cup Shl(x(b, 12, 1), 5) \cup Shl(x(b, 2, 2), 6)
rvc_swsp_imm(b) == Shl(x(b, 9, 4), 2) \cup Shl(x(b, 7, 2), 6)
rvc_lw_imm(b)   == Shl(x(b, 6, 1), 2) \cup Shl(x(b, 10, 3), 3) \cup Shl(x(b, 5, 1), 6)
rvc_j_imm(b)    == Shl(x(b, 3, 3), 1) \cup Shl(x(b, 11, 1), 4) \cup Shl(x(b, 2, 1), 5)
                   \cup Shl(x(b, 7, 1), 6) \cup Shl(x(b, 6, 1), 7) \cup Shl(x(b, 9, 2), 8)
                   \cup Shl(x(b, 8, 1), 10) \cup Shl(xs(b, 12, 1), 11)
rvc_b_imm(b)    == Shl(x(b, 3, 2), 1) \cup Shl(x(b, 10, 2), 3) \cup Shl(x(b, 2, 1), 5)
                   \cup Shl(x(b, 5, 2), 6) \cup Shl(xs(b, 12, 1), 8)

\* The accessor for the immediate of a word of the basic set.  A shift by an
\* immediate has bits 25 to 31 clear, but for bit 30 of a right shift.
BasicImmediate(b) ==
    LET type == type_by_opcode(b)
    IN  CASE type \in {"I_JALR", "I_LOAD"} -> i_imm(b)
          [] type = "I_ARITHM" -> IF funct3(b) \in {1, 5} THEN shamt(b) ELSE i_imm(b)
          [] type = "I_SYSTEM" -> csr(b)
          [] type = "S" -> s_imm(b)
          [] type = "B" -> sb_imm(b)
          [] type = "U" -> u_imm(b)
          [] type = "J" -> uj_imm(b)
          [] OTHER      -> {}

\* A shift whose word has a set bit where RV32 reserves it.
IsReservedShift(b) ==
    /\ type_by_opcode(b) = "I_ARITHM"
    /\ \/ funct3(b) = 1 /\ b \cap (25..31) # {}
       \/ funct3(b) = 5 /\ 25 \in b

\* C.ANDI, whose immediate insn_t extends by its sign and the decoder does not.
IsCompressedAnd(b) ==
    type_by_opcode_c(b) = "CS_B" /\ op(b) = 1 /\ funct3c(b) = 4 /\ 10 \notin b /\ 11 \in b

\* The accessor for the immediate of a compressed word.
CompressedImmediate(b) ==
    LET type == type_by_opcode_c(b)
    IN  CASE type = "CIW" -> rvc_addi4spn_imm(b)
          [] type = "CL"  -> rvc_lw_imm(b)
          [] type = "CSS" -> rvc_swsp_imm(b)
          [] type = "CJ"  -> rvc_j_imm(b)
          [] type = "CS_B" ->
               IF op(b) = 0 THEN rvc_lw_imm(b)
               ELSE IF funct3c(b) # 4 THEN rvc_b_imm(b)
               ELSE IF 10 \in b /\ 11 \in b THEN {}
               ELSE IF IsCompressedAnd(b) THEN rvc_imm(b)
               ELSE rvc_zimm(b)
          [] type = "CI" ->
               CASE op(b) = 1 /\ funct3c(b) = 3 ->
                       IF FIELD(b, 7, 5) = sp THEN rvc_addi16sp_imm(b) ELSE Shl(rvc_imm(b), 12)
                 [] op(b) = 1 /\ funct3c(b) # 3 -> rvc_imm(b)
                 [] op(b) = 2 /\ funct3c(b) = 0 -> rvc_zimm(b)
                 [] OTHER -> rvc_lwsp_imm(b)
          [] OTHER -> {}

ImmediateAgrees(b) ==
    decode(b).code # "ILL" =>
        IF is_c_ext(b)
          THEN IsCompressedAnd(b) \/ decode(b).immediate = CompressedImmediate(b)
          ELSE IsReservedShift(b) \/ decode(b).immediate = BasicImmediate(b)

-----------------------------------------------------------------------------
(* The encoders.                                                           *)

bits(value, hi, lo) == FIELD(value, lo, hi + 1 - lo)

MATCH_LW     == {0, 1, 13}
MATCH_SW     == {0, 1, 5, 13}
MATCH_EBREAK == {0, 1, 4, 5, 6, 20}
MATCH_JAL    == {0, 1, 2, 3, 5, 6}
MATCH_CSRRW  == {0, 1, 4, 5, 6, 12}
MATCH_CSRRS  == {0, 1, 4, 5, 6, 13}

\* Mutant: the base goes where the source belongs.
sw_Swapped(src, base, offset) ==
    Shl(bits(offset, 11, 5), 25) \cup Shl(base, 20) \cup Shl(src, 15)
    \cup Shl(bits(offset, 4, 0), 7) \cup MATCH_SW

sw(src, base, offset) ==
    Shl(bits(offset, 11, 5), 25) \cup Shl(src, 20) \cup Shl(base, 15)
    \cup Shl(bits(offset, 4, 0), 7) \cup MATCH_SW

lw(dest, base, offset) ==
    Shl(bits(offset, 11, 0), 20) \cup Shl(base, 15) \cup Shl(bits(dest, 4, 0), 7) \cup MATCH_LW

ebreak == MATCH_EBREAK

jal(dest, imm) ==
    Put(imm, 20, 31) \cup Shl(bits(imm, 10, 1), 21) \cup Put(imm, 11, 20)
    \cup Shl(bits(imm, 19, 12), 12) \cup Shl(dest, 7) \cup MATCH_JAL

csrw(source, number) == Shl(number, 20) \cup Shl(source, 15) \cup MATCH_CSRRW
csrr(dest, number)   == Shl(number, 20) \cup Shl(dest, 7) \cup MATCH_CSRRS

\* The n low bits of v, extended by the highest of them.
Extended(v, n) == (v \cap (0..n-1)) \cup SIGN_BIT(n - 1 \in v, n)

\* What the encoders make of two registers and a number is decoded as that.
EncodersAgree(r, s, v) ==
    /\ decode(lw(r, s, v)) =
         [code |-> "LW", rd |-> r, rs1 |-> s, rs2 |-> {}, immediate |-> Extended(v, 12)]
    /\ LET i == decode(sw(r, s, v))
       IN  i.code = "SW" /\ i.rs2 = r /\ i.rs1 = s /\ i.immediate = Extended(v, 12)
    /\ decode(ebreak).code = "EBREAK"
    /\ 0 \notin v => LET i == decode(jal(r, v))
                     IN  i.code = "JAL" /\ i.rd = r /\ i.immediate = Extended(v, 21)
    /\ LET number == v \cap (0..11)
           i == decode(csrw(r, number))
           j == decode(csrr(r, number))
       IN  /\ i.code = "CSRRW" /\ i.rd = {} /\ i.rs1 = r /\ i.immediate = number
           /\ j.code = "CSRRS" /\ j.rd = r /\ j.rs1 = {} /\ j.immediate = number
=============================================================================
