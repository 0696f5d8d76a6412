---------------------------- MODULE Instructions ----------------------------
(***************************************************************************)
(* The instructions of core/src/CPU.cpp that compute, jump and branch, run *)
(* one after the other in any order, each from its encoded word.           *)
(*                                                                         *)
(* The width of a register, XLEN, is 32 in the code.  At a smaller width   *)
(* an immediate is cut to its low bits and its sign, so one that is a sign *)
(* extension stays one.  The code has a register for each of the 32        *)
(* numbers; an instance may let several numbers share one, but for x0.     *)
(* What memory, CSRs and traps answer is left open here: Hart and          *)
(* SystemBus model them.                                                   *)
(***************************************************************************)
EXTENDS Encoding

CONSTANTS XLEN,         \* bits of a register: 32, or fewer
          RegOf,        \* the register each number names
          Program,      \* the words that may be fetched
          FirstWords    \* the words that may be fetched first

ASSUME InstructionsAssumption ==
    /\ XLEN \in {2, 4, 8, 16, 32}
    /\ \A number \in SUBSET (0..4) : RegOf[number] = 0 <=> number = x0
    /\ Program \subseteq Word /\ FirstWords \subseteq Word

VARIABLES pc, regs, inst
instrVars == <<pc, regs, inst>>

NoWord == {32}      \* no instruction is being executed: not a word of 32 bits

Value == 0..(Pow2(XLEN) - 1)
RegNo == { RegOf[number] : number \in SUBSET (0..4) }
INT_MIN == -(Pow2(XLEN - 1))

Trunc(n)  == n % Pow2(XLEN)
Signed(v) == IF v >= Pow2(XLEN - 1) THEN v - Pow2(XLEN) ELSE v

Reg(field) == RegOf[field]
Imm(word)  == Unsigned(word \cap (0..XLEN-2)) + (IF 31 \in word THEN Pow2(XLEN - 1) ELSE 0)

\* The bits of a register's number.
RegBits(v) == { i \in 0..XLEN-1 : (v \div Pow2(i)) % 2 = 1 }

-----------------------------------------------------------------------------
(* The operations on registers.                                            *)

Flag(b) == IF b THEN 1 ELSE 0

\* a shifted by b & (XLEN - 1)
ShiftLeft(a, b)       == Trunc(a * Pow2(b % XLEN))
ShiftRight(a, b)      == a \div Pow2(b % XLEN)
ShiftRightArith(a, b) == Trunc(Signed(a) \div Pow2(b % XLEN))

\* The division of C rounds towards zero, its remainder has the sign of the dividend.
Magnitude(n) == IF n < 0 THEN -n ELSE n
TruncDiv(n, d) ==
    LET q == Magnitude(n) \div Magnitude(d) IN IF (n < 0) # (d < 0) THEN -q ELSE q

\* Mutant: the guard against a division by zero takes the one of execute_REM.
Div_Remainder(a, b) ==
    LET n == Signed(a)  d == Signed(b)
    IN  IF d = 0 THEN a
        ELSE IF n = INT_MIN /\ d = -1 THEN a
        ELSE Trunc(TruncDiv(n, d))

Div(a, b) ==
    LET n == Signed(a)  d == Signed(b)
    IN  IF d = 0 THEN Trunc(-1)
        ELSE IF n = INT_MIN /\ d = -1 THEN a
        ELSE Trunc(TruncDiv(n, d))

Rem(a, b) ==
    LET n == Signed(a)  d == Signed(b)
    IN  IF d = 0 THEN a
        ELSE IF n = INT_MIN /\ d = -1 THEN 0
        ELSE Trunc(n - d * TruncDiv(n, d))

Divu(a, b) == IF b = 0 THEN Trunc(-1) ELSE a \div b
Remu(a, b) == IF b = 0 THEN a ELSE a % b

\* MULH and MULHSU widen their operands as unsigned numbers, like MULHU.
Operation(code, a, b) ==
    CASE code \in {"ADD", "ADDI"}   -> Trunc(a + b)
      [] code = "SUB"               -> Trunc(a - b)
      [] code \in {"SLL", "SLLI"}   -> ShiftLeft(a, b)
      [] code \in {"SLT", "SLTI"}   -> Flag(Signed(a) < Signed(b))
      [] code \in {"SLTU", "SLTIU"} -> Flag(a < b)
      [] code \in {"XOR", "XORI"}   -> Unsigned((RegBits(a) \ RegBits(b)) \cup (RegBits(b) \ RegBits(a)))
      [] code \in {"SRL", "SRLI"}   -> ShiftRight(a, b)
      [] code \in {"SRA", "SRAI"}   -> ShiftRightArith(a, b)
      [] code \in {"OR", "ORI"}     -> Unsigned(RegBits(a) \cup RegBits(b))
      [] code \in {"AND", "ANDI"}   -> Unsigned(RegBits(a) \cap RegBits(b))
      [] code = "MUL"               -> Trunc(a * b)
      [] code \in {"MULH", "MULHSU", "MULHU"} -> (a * b) \div Pow2(XLEN)
      [] code = "DIV"  -> Div(a, b)
      [] code = "DIVU" -> Divu(a, b)
      [] code = "REM"  -> Rem(a, b)
      [] code = "REMU" -> Remu(a, b)

RegisterCode  == { "ADD", "SUB", "SLL", "SLT", "SLTU", "XOR", "SRL", "SRA", "OR", "AND",
                   "MUL", "MULH", "MULHSU", "MULHU", "DIV", "DIVU", "REM", "REMU" }
ImmediateCode == { "ADDI", "SLLI", "SLTI", "SLTIU", "XORI", "SRLI", "SRAI", "ORI", "ANDI" }
BranchCode    == { "BEQ", "BNE", "BLT", "BGE", "BLTU", "BGEU" }
LoadCode      == { "LB", "LH", "LW", "LBU", "LHU" }
StoreCode     == { "SB", "SH", "SW" }
CsrCode       == { "CSRRW", "CSRRS", "CSRRC", "CSRRWI", "CSRRSI", "CSRRCI" }

\* Whether a branch is taken.
Taken(code, a, b) ==
    CASE code = "BEQ"  -> a = b
      [] code = "BNE"  -> a # b
      [] code = "BLT"  -> Signed(a) < Signed(b)
      [] code = "BGE"  -> Signed(a) >= Signed(b)
      [] code = "BLTU" -> a < b
      [] code = "BGEU" -> a >= b

-----------------------------------------------------------------------------
(* CPU::execute: the instruction, then regs[0] = 0 and pc past the         *)
(* instruction.  A jump takes its own length off the target beforehand.    *)

Decoded == decode(inst)
Length  == IF is_c_ext(inst) THEN 2 ELSE 4

\* The instruction writes v to rd and leaves pc at `at'.
Completes(v, at) ==
    /\ regs' = [regs EXCEPT ![Reg(Decoded.rd)] = v, ![0] = 0]
    /\ pc' = Trunc(at + Length)
    /\ inst' = NoWord

CompletesQuietly(at) ==
    /\ pc' = Trunc(at + Length)
    /\ inst' = NoWord
    /\ UNCHANGED regs

\* Bound: only the first instruction is any of FirstWords.
Fetch ==
    /\ inst = NoWord /\ pc % 2 = 0
    /\ \/ inst' \in Program
       \/ pc = 0 /\ regs = [r \in RegNo |-> 0] /\ inst' \in FirstWords
    /\ UNCHANGED <<pc, regs>>

\* An address that is odd or not mapped: pc is mtvec.
FetchFaults ==
    /\ inst = NoWord
    /\ pc' \in Value
    /\ UNCHANGED <<regs, inst>>

Executing(codes) == inst # NoWord /\ Decoded.code \in codes

ExecuteRegister ==
    /\ Executing(RegisterCode)
    /\ Completes(Operation(Decoded.code, regs[Reg(Decoded.rs1)], regs[Reg(Decoded.rs2)]), pc)

ExecuteImmediate ==
    /\ Executing(ImmediateCode)
    /\ Completes(Operation(Decoded.code, regs[Reg(Decoded.rs1)], Imm(Decoded.immediate)), pc)

ExecuteUpper ==
    /\ Executing({"LUI", "AUIPC"})
    /\ Completes(Trunc(Imm(Decoded.immediate) + (IF Decoded.code = "AUIPC" THEN pc ELSE 0)), pc)

ExecuteJAL ==
    /\ Executing({"JAL"})
    /\ Completes(Trunc(pc + Length), pc + Imm(Decoded.immediate) - Length)

\* Mutant: the link is written before the base is read.
ExecuteJALR_LinkFirst ==
    /\ Executing({"JALR"})
    /\ LET base == IF Reg(Decoded.rd) = Reg(Decoded.rs1) THEN pc + Length ELSE regs[Reg(Decoded.rs1)]
       IN  Completes(Trunc(pc + Length), base + Imm(Decoded.immediate) - Length)

ExecuteJALR ==
    /\ Executing({"JALR"})
    /\ Completes(Trunc(pc + Length), regs[Reg(Decoded.rs1)] + Imm(Decoded.immediate) - Length)

ExecuteBranch ==
    /\ Executing(BranchCode)
    /\ CompletesQuietly(
         IF Taken(Decoded.code, regs[Reg(Decoded.rs1)], regs[Reg(Decoded.rs2)])
           THEN pc + Imm(Decoded.immediate) - Length
           ELSE pc)

\* The value read is what the bus or the CSR holds.
ExecuteRead ==
    /\ Executing(LoadCode \cup CsrCode)
    /\ \E v \in Value : Completes(v, pc)

ExecuteStore ==
    /\ Executing(StoreCode \cup {"NOP"})
    /\ CompletesQuietly(pc)

\* An exception, a return from one or from debug mode: pc comes from a CSR or
\* is fixed, and no register changes.
Leave ==
    /\ Executing(LoadCode \cup StoreCode \cup CsrCode \cup {"ILL", "ECALL", "EBREAK", "MRET", "DRET"})
    /\ pc' \in Value
    /\ inst' = NoWord
    /\ UNCHANGED regs

InstrInit == pc = 0 /\ regs = [r \in RegNo |-> 0] /\ inst = NoWord

InstrNext ==
    \/ Fetch \/ FetchFaults
    \/ ExecuteRegister \/ ExecuteImmediate \/ ExecuteUpper
    \/ ExecuteJAL \/ ExecuteJALR \/ ExecuteBranch
    \/ ExecuteRead \/ ExecuteStore \/ Leave

InstrSpec == InstrInit /\ [][InstrNext]_instrVars
-----------------------------------------------------------------------------
(* Properties.                                                             *)

\* Type invariant: x0 holds zero, and a word being executed is a word.
InstrTypeOK ==
    /\ pc \in Value
    /\ regs \in [RegNo -> Value] /\ regs[0] = 0
    /\ inst \in Word \cup {NoWord}

\* The immediate the decoder gathers from the scattered bits of a format
\* (Instruction.cpp, decode_type_*) is the one insn_t reads from the same word
\* (decode.h 84-111), for every instruction the decoder accepts but C.ANDI and
\* the reserved shifts.
ImmediatesAgree == inst # NoWord => ImmediateAgrees(inst)

\* The code the debug module writes for the hart (lw, sw, jal, csrw, csrr and
\* ebreak in perform_abstract_command) is decoded by the hart as the
\* instruction meant, whatever the registers and the offset.
CodeIsDecoded == inst # NoWord => EncodersAgree(rd(inst), rs1(inst), FIELD(inst, 11, 21))

Executed == inst # NoWord /\ inst' = NoWord

\* q and r are quotient and remainder of n by d # 0, rounded towards zero.
Divides(n, d, q, r) == n = q * d + r /\ Magnitude(r) < Magnitude(d) /\ r * n >= 0

\* A division gives the one quotient or remainder there is, rounded towards
\* zero; the divisor zero and the quotient that does not fit give what RISC-V
\* prescribes; a right shift of a signed number rounds down (CPU::execute_DIV,
\* REM, DIVU, REMU, SRA, with rd one of the operands or not).
DivisionsAreExact ==
    [][ Executed /\ Reg(Decoded.rd) # 0 =>
          LET a == regs[Reg(Decoded.rs1)]
              b == regs[Reg(Decoded.rs2)]
              v == regs'[Reg(Decoded.rd)]
              n == Signed(a)  d == Signed(b)  s == Signed(v)
          IN  /\ Decoded.code = "DIV" =>
                   \/ d = 0 /\ s = -1
                   \/ n = INT_MIN /\ d = -1 /\ s = INT_MIN
                   \/ \E r \in INT_MIN..(-INT_MIN) : d # 0 /\ Divides(n, d, s, r)
              /\ Decoded.code = "REM" =>
                   \/ d = 0 /\ s = n
                   \/ \E q \in INT_MIN..(-INT_MIN) : d # 0 /\ Divides(n, d, q, s)
              /\ Decoded.code = "DIVU" =>
                   \/ b = 0 /\ s = -1
                   \/ \E r \in Value : b # 0 /\ Divides(a, b, v, r)
              /\ Decoded.code = "REMU" =>
                   \/ b = 0 /\ v = a
                   \/ \E q \in Value : b # 0 /\ Divides(a, b, q, v)
              /\ Decoded.code = "SRA" =>
                   LET scale == Pow2(b % XLEN) IN s * scale <= n /\ n < (s + 1) * scale
      ]_instrVars

\* A jump lands at its offset from its own address, or from the base register
\* as it was before the link was written, and links to the instruction that
\* follows, two or four bytes on; a branch lands at its offset exactly when its
\* condition holds, and any other instruction at the next (CPU::execute_JAL,
\* JALR and the branches take back what CPU::execute adds).
TransfersLand ==
    [][ Executed /\ ~Executing({"ILL", "ECALL", "EBREAK", "MRET", "DRET"} \cup LoadCode \cup StoreCode \cup CsrCode) =>
          LET a == regs[Reg(Decoded.rs1)]
              b == regs[Reg(Decoded.rs2)]
              next == Trunc(pc + Length)
              target == Trunc((IF Decoded.code = "JALR" THEN a ELSE pc) + Imm(Decoded.immediate))
              link == Reg(Decoded.rd) # 0 => regs'[Reg(Decoded.rd)] = next
          IN  CASE Decoded.code \in {"JAL", "JALR"} -> pc' = target /\ link
                [] Decoded.code \in {"BEQ", "BNE"} ->
                     pc' = (IF (a = b) <=> (Decoded.code = "BEQ") THEN target ELSE next)
                [] Decoded.code \in {"BLT", "BGE"} ->
                     pc' = (IF (Signed(a) - Signed(b) < 0) <=> (Decoded.code = "BLT") THEN target ELSE next)
                [] Decoded.code \in {"BLTU", "BGEU"} ->
                     pc' = (IF (a - b < 0) <=> (Decoded.code = "BLTU") THEN target ELSE next)
                [] OTHER -> pc' = next
      ]_instrVars
=============================================================================
