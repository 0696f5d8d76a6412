-------------------------------- MODULE Words --------------------------------
(***************************************************************************)
(* 32-bit words as sets of bit positions, with the macros of               *)
(* core/src/Instruction.cpp: AND and OR are intersection and union.        *)
(***************************************************************************)
EXTENDS Integers

Word == SUBSET (0..31)

\* `size' bits of x from bit `base' on.
FIELD(x, base, size) == { i \in 0..size-1 : i + base \in x }

\* x << n
Shl(x, n) == { i \in n..31 : i - n \in x }

\* Bit n and all above it, if b.
SIGN_BIT(b, n) == IF b THEN n..31 ELSE {}

\* BIT(x, from) << to
Put(x, from, to) == IF from \in x THEN {to} ELSE {}

Bit(x, i) == IF i \in x THEN 1 ELSE 0

\* The value of the five lowest bits.
Num(x) == Bit(x, 0) + 2 * Bit(x, 1) + 4 * Bit(x, 2) + 8 * Bit(x, 3) + 16 * Bit(x, 4)

\* 2^n for n up to 32; TLC, whose integers end below 2^31, evaluates the low ones.
Pow2(n) ==
    LET low(k) == CASE k = 0 -> 1 [] k = 1 -> 2 [] k = 2 -> 4 [] k = 3 -> 8
                    [] k = 4 -> 16 [] k = 5 -> 32 [] k = 6 -> 64 [] k = 7 -> 128
    IN  CASE n \in 0..7   -> low(n)
          [] n \in 8..15  -> 256 * low(n - 8)
          [] n \in 16..23 -> 256 * 256 * low(n - 16)
          [] n \in 24..31 -> 256 * 256 * 256 * low(n - 24)
          [] n = 32       -> 256 * 256 * 256 * 256

\* The value of a word, from its eight groups of four bits.
Unsigned(x) ==
    LET group(i) == Num(FIELD(x, i, 4)) * Pow2(i)
    IN  group(0) + group(4) + group(8) + group(12) + group(16) + group(20) + group(24) + group(28)

\* The bits of a number below 32.
Bits(n) == { i \in 0..4 : (n \div Pow2(i)) % 2 = 1 }
=============================================================================
