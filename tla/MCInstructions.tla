--------------------------- MODULE MCInstructions ---------------------------
(***************************************************************************)
(* Instances for TLC: x0, one register for the even and one for the odd    *)
(* numbers, of four bits each, a program that has each instruction, and    *)
(* first words that have each opcode.                                      *)
(***************************************************************************)
EXTENDS Instructions, TLC

MCRegOf == [ number \in SUBSET (0..4) |-> IF number = x0 THEN 0 ELSE 1 + Bit(number, 0) ]

Hex(high, low) ==
    { i \in 0..15 : (low \div 2^i) % 2 = 1 } \cup { i \in 16..31 : (high \div 2^(i - 16)) % 2 = 1 }

\* Each register and immediate operation, jump and branch, on x8 and x9, and
\* one each of the system, load and store instructions.
MCProgram ==
    {
      Hex(\h0000, \h0000), Hex(\h0000, \h000f), Hex(\h0000, \h0073), Hex(\h0000, \h0405),
      Hex(\h0000, \h2019), Hex(\h0000, \h8405), Hex(\h0000, \h8426), Hex(\h0000, \h8502),
      Hex(\h0000, \h8c05), Hex(\h0000, \h8c25), Hex(\h0000, \h9002), Hex(\h0000, \h9426),
      Hex(\h0000, \h9482), Hex(\h0000, \hbfdd), Hex(\h0000, \hdc65), Hex(\h0000, \he019),
      Hex(\h0004, \h2403), Hex(\h0014, \h0413), Hex(\h0014, \hd493), Hex(\h0024, \h1413),
      Hex(\h0024, \h84e7), Hex(\h0030, \h0493), Hex(\h0094, \h0363), Hex(\h0094, \h0433),
      Hex(\h0094, \h1363), Hex(\h0094, \h1433), Hex(\h0094, \h2023), Hex(\h0094, \h2433),
      Hex(\h0094, \h3433), Hex(\h0094, \h4363), Hex(\h0094, \h4433), Hex(\h0094, \h5363),
      Hex(\h0094, \h5433), Hex(\h0094, \h6363), Hex(\h0094, \h6433), Hex(\h0094, \h7363),
      Hex(\h0094, \h7433), Hex(\h0284, \hc033), Hex(\h0284, \hc4b3), Hex(\h0294, \h0433),
      Hex(\h0294, \h1433), Hex(\h0294, \h2433), Hex(\h0294, \h3433), Hex(\h0294, \h4433),
      Hex(\h0294, \h5433), Hex(\h0294, \h64b3), Hex(\h0294, \h7433), Hex(\h3401, \h1473),
      Hex(\h4014, \hd493), Hex(\h4094, \h04b3), Hex(\h4094, \h5433), Hex(\h4094, \h54b3),
      Hex(\h8000, \h0437), Hex(\h8000, \h0497), Hex(\hfe04, \h1ee3), Hex(\hffbf, \hf4ef),
      Hex(\hffd4, \h04e7), Hex(\hffd4, \h2493), Hex(\hffd4, \h3493), Hex(\hffd4, \h4493),
      Hex(\hffd4, \h6493), Hex(\hffd4, \h7493), Hex(\hfff4, \h8493) }

\* No bit of `others', each one, all but each one, and all.
Patterns(others) == { {i} : i \in others } \cup { others \ {i} : i \in others } \cup { {}, others }

\* Every opcode and funct3, with each bit of the rest in turn set and clear.
MCFirstWords ==
    { Shl(opcode, 2) \cup Shl(funct, 12) \cup {0, 1} \cup rest :
        opcode \in SUBSET (0..4), funct \in SUBSET (0..2), rest \in Patterns((7..11) \cup (15..31)) }
    \cup
    { kind \cup Shl(funct, 13) \cup rest :
        kind \in {{}, {0}, {1}}, funct \in SUBSET (0..2), rest \in Patterns(2..12) }
=============================================================================
