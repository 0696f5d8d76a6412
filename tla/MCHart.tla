------------------------------- MODULE MCHart -------------------------------
(* A small instance of Hart: two program instructions at START_PC, a trap  *)
(* handler at the reset value of mtvec and three addresses of the debug    *)
(* ROM.  The program and the debugger write the CSRs that arm the hazards: *)
(* dcsr (stepping, resume level), dpc, mie, mip and the interrupt enables. *)
EXTENDS Hart

MCAddress == {0, START_PC, START_PC + 4, DEBUG_ROM_ENTRY, DEBUG_ROM_ENTRY + 4, DEBUG_ROM_TVEC}

MCValue == {0, 1}

Csr(name, v) == [op |-> "csr", csr |-> name, val |-> v, len |-> 4]

MCInst ==
    { [op |-> "alu", len |-> 4],
      [op |-> "jump", to |-> START_PC],
      [op |-> "jump", to |-> DEBUG_ROM_TVEC],
      [op |-> "fault", code |-> 7],
      [op |-> "ebreak"], [op |-> "mret"], [op |-> "dret"],
      Csr("dpc", START_PC),
      Csr("dcsr", [cause |-> 0, prv |-> PRV_M, step |-> TRUE]),
      Csr("dcsr", [cause |-> 0, prv |-> PRV_U, step |-> FALSE]),
      Csr("mstatus", [ie |-> {PRV_M}, pie |-> {}]),
      Csr("mie", {IRQ_M_EXT}),
      Csr("mip", {}) }
=============================================================================
