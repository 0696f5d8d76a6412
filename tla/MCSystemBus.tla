---------------------------- MODULE MCSystemBus ----------------------------
(***************************************************************************)
(* An instance for TLC: one word of main flash and two pages of the        *)
(* information bank, a plain memory whose first twelve bytes lie under the *)
(* registers of the flash controller, and four addresses with no device.   *)
(***************************************************************************)
EXTENDS SystemBus, TLC

MCDevices ==
    { [array |-> "main",  start |-> 0, size |-> 4,  priority |-> 0],
      [array |-> "plain", start |-> 4, size |-> 16, priority |-> 0],
      [array |-> "regs",  start |-> 4, size |-> 12, priority |-> 1] }

Filled(size, value) == [i \in 0..(size - 1) |-> value]

\* The main bank is erased, the information bank programmed.
MCContents ==
    { [main |-> Filled(4, 1), info |-> Filled(16, 0), plain |-> Filled(16, 1), regs |-> Filled(12, 0)] }

Bits(ones) == [i \in Bytes |-> IF i \in ones THEN 1 ELSE 0]

\* Commands, an address and data for the controller.
MCProgramStores ==
    { <<4, Bits(cmd), 4>> : cmd \in {{1}, {0, 2}, {1, 2}} }
    \cup { <<8, Bits({2, 3}), 4>>, <<12, Bits({0, 2}), 4>> }

SbMode(access, onaddr, auto, ondata) ==
    [sbaccess |-> access, readonaddr |-> onaddr, autoincrement |-> auto, readondata |-> ondata]

\* Blocks of words, one half again and again, and an access that is too wide.
MCSbModes ==
    { SbMode(2, TRUE, TRUE, TRUE), SbMode(1, TRUE, FALSE, TRUE), SbMode(3, TRUE, TRUE, TRUE) }

\* The flash, an odd address, the end of the plain memory.
MCSbAddresses == {0, 5, 16}
MCSbWords == {Bits({0, 1, 2})}
=============================================================================
