--------------------------- MODULE MCRemoteBitbang ---------------------------
(* A small instance of RemoteBitbang: three bits of instruction, so that    *)
(* some instructions are unknown, and one bit of data.                      *)
EXTENDS RemoteBitbang

MCIrCode ==
    [ IDCODE |-> <<1, 0, 0>>, DTMCONTROL |-> <<0, 0, 1>>,
      DBUS   |-> <<1, 0, 1>>, BYPASS     |-> <<1, 1, 1>> ]
=============================================================================
