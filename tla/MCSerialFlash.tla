---------------------------- MODULE MCSerialFlash ----------------------------
(* A small instance of SerialFlash: bytes of three bits, two sectors of two   *)
(* bytes, commands of up to six bytes and a receive buffer of two.            *)
EXTENDS SerialFlash, TLC

MCCode == [READ_DATA_SLOW |-> 3, PROGRAM_PAGE |-> 2, ERASE_SECTOR_4K |-> 4]

\* The saved contents: a fresh chip and one that was written.
MCStored == { [c \in 0..3 |-> 7], <<5, 6, 1>> @@ (0 :> 3) }

\* Commands, the write enable (6) of real drivers among them; addresses in the
\* first and second sector and beyond the chip; data that looks like a command.
MCStream == << {2, 3, 4, 6}, {0}, {0, 1}, {1, 2}, {2, 4}, {4, 7} >>
=============================================================================
