-------------------------------- MODULE FIFO --------------------------------
(***************************************************************************)
(* The ring buffer of utils/src/FIFO.cpp, which holds what the UART and    *)
(* the SPI controllers received: an array, the index of the oldest element *)
(* and the number of elements.                                             *)
(*                                                                         *)
(* `popped' is what the last call of pop returned.  The array is allocated *)
(* uninitialised, so its first contents are arbitrary.                     *)
(***************************************************************************)
EXTENDS Integers, Sequences

CONSTANTS
    Size,           \* the constructor's argument
    Elem            \* the elements, 0 among them

VARIABLES data, head, stored, popped

fifoVars == <<data, head, stored, popped>>

ASSUME FIFOAssumption ==
    /\ Size \in Nat \ {0}
    /\ 0 \in Elem

-----------------------------------------------------------------------------
empty == stored = 0
full  == stored = Size

Init ==
    /\ data \in [0..Size-1 -> Elem]
    /\ head = 0
    /\ stored = 0
    /\ popped = 0

\* Mutant: a push into a full buffer leaves head at the element it overwrote.
Push_KeepHead(elem) ==
    /\ data' = [data EXCEPT ![(head + stored) % Size] = elem]
    /\ stored' = IF full THEN stored ELSE stored + 1
    /\ UNCHANGED <<head, popped>>

\* A push into a full buffer overwrites the oldest element.
Push(elem) ==
    /\ data' = [data EXCEPT ![(head + stored) % Size] = elem]
    /\ IF full
         THEN head' = (head + 1) % Size /\ UNCHANGED stored
         ELSE stored' = stored + 1 /\ UNCHANGED head
    /\ UNCHANGED popped

\* A pop from an empty buffer returns 0.
Pop ==
    IF empty
      THEN popped' = 0 /\ UNCHANGED <<data, head, stored>>
      ELSE /\ popped' = data[head]
           /\ head' = (head + 1) % Size
           /\ stored' = stored - 1
           /\ UNCHANGED data

Next == (\E elem \in Elem : Push(elem)) \/ Pop

Spec == Init /\ [][Next]_fifoVars

-----------------------------------------------------------------------------
(* Properties.                                                             *)

\* The indices stay inside the array.
TypeOK ==
    /\ data \in [0..Size-1 -> Elem]
    /\ head \in 0..Size-1
    /\ stored \in 0..Size
    /\ popped \in Elem

\* The elements held, oldest first.
Contents == [i \in 1..stored |-> data[(head + i - 1) % Size]]

Queue == INSTANCE LossyQueue WITH Capacity <- Size, queue <- Contents, result <- popped

\* The ring buffer is a queue that drops its oldest element when it overflows.
IsLossyQueue == Queue!Spec
=============================================================================
