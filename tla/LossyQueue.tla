----------------------------- MODULE LossyQueue -----------------------------
(***************************************************************************)
(* What utils/src/FIFO.cpp promises: a first-in first-out queue of at most *)
(* Capacity elements that never refuses one.  When it is full it drops the *)
(* oldest to make room; when it is empty a pop answers 0.                  *)
(***************************************************************************)
EXTENDS Integers, Sequences

CONSTANTS Capacity, Elem

VARIABLES queue, result

Init == queue = <<>> /\ result = 0

Push(elem) ==
    /\ queue' = Append(IF Len(queue) < Capacity THEN queue ELSE Tail(queue), elem)
    /\ UNCHANGED result

Pop ==
    IF queue = <<>>
      THEN result' = 0 /\ UNCHANGED queue
      ELSE result' = Head(queue) /\ queue' = Tail(queue)

Next == (\E elem \in Elem : Push(elem)) \/ Pop

Spec == Init /\ [][Next]_<<queue, result>>
=============================================================================
