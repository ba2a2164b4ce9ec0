-------------------------------- MODULE Fifo --------------------------------
(***************************************************************************)
(* What a bounded queue promises to one producer and one consumer: the     *)
(* elements, numbered in a cycle, are taken in the order they were put in. *)
(***************************************************************************)
EXTENDS Integers, Sequences

CONSTANTS
  Capacity,
  Cycle                      \* elements are numbered modulo this

VARIABLES
  queue,                     \* the elements in the queue
  next,                      \* the number of the next element
  taken                      \* what the consumer took last

Init == queue = <<>> /\ next = 0 /\ taken = <<>>

Put ==
  /\ Len(queue) < Capacity
  /\ queue' = Append(queue, next)
  /\ next' = (next + 1) % Cycle
  /\ UNCHANGED taken

Take ==
  /\ \E n \in 1 .. Len(queue) :
       /\ taken' = SubSeq(queue, 1, n)
       /\ queue' = SubSeq(queue, n + 1, Len(queue))
  /\ UNCHANGED next

Next == Put \/ Take

Spec == Init /\ [][Next]_<<queue, next, taken>>
=============================================================================
