------------------------------- MODULE MCHeap -------------------------------
(* Constants for the run of Heap.                                           *)
EXTENDS Heap

EveryPointer == 0 .. RAM_TOP
=============================================================================
