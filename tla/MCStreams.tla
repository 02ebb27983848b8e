----------------------------- MODULE MCStreams -----------------------------
(* Constants for the runs of Streams.                                       *)
EXTENDS Streams, TLC

Symmetric == Permutations(Objects) \cup Permutations(Bases)
=============================================================================
