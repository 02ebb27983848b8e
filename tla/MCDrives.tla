------------------------------ MODULE MCDrives ------------------------------
(* Constants for the runs of Drives.                                        *)
EXTENDS Drives

\* An old card, a standard and a high capacity one.
ThreeCards ==
  { [type |-> 0, v1 |-> TRUE, size |-> 2], [type |-> 0, v1 |-> FALSE, size |-> 2],
    [type |-> 1, v1 |-> FALSE, size |-> 3] }
=============================================================================
