------------------------------ MODULE MCRotater ------------------------------
(***************************************************************************)
(* Instances of the rotated log file: two threads of one process and one   *)
(* of another, or one thread of each.                                      *)
(***************************************************************************)
EXTENDS Rotater

CONSTANTS t1, t2, t3, p1, p2

ThreeThreads == [t \in Threads |-> IF t = t3 THEN p2 ELSE p1]
=============================================================================
