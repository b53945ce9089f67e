----------------------------- MODULE MCTimeCache -----------------------------
(***************************************************************************)
(* The time cache with three threads and two seconds.                      *)
(***************************************************************************)
EXTENDS TimeCache

MCSeconds == {0, 1}
MCZero == -1
=============================================================================
