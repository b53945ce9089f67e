----------------------------- MODULE MCCLogger -----------------------------
(***************************************************************************)
(* Instances of the file logger of c-logger: two threads, one of which     *)
(* initialises the logger, small files and a clock of three milliseconds.  *)
(***************************************************************************)
EXTENDS CLogger

CONSTANTS t1, t2
=============================================================================
