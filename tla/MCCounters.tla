------------------------------ MODULE MCCounters ------------------------------
(***************************************************************************)
(* Small instances of Counters for TLC.                                    *)
(***************************************************************************)
EXTENDS Counters, TLC
===============================================================================
