------------------------------ MODULE MCChains ------------------------------
(***************************************************************************)
(* Small instances of Chains for TLC.                                      *)
(***************************************************************************)
EXTENDS Chains
===============================================================================
