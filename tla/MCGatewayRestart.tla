---------------------------- MODULE MCGatewayRestart ----------------------------
(***************************************************************************)
(* Small instances of GatewayRestart for TLC.                              *)
(***************************************************************************)
EXTENDS GatewayRestart, TLC

MentionsSelf == {<<i, i>> : i \in Ip}

SymMac == Permutations(Mac)
===============================================================================
