----------------------------- MODULE MCAuthServers -----------------------------
(***************************************************************************)
(* Small instances of AuthServers for TLC: which servers answer.           *)
(***************************************************************************)
EXTENDS AuthServers, TLC

LastAnswers == {NumServers}
===============================================================================
