------------------------------- MODULE MCGateway -------------------------------
(***************************************************************************)
(* Small instances of Gateway for TLC.                                     *)
(***************************************************************************)
EXTENDS Gateway, TLC

CONSTANTS i1, i2

\* i1 is a prefix of i2, as 192.168.1.1 is of 192.168.1.10.
MentionsPrefix == {<<i1, i1>>, <<i2, i2>>, <<i1, i2>>}
MentionsSelf == {<<i, i>> : i \in Ip}

SymWorker == Permutations(Worker)
SymWorkerMac == Permutations(Worker) \cup Permutations(Mac)
===============================================================================
