----------------------------- MODULE MCTransfers -----------------------------
(* Instances of Transfers for TLC.                                          *)
EXTENDS Transfers, TLC

SameWords == [s \in Senders |-> CHOOSE w \in Words : TRUE]
Symmetric == Permutations(Senders) \cup Permutations(Receivers)
=============================================================================
