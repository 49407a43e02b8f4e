------------------------------ MODULE MCSecrets ------------------------------
(* Instances of Secrets for TLC.                                            *)
EXTENDS Secrets, TLC

Symmetric == Permutations(Requests) \cup Permutations(Tokens)
=============================================================================
