------------------------------ MODULE MCOpening ------------------------------
(* Instances of Opening for TLC.                                           *)
EXTENDS Opening
=============================================================================
