-------------------------- MODULE MCTransferEvents --------------------------
(* Instances of TransferEvents for TLC.                                     *)
EXTENDS TransferEvents, TLC

\* The first poll waits on the first transfer, all others on another one.
OneApart ==
  LET t == CHOOSE t \in Transfers : TRUE
      p == CHOOSE p \in Polls : TRUE
  IN [q \in Polls |-> IF q = p THEN t ELSE CHOOSE u \in Transfers : u # t]
=============================================================================
