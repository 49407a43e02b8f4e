------------------------------ MODULE MCSharing ------------------------------
(* Instances of Sharing.  The losses are enough to exhaust the attempts of *)
(* one request and to hit another one as well.                             *)
EXTENDS Sharing
=============================================================================
