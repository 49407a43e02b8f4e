------------------------------ MODULE MCUploads ------------------------------
(* Instances of Uploads for TLC: all sessions upload for one public ID, so  *)
(* that they compete for it.                                                *)
EXTENDS Uploads, TLC

CONSTANT ThePublicID

MCPublicIDs == {ThePublicID}
MCPublicIDOf == [s \in Sessions |-> ThePublicID]

Symmetric == Permutations(Requests) \cup Permutations(Sessions) \cup Permutations(Contents)
=============================================================================
