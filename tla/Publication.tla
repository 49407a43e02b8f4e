----------------------------- MODULE Publication -----------------------------
(***************************************************************************)
(* What an upload promises to those who will read the secret: under a      *)
(* public ID there is nothing, then, in one step, a whole blob, and that   *)
(* blob never changes or goes missing while the secret row is there.       *)
(* Uploads implements it with a database, an object store and several      *)
(* processes, none of which can change both stores in one step.            *)
(*                                                                         *)
(* Removing a secret (its owner, its expiry) is not part of an upload.     *)
(***************************************************************************)
CONSTANTS PublicIDs,  \* the public IDs of the shares
          Blobs,      \* the whole blobs an upload can assemble
          None        \* no blob under this ID

VARIABLE published    \* what a reader of each public ID would be served

TypeOK == published \in [PublicIDs -> Blobs \cup {None}]

Init == published = [p \in PublicIDs |-> None]

Publish(p) ==
  /\ published[p] = None
  /\ \E blob \in Blobs : published' = [published EXCEPT ![p] = blob]

Next == \E p \in PublicIDs : Publish(p)

Spec == Init /\ [][Next]_published
=============================================================================
