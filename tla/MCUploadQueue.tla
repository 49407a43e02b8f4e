--------------------------- MODULE MCUploadQueue ---------------------------
(* Small instances of UploadQueue; their constants are plain numbers. *)
EXTENDS UploadQueue
=============================================================================
