--------------------------- MODULE MCCleanupDrain ---------------------------
(* Four rows in batches of two, with one broken row, at either end of a    *)
(* batch, or two, in one batch or in two.                                  *)
EXTENDS CleanupDrain

FourRows == 1 .. 4
OneOrTwo == {{1}, {3}, {1, 2}, {2, 4}}
=============================================================================
