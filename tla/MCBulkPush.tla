----------------------------- MODULE MCBulkPush -----------------------------
(* Constants for checking BulkPush with TLC: those of Bulkupdate.           *)
EXTENDS MCBulkupdate, BulkPush
=============================================================================
