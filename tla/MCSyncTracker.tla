--------------------------- MODULE MCSyncTracker ---------------------------
(* Model-checking instance of SyncTracker.                                 *)
EXTENDS SyncTracker
=============================================================================
