---------------------------- MODULE MCScanEngine ----------------------------
(* Small instances of ScanEngine. *)
EXTENDS ScanEngine, TLC

=============================================================================
