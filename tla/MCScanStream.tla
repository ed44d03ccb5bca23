---------------------------- MODULE MCScanStream ----------------------------
(* Small instances of ScanStream. *)
EXTENDS ScanStream, TLC

\* Tasks, requests and connections are interchangeable.
Symmetry == Permutations(Drivers) \cup Permutations(Requests) \cup Permutations(Clients)

ScanAndDelete == {"create", "start", "cancel", "delete"}
OneDriver    == {"create", "cancel", "trigger"}

=============================================================================
