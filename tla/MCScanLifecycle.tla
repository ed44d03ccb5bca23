-------------------------- MODULE MCScanLifecycle --------------------------
(* Small instances of ScanLifecycle. *)
EXTENDS ScanLifecycle, TLC

\* Tasks and requests are interchangeable: nothing in the module orders them.
Symmetry == Permutations(Drivers) \cup Permutations(Requests)

\* The routes used by each instance.
EveryRoute   == AllOps
ScanRoutes   == {"create", "start", "cancel"}
TriggerRoute == {"trigger", "cancel"}

=============================================================================
