---------------------------- MODULE MCFindings ----------------------------
EXTENDS Findings, TLC

CONSTANTS f1, f2, f3, csp, weak, root, api, admin

(* A fingerprint names one endpoint.  The contents differ in what decides  *)
(* a merge: two of the severities sort the same way as strings and as      *)
(* ranks and one does not, and two confidences break ties.                 *)
EndpointOf == f1 :> root @@ f2 :> api @@ f3 :> admin

MCPool ==
  {[fp |-> k, rc |-> r, ep |-> EndpointOf[k], sev |-> s, conf |-> "low"] :
      k \in {f1, f2, f3}, r \in {csp, None}, s \in {"low", "medium", "critical"}}
  \cup
  {[fp |-> k, rc |-> csp, ep |-> EndpointOf[k], sev |-> "medium", conf |-> "high"] : k \in {f2, f3}}
  \cup
  {[fp |-> k, rc |-> weak, ep |-> EndpointOf[k], sev |-> "medium", conf |-> "low"] : k \in {f1, f2}}
  \cup
  {[fp |-> None, rc |-> r, ep |-> root, sev |-> "low", conf |-> "low"] : r \in {csp, None}}
=============================================================================
