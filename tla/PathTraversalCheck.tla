------------------------ MODULE PathTraversalCheck --------------------------
(***************************************************************************)
(* path-traversal: for a file parameter two baselines with the canary as   *)
(* the file name, then the traversal payloads until one behaves otherwise. *)
(* Parameters do not depend on one another: one is followed.               *)
(***************************************************************************)
EXTENDS CheckRun

CONSTANT
  Statuses      \* statuses of an answer

ASSUME StatusesAssumption == Statuses \subseteq Nat

WafStatus  == {403, 406, 419, 501}
RateStatus == {429, 503}

Shown == [status : Statuses, length : 1..2, echo : BOOLEAN]

TraversalBegin ==
  BeginGated("traversal", CanaryPlan, "pt_base",
             [base |-> <<>>, n |-> 0, todo |-> Payloads])

(* A baseline that raises is left out; with none the parameter is skipped. *)
TraversalBaseline ==
  /\ At("traversal", "pt_base")
  /\ \E got \in {<<>>} \cup {<<a>> : a \in Shown} :
       LET base == loc.base \o got IN
       Probe(IF loc.n = 0 THEN "pt_base" ELSE IF base = <<>> THEN "judge" ELSE "pt_probe",
             [loc EXCEPT !.base = base, !.n = @ + 1], <<"baseline">>, {})

(* sorted(xs)[len(xs) // 2], of one sample or of two: the larger.          *)
Middle(xs) == Max(Range(xs))
BaseStatus == Middle([i \in DOMAIN loc.base |-> loc.base[i].status])
BaseLength == Middle([i \in DOMAIN loc.base |-> loc.base[i].length])

Behavior(a) ==
  IF a.echo /\ ~loc.base[1].echo THEN "canary_reflected"
  ELSE IF a.status # BaseStatus
       THEN IF BaseStatus = 404 /\ a.status = 200
            THEN "status_transition_404_to_200" ELSE "different_status"
  ELSE IF a.length # BaseLength THEN "different_length" ELSE "no_change"

(* Faulty form. *)
OutcomeUncontaminated(behavior, status) ==
  IF behavior \in {"canary_reflected", "status_transition_404_to_200"} THEN "confirmed"
  ELSE IF behavior = "different_status" THEN "inconclusive"
  ELSE IF behavior = "different_length" THEN "likely" ELSE "false_positive"

OutcomeForTraversal(behavior, status) ==
  IF status \in WafStatus \cup RateStatus THEN "inconclusive"
  ELSE OutcomeUncontaminated(behavior, status)

(* The first payload that changes anything ends the parameter. *)
TraversalProbe ==
  /\ At("traversal", "pt_probe")
  /\ LET rest == Tail(loc.todo)
         Go(stage, found) ==
           /\ Probe(stage, [loc EXCEPT !.todo = rest], <<Head(loc.todo)>>, found)
         next == IF rest = <<>> THEN "judge" ELSE "pt_probe"
     IN  \/ Go(next, {})
         \/ \E a \in Shown :
              IF Behavior(a) = "no_change" THEN Go(next, {})
              ELSE Go("judge", {[behavior |-> Behavior(a), seen |-> a, base |-> loc.base]})

TraversalConfidence(o) ==
  CASE o = "confirmed" -> "high" [] o = "likely" -> "medium" [] OTHER -> "low"

TraversalValidate(c) ==
  LET o == OutcomeForTraversal(c.behavior, c.seen.status) IN
  [outcome |-> o, confidence |-> TraversalConfidence(o)]

TraversalEvidence(c) ==
  LET o == OutcomeForTraversal(c.behavior, c.seen.status) IN
  [outcome |-> o, confidence |-> TraversalConfidence(o),
   uncertainty |-> CASE o = "confirmed" -> 10 [] o = "likely" -> 40
                     [] o = "inconclusive" -> 80 [] OTHER -> 0,
   waf |-> c.seen.status \in WafStatus, rate |-> c.seen.status \in RateStatus]

TraversalAssess(c) ==
  LET o == OutcomeForTraversal(c.behavior, c.seen.status) IN
  IF o = "false_positive" THEN Nothing ELSE
  [severity |-> CASE o = "confirmed" -> "high" [] o = "likely" -> "medium" [] OTHER -> "low",
   confidence |-> TraversalConfidence(o), status |-> o]

TraversalNext ==
  \/ TraversalBegin \/ TraversalBaseline \/ TraversalProbe
  \/ Judge("traversal",
           Reported(TraversalValidate(cand), TraversalEvidence(cand), TraversalAssess(cand)))

-----------------------------------------------------------------------------
(* A confirmed traversal is an answer of the application itself that holds *)
(* the canary where the first baseline did not, or a 200 where a baseline  *)
(* was missing; a likely one has the status of a baseline and the length   *)
(* of another; what is inconclusive has the status of a WAF or of a rate   *)
(* limiter, which decides nothing, or one no baseline explains             *)
(* (path_traversal.py discover, _outcome_for_traversal).                   *)
(*                                                                         *)
(* That a 5xx answer is downgraded too (path_traversal.py:13-14) is not    *)
(* part of it: a 500 that holds the canary is confirmed.                   *)
TraversalConfirmed ==
  Reports("traversal") =>
    LET f == result.finding  a == cand.seen IN
    /\ f.status = "confirmed" =>
         /\ a.status \notin WafStatus \cup RateStatus
         /\ \/ a.echo /\ ~cand.base[1].echo
            \/ a.status = 200 /\ \E i \in DOMAIN cand.base : cand.base[i].status = 404
    /\ a.status \in WafStatus \cup RateStatus => f.status = "inconclusive"
    /\ f.status = "likely" =>
         /\ f.severity = "medium" /\ ~result.evidence.waf
         /\ \E i \in DOMAIN cand.base : cand.base[i].status = a.status
         /\ \E i \in DOMAIN cand.base : cand.base[i].length # a.length
    /\ f.status = "inconclusive" =>
         \/ a.status \in WafStatus \cup RateStatus
         \/ \E i \in DOMAIN cand.base : cand.base[i].status # a.status
    /\ result.evidence.outcome = f.status
=============================================================================
