----------------------- MODULE CommandInjectionCheck ------------------------
(***************************************************************************)
(* command-injection: the sequence for each payload of a parameter until a *)
(* verdict settles the parameter.  One parameter is followed, with the     *)
(* payloads in Payloads.                                                   *)
(***************************************************************************)
EXTENDS ControlProbe

CmdiBegin ==
  BeginGated("cmdi", CanaryPlan, "sequence", [seq |-> Fresh, todo |-> Payloads])

(* A noisy baseline, or no probe at all, gives the parameter up; so does a *)
(* finding or an intermediary; a plain or an anomalous answer goes on.     *)
Settled(s) ==
  \/ Verdict(s) \in {"timing_flaky", "timing_reproducible",
                     "waf_interference", "rate_limited"}
  \/ Verdict(s) = "inconclusive" /\ s.probe = <<>>

CmdiMakesCandidate(s) == Verdict(s) \notin {"timing_flaky", "inconclusive"}

CmdiVerdict ==
  /\ At("cmdi", "verdict")
  /\ LET s    == loc.seq
         over == Settled(s) \/ Len(loc.todo) = 1
     IN  Probe(IF over THEN "judge" ELSE "sequence",
               [seq |-> Fresh, todo |-> IF over THEN loc.todo ELSE Tail(loc.todo)],
               <<>>,
               IF CmdiMakesCandidate(s)
               THEN {[r |-> Result(s), payload |-> Head(loc.todo)]}
               ELSE {})

(* _outcome_for_verdict *)
CmdiValidate(c) ==
  [outcome    |-> IF c.r.verdict = "timing_reproducible" THEN "confirmed" ELSE "inconclusive",
   confidence |-> CASE c.r.verdict = "timing_reproducible" -> "high"
                    [] c.r.verdict \in {"waf_interference", "rate_limited"} -> "medium"
                    [] OTHER -> "low"]

(* The response kept is that of the last probe that answered: none, and    *)
(* there is no evidence.                                                   *)
CmdiEvidence(c) ==
  IF c.r.high = 0 THEN Nothing ELSE
  [outcome |-> IF c.r.verdict = "timing_reproducible" THEN "confirmed" ELSE "inconclusive",
   uncertainty |-> Uncertainty(c.r.verdict), waf |-> c.r.waf, rate |-> c.r.rate,
   control |-> c.r.controls]

(* _build_signals: all signals are of the dimension "response". *)
CmdiWeights(r) ==
  IF r.verdict = "timing_anomaly" THEN <<>>
  ELSE [d \in {"response"} |-> IF r.verdict = "timing_reproducible" THEN 70 ELSE 90]

CmdiAssess(c) ==
  [severity |-> "critical",
   confidence |-> Graded(Score(4, CmdiWeights(c.r), Uncertainty(c.r.verdict))),
   status |-> IF c.r.verdict = "timing_reproducible" THEN "confirmed" ELSE "inconclusive"]

CmdiNext ==
  \/ CmdiBegin \/ Measure("cmdi") \/ CmdiVerdict
  \/ Judge("cmdi", Reported(CmdiValidate(cand), CmdiEvidence(cand), CmdiAssess(cand)))

-----------------------------------------------------------------------------
(* Once an intermediary blocks or throttles a parameter, or its delay is   *)
(* proven, no further payload is sent to it (command_injection.py, the     *)
(* early breaks): after a flagged or reproducible sequence nothing follows *)
(* on the wire.                                                            *)
CmdiStopsWhenSettled ==
  Is("cmdi") /\ cand # Nothing /\ cand.r.verdict # "timing_anomaly" =>
    cand.payload = Head(loc.todo) /\ pc \in {"judge", "done"}
=============================================================================
