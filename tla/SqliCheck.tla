----------------------------- MODULE SqliCheck ------------------------------
(***************************************************************************)
(* sqli-time-based: for each parameter and payload a cheap comparison of   *)
(* one baseline with one probe, and the control and probe sequence when    *)
(* that one is not clearly fast.  Pairs do not depend on one another: one  *)
(* of them is followed.                                                    *)
(***************************************************************************)
EXTENDS ControlProbe

SqliBegin == BeginGated("sqli", CanaryPlan, "sqli_cheap", <<>>)

(* _KIND_BASE_SCORE of a timing promise, and the bonus of the comparison,  *)
(* in tenths.  DROP, DEFER or ESCALATE: the caller looks at the sign only. *)
CheapScore(delta) == IF delta < 8 THEN -3 ELSE 5
Escalation(score) ==
  LET s == 4 + score IN
  IF s >= 5 THEN "escalate" ELSE IF s * 2 <= 3 THEN "drop" ELSE "defer"

(* Either request may raise: no signal, and the sequence runs.  *)
SqliCheap ==
  /\ At("sqli", "sqli_cheap")
  /\ \/ \E sent \in {<<"cheap">>, <<"cheap", "cheap">>} :
          Probe("sequence", [seq |-> Fresh, cheap |-> "raised"], sent, {})
     \/ \E base, probe \in Times :
          LET score == CheapScore(probe - base) IN
          Probe(IF score < 0 THEN "judge" ELSE "sequence",
                [seq |-> Fresh, cheap |-> Escalation(score)],
                <<"cheap", "cheap">>, {})

(* Every verdict makes a candidate.  Its response is made up: status 200,  *)
(* the median of the probes as its time.                                   *)
SqliVerdict ==
  /\ At("sqli", "verdict")
  /\ Probe("judge", <<>>, <<>>,
       {[r |-> Result(loc.seq), status |-> 200, cheap |-> loc.cheap]})

SqliOutcome(v) == IF v = "timing_reproducible" THEN "confirmed" ELSE "inconclusive"

SqliValidate(c) ==
  [outcome    |-> SqliOutcome(c.r.verdict),
   confidence |-> CASE c.r.verdict = "timing_reproducible" -> "high"
                    [] c.r.verdict = "waf_interference" -> "medium"
                    [] OTHER -> "low"]

SqliEvidence(c) ==
  [outcome |-> SqliOutcome(c.r.verdict),
   uncertainty |-> Uncertainty(c.r.verdict), waf |-> c.r.waf, rate |-> c.r.rate,
   throttle |-> c.r.rate /\ c.status \in {429, 503},
   control |-> c.r.controls]

SqliWeights(v) ==
  CASE v = "timing_flaky"     -> [d \in {"response", "replay"}   |-> IF d = "replay" THEN 30 ELSE 100]
    [] v = "waf_interference" -> [d \in {"response", "behavior"} |-> IF d = "behavior" THEN 50 ELSE 100]
    [] v = "rate_limited"     -> [d \in {"response", "behavior"} |-> IF d = "behavior" THEN 20 ELSE 100]
    [] OTHER                  -> [d \in {"response"} |-> 100]

SqliAssess(c) ==
  LET v == c.r.verdict IN
  [severity |-> "high",
   confidence |-> Graded(Score(IF v = "timing_reproducible" THEN 4 ELSE 1,
                               SqliWeights(v), Uncertainty(v))),
   status |-> IF v = "timing_reproducible" THEN "confirmed" ELSE "inconclusive"]

SqliNext ==
  \/ SqliBegin \/ SqliCheap \/ Measure("sqli") \/ SqliVerdict
  \/ Judge("sqli", Reported(SqliValidate(cand), SqliEvidence(cand), SqliAssess(cand)))

-----------------------------------------------------------------------------
(* A confirmed delay (this check, command-injection): the baseline was     *)
(* steady, no probe was blocked, throttled or resized, none came back as   *)
(* fast as an undisturbed page, the slowest took two seconds more than the *)
(* median of the baselines, and the assessment and the evidence say so too *)
(* (run_control_probe_sequence, validate, assess).  The code asks no more: *)
(* the times of the controls enter no decision, and one surviving sample   *)
(* of one round is enough.                                                 *)
DelayConfirmed ==
  \A c \in {"sqli", "cmdi"} :
    Reports(c) /\ result.finding.status = "confirmed" =>
      /\ ~cand.r.waf /\ ~cand.r.rate
      /\ cand.r.low >= 5 /\ 2 * cand.r.high >= cand.r.baseline2 + 40
      /\ result.assessed.status = "confirmed" /\ result.evidence.outcome = "confirmed"
      /\ result.evidence.uncertainty = 10

(* What the environment did to a probe is told: an interfered sequence is  *)
(* an inconclusive finding whose evidence names the interference.          *)
InterferenceTold ==
  \A c \in {"sqli", "cmdi"} :
    Reports(c) /\ (cand.r.waf \/ cand.r.rate) =>
      /\ result.finding.status = "inconclusive"
      /\ result.evidence = Nothing \/ result.evidence.uncertainty >= 70
=============================================================================
