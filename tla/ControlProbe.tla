---------------------------- MODULE ControlProbe ----------------------------
(***************************************************************************)
(* run_control_probe_sequence: three baselines, then twice a control and   *)
(* two probes, and the verdict on the delay.  A request that raises leaves *)
(* no sample.  Times are in units of 100 ms.  The samples are kept sorted: *)
(* only medians, sums and extremes of them are used.  Of the controls only *)
(* the number that answered is kept: their times enter no decision.        *)
(***************************************************************************)
EXTENDS CheckRun

CONSTANT Times   \* response times of an answer

ASSUME TimesAssumption == Times \subseteq Nat \ {0}

(* "blocked": 403, 406, 419, 501.  "throttled": 429, 503.  "resized": a    *)
(* body over five times, or under a fifth of, that of the first baseline.  *)
Sign == {"ok", "blocked", "throttled", "resized"}

Fresh == [n |-> 0, base |-> <<>>, blank |-> FALSE, ctl |-> 0, probe |-> <<>>,
          waf |-> FALSE, rate |-> FALSE]

(* Before the first sample that took longer. *)
Sample(s, t)  ==
  InsertAt(s, Min({i \in 1..Len(s) : s[i] > t} \cup {Len(s) + 1}), t)
Median2(s)    == s[(Len(s) + 1) \div 2] + s[Len(s) \div 2 + 1]  \* twice it
SumOf(s)      == FoldLeft(LAMBDA a, x : a + x, 0, s)
SquaresOf(s)  == FoldLeft(LAMBDA a, x : a + x * x, 0, s)

(* stdev / mean > 30 %, without the root. *)
Flaky(s) ==
  LET n == Len(s) IN
  n >= 2 /\ 100 * n * (n * SquaresOf(s) - SumOf(s) * SumOf(s))
              > 9 * (n - 1) * SumOf(s) * SumOf(s)

(* Baselines 0..2, control 3, probes 4 and 5, control 6, probes 7 and 8. *)
Kind(n) == IF n < 3 THEN "baseline" ELSE IF n \in {3, 6} THEN "control" ELSE "probe"

LooksLikeWaf(s, sign) == sign = "blocked" \/ (sign = "resized" /\ ~s.blank)
LooksLikeRateLimit(sign) == sign = "throttled"

(* Faulty form. *)
HasFastStrict(s) == s # <<>> /\ s[1] < 1

HasSlow(s) == s # <<>> /\ s[Len(s)] > 20
HasFast(s) == s # <<>> /\ s[1] < 5

(* Nothing more is sent: no usable baseline, a round disturbed, or the end. *)
Ends(s) ==
  \/ s.n = 3 /\ (s.base = <<>> \/ Flaky(s.base))
  \/ s.n = 6 /\ (s.waf \/ s.rate)
  \/ s.n = 9

Taken(s, t, sign, blank) ==
  CASE Kind(s.n) = "baseline" ->
         [s EXCEPT !.n = @ + 1, !.base = Sample(@, t),
                   !.blank = IF s.base = <<>> THEN blank ELSE @]
    [] Kind(s.n) = "control" -> [s EXCEPT !.n = @ + 1, !.ctl = @ + 1]
    [] OTHER ->
         [s EXCEPT !.n = @ + 1, !.probe = Sample(@, t),
                   !.waf = @ \/ LooksLikeWaf(s, sign),
                   !.rate = @ \/ LooksLikeRateLimit(sign)]

Lost(s) == [s EXCEPT !.n = @ + 1]

Answers(s) ==
  {Lost(s)} \cup
  IF Kind(s.n) = "probe"
  THEN {Taken(s, t, sign, s.blank) : t \in Times, sign \in Sign}
  ELSE {Taken(s, t, "ok", blank) : t \in Times,
        blank \in IF s.base = <<>> THEN BOOLEAN ELSE {s.blank}}

Reproducible(s) ==
  /\ Median2(s.probe) >= Median2(s.base) + 40
  /\ Median2(s.probe) >= 3 * Median2(s.base)

Verdict(s) ==
  IF s.base = <<>> THEN "inconclusive"
  ELSE IF Flaky(s.base) THEN "timing_flaky"
  ELSE IF s.waf THEN "waf_interference"
  ELSE IF s.rate THEN "rate_limited"
  ELSE IF s.probe = <<>> THEN "inconclusive"
  ELSE IF HasSlow(s.probe) /\ HasFast(s.probe) THEN "timing_anomaly"
  ELSE IF Reproducible(s) THEN "timing_reproducible" ELSE "inconclusive"

(* The result a check receives: a round that was interfered with reports   *)
(* its flag only; without probe statistics the median stays 0.             *)
Result(s) ==
  LET v == Verdict(s) IN
  [verdict |-> v, baseline2 |-> IF s.base = <<>> THEN 0 ELSE Median2(s.base),
   probe2 |-> IF \/ v \in {"timing_anomaly", "timing_reproducible"}
                 \/ v = "inconclusive" /\ s.base # <<>> /\ s.probe # <<>>
              THEN Median2(s.probe) ELSE 0,
   waf |-> v = "waf_interference", rate |-> v = "rate_limited",
   low |-> IF s.probe = <<>> THEN 0 ELSE s.probe[1],
   high |-> IF s.probe = <<>> THEN 0 ELSE s.probe[Len(s.probe)],
   controls |-> s.ctl > 0]

(* One request of the sequence of check c, kept in loc.seq. *)
Measure(c) ==
  /\ At(c, "sequence")
  /\ \E s \in Answers(loc.seq) :
       /\ Step(IF Ends(s) THEN "verdict" ELSE "sequence", [loc EXCEPT !.seq = s])
       /\ wire' = Append(wire, Kind(loc.seq.n))
  /\ UNCHANGED cand /\ Keeps

(* environment_uncertainty of the evidence, per cent. *)
Uncertainty(verdict) ==
  CASE verdict = "timing_reproducible" -> 10
    [] verdict = "timing_flaky" -> 60
    [] verdict = "timing_anomaly" -> 50
    [] verdict = "waf_interference" -> 70
    [] verdict = "rate_limited" -> 80
    [] OTHER -> 30

(* ConfidenceScorer, in thousandths.  weights: per dimension, its largest  *)
(* weight in hundredths; uncertainty in hundredths, scale 2.0.             *)
Score(oracle, weights, uncertainty) ==
  LET dims == Cardinality(DOMAIN weights)
      sum  == FoldFunction(LAMBDA a, b : a + b, 0, weights)
      mult == IF dims >= 4 THEN 25 ELSE 10 + 5 * (dims - 1)
      raw  == (oracle * mult * (2000 + sum)) \div 20
  IN  IF dims = 0 THEN 0 ELSE
      IF raw <= 20 * uncertainty THEN 0 ELSE raw - 20 * uncertainty

Graded(score) ==
  IF score >= 4000 THEN "confirmed" ELSE IF score >= 3000 THEN "high"
  ELSE IF score >= 2000 THEN "medium" ELSE IF score >= 1000 THEN "low" ELSE "tentative"
=============================================================================
