----------------------------- MODULE SsrfCheck ------------------------------
(***************************************************************************)
(* ssrf: a callback URL of its own in every URL parameter and form field,  *)
(* an indicator in the answer, and two polls of the callback service one   *)
(* second apart.  Whether and when the target fetches the URL is its       *)
(* affair: the callback may come at any moment after the probe.            *)
(***************************************************************************)
EXTENDS CheckRun

CONSTANT Targets    \* links and forms of the home page with a URL parameter

(* active_testing and a callback domain, its own or that of the OAST       *)
(* section; an internal domain ends the check.  The safety terms are not   *)
(* asked for.                                                              *)
Usable == env.active /\ env.oob = "outside"

SsrfBegin ==
  /\ At("ssrf", "start")
  /\ UNCHANGED <<check, env, cand, wire, result, mode>>
  /\ IF Usable
     THEN /\ history' = IF mode = None THEN history
                        ELSE Logged(Decision(CanaryPlan, env.allow, 2, ""))
          /\ Step(IF Proceeds THEN "ssrf_home" ELSE "done", loc)
     ELSE Step("done", loc) /\ UNCHANGED history

SsrfHome ==
  /\ At("ssrf", "ssrf_home")
  /\ \/ Probe("done", <<>>, <<"home">>, {})
     \/ \E todo \in SetToSeqs(Targets) \cup {<<>>} :
          Probe(IF todo = <<>> THEN "done" ELSE "ssrf_probe",
                [todo |-> todo, hit |-> FALSE, verified |-> FALSE], <<"home">>, {})

(* What the answer shows of the URL. *)
Answer == [status : {200, 302, 403, 429}, location : BOOLEAN, body : BOOLEAN,
           header : BOOLEAN]

ClassifyIndicator(a) ==
  IF a.status = 302 /\ a.location THEN "redirect"
  ELSE IF a.body THEN "body_reference"
  ELSE IF a.header \/ a.location THEN "successful_fetch" ELSE None

SsrfProbe ==
  /\ At("ssrf", "ssrf_probe")
  /\ LET target == Head(loc.todo)
         rest   == Tail(loc.todo)
         stage  == IF rest = <<>> THEN "ssrf_poll" ELSE "ssrf_probe"
         left   == [loc EXCEPT !.todo = rest]
     IN  \/ Probe(stage, left, <<target>>, {})
         \/ \E a \in Answer, fetches \in BOOLEAN :
              Probe(stage, left, <<target>>,
                IF ClassifyIndicator(a) = None THEN {}
                ELSE {[target |-> target, indicator |-> ClassifyIndicator(a),
                       status |-> a.status, fetches |-> fetches]})

(* The target calls back, at any time. *)
SsrfCallback ==
  /\ Is("ssrf") /\ pc \in {"ssrf_probe", "ssrf_poll", "ssrf_again"}
  /\ cand # Nothing /\ cand.fetches /\ ~loc.hit
  /\ loc' = [loc EXCEPT !.hit = TRUE]
  /\ UNCHANGED <<check, pc, env, cand, wire, result, gateVars>>

(* verify: the events of the candidate's token; a service that does not    *)
(* answer has none.                                                        *)
Verified(up) == up /\ loc.hit

SsrfPoll(stage, next) ==
  /\ At("ssrf", stage)
  /\ \E up \in BOOLEAN :
       Step(IF cand = Nothing \/ Verified(up) THEN "judge" ELSE next,
            [loc EXCEPT !.verified = cand # Nothing /\ Verified(up)])
  /\ UNCHANGED <<cand, wire>> /\ Keeps

SsrfValidate(c) ==
  IF loc.verified THEN [outcome |-> "confirmed", confidence |-> "high"]
  ELSE IF c.indicator = None THEN [outcome |-> "false_positive", confidence |-> "low"]
  ELSE [outcome |-> "likely",
        confidence |-> IF c.indicator = "redirect" THEN "medium" ELSE "low"]

(* The evidence says "likely" also when the callback was seen. *)
SsrfEvidence(c) ==
  [outcome |-> "likely",
   uncertainty |->
     IF c.status \in {403, 429} THEN 70
     ELSE CASE c.indicator = "successful_fetch" -> 20
            [] c.indicator = "redirect" -> 40
            [] c.indicator = "body_reference" -> 60]

SsrfAssess(c) == [severity |-> "high", confidence |-> "medium", status |-> "likely"]

SsrfNext ==
  \/ SsrfBegin \/ SsrfHome \/ SsrfProbe \/ SsrfCallback
  \/ SsrfPoll("ssrf_poll", "ssrf_again") \/ SsrfPoll("ssrf_again", "judge")
  \/ Judge("ssrf", Reported(SsrfValidate(cand), SsrfEvidence(cand), SsrfAssess(cand)))

-----------------------------------------------------------------------------
(* A confirmed request forgery rests on a callback to the token of that    *)
(* very probe, whatever the answer looked like; a callback service that is *)
(* down or late leaves the finding likely, never confirmed and never lost  *)
(* (ssrf.py validate, oast_interactsh.py poll and verify).                 *)
SsrfCallbackDecides ==
  Is("ssrf") /\ result # Nothing =>
    /\ Reports("ssrf")
    /\ result.finding.status = IF loc.verified THEN "confirmed" ELSE "likely"
    /\ loc.verified => cand.fetches /\ loc.hit

(* Without a callback domain that is not internal, nothing is sent         *)
(* (ssrf.py discover).                                                     *)
SsrfNeedsDomain ==
  Is("ssrf") /\ wire # <<>> => env.active /\ env.oob = "outside"
=============================================================================
