------------------------------ MODULE CheckRun ------------------------------
(***************************************************************************)
(* The life of one check inside the orchestrator: discover sends requests  *)
(* and returns candidates, each candidate is validated, its evidence       *)
(* collected and a finding made of it.  The modules of the checks give the *)
(* requests of discover as actions, and validate, collect_evidence and     *)
(* assess as operators on a candidate.                                     *)
(*                                                                         *)
(* After discover the candidates do not depend on one another: a behaviour *)
(* follows one of those found, or none.                                    *)
(***************************************************************************)
EXTENDS ActionGate, FiniteSets, SequencesExt

CONSTANTS
  Checks,   \* the checks of this instance
  Payloads, \* the payloads of an injection check, in order
  Paths,    \* the paths a check asks for, in order
  Consents  \* what the configuration may allow

(* The lists are literals of the checks, the switches truth values.        *)
ASSUME RunAssumption ==
  /\ Payloads \in Seq(Range(Payloads)) /\ Payloads # <<>>
  /\ Paths \in Seq(Range(Paths)) /\ Paths # <<>> /\ IsInjective(Paths)
  /\ \A e \in Consents : {e.active, e.terms, e.allow} \subseteq BOOLEAN

VARIABLES
  check,    \* the check
  pc,       \* where it is: "start", a stage of its own, "judge" or "done"
  env,      \* authorization section of the configuration
  loc,      \* its local variables
  cand,     \* the candidate followed, one of those found so far
  wire,     \* history: the requests sent
  result    \* what the orchestrator has of the candidate followed

runVars == <<check, pc, env, loc, cand, wire, result, gateVars>>

Outcome == {"confirmed", "likely", "inconclusive", "false_positive"}
Nothing == [stage |-> "none"]

(* authorization.active_testing, .acknowledged_safety_terms, ...           *)
Authorised == env.active /\ env.terms

RunInit ==
  /\ GateInit
  /\ check \in Checks /\ pc = "start" /\ env \in Consents
  /\ loc = <<>> /\ cand = Nothing /\ wire = <<>> /\ result = Nothing

At(c, stage) == check = c /\ pc = stage

(* Changes of pc, of the locals, of what is found and sent. *)
Step(stage, locals) == pc' = stage /\ loc' = locals
Found(new)   ==
  \/ UNCHANGED cand
  \/ cand = Nothing /\ cand' \in new
Sent(reqs)   == wire' = wire \o reqs
Keeps        == UNCHANGED <<check, env, result, gateVars>>
Probe(stage, locals, reqs, new) ==
  Step(stage, locals) /\ Sent(reqs) /\ Found(new) /\ Keeps

(* A request that raises where nothing catches it: discover fails and what *)
(* it had found is lost.                                                   *)
Raised(reqs) ==
  Step("done", loc) /\ Sent(reqs) /\ cand' = Nothing /\ Keeps

(* discover begins.  Checks that probe need the operator's authorisation,  *)
(* and those that have a plan for the gate need its approval.              *)
Begin(c, active, stage, locals) ==
  /\ At(c, "start")
  /\ IF active /\ ~Authorised THEN Step("done", loc) ELSE Step(stage, locals)
  /\ UNCHANGED <<cand, wire>> /\ Keeps

(* Faulty form. *)
ProceedsAnyway == mode = None \/ history' # history

Proceeds == mode = None \/ Last(history').approved

(* Authorised, then gate.ask(plan, allow_destructive), level limit 2.      *)
BeginGated(c, plan, stage, locals) ==
  /\ At(c, "start")
  /\ UNCHANGED <<check, env, cand, wire, result, mode>>
  /\ \/ ~Authorised /\ Step("done", loc) /\ UNCHANGED history
     \/ /\ Authorised
        /\ \E line \in Lines :
             history' = IF mode = None THEN history
                        ELSE Logged(Decision(plan, env.allow, 2, line))
        /\ IF Proceeds THEN Step(stage, locals) ELSE Step("done", loc)

CanaryPlan == [risk |-> LOW, destructive |-> FALSE, level |-> None, word |-> None]

(* validate gives [outcome, confidence]; a FALSE_POSITIVE is dropped; the   *)
(* status of the finding comes from the outcome and its confidence from    *)
(* the validation, whatever assess says.                                   *)
Status(outcome) ==
  IF outcome \in {"confirmed", "likely"} THEN outcome ELSE "inconclusive"

Reported(v, evidence, finding) ==
  IF v.outcome = "false_positive" THEN [stage |-> "dropped", v |-> v]
  ELSE IF finding = Nothing
       THEN [stage |-> "unreported", v |-> v, evidence |-> evidence]
       ELSE [stage |-> "reported", v |-> v, evidence |-> evidence,
             assessed |-> finding,
             finding |-> [finding EXCEPT !.status = Status(v.outcome),
                                         !.confidence = v.confidence]]

Judge(c, report) ==
  /\ At(c, "judge")
  /\ result' = IF cand = Nothing THEN result ELSE report
  /\ pc' = "done"
  /\ UNCHANGED <<check, env, loc, cand, wire, gateVars>>

Is(c) == check = c
Reports(c) == Is(c) /\ result.stage = "reported"

-----------------------------------------------------------------------------
(* Which checks ask for what before they begin. *)
Active == {"xss", "sqli", "cmdi", "ssrf", "traversal", "bola", "graphql", "bfla",
           "behavior", "invalidation"}
Gated  == {"xss", "sqli", "cmdi", "ssrf", "traversal", "bola", "behavior"}
NeedsTerms == Active \ {"ssrf", "invalidation"}

Allowed ==
  /\ check \in Active => env.active
  /\ check \in NeedsTerms => env.terms
  /\ check \in Gated /\ mode # None => history # <<>> /\ Last(history).approved

Contract == INSTANCE CheckContract WITH
  Verdicts <- Outcome \cup {"dropped", "unreported"},
  phase    <- CASE pc = "start" -> "idle" [] pc = "done" -> "over" [] OTHER -> "probing",
  allowed  <- Allowed,
  sent     <- Len(wire),
  verdict  <- IF result = Nothing THEN "none"
              ELSE IF result.stage = "reported" THEN result.finding.status
              ELSE result.stage

(* Every check keeps the contract: no request before the operator's         *)
(* authorisation and, for the checks that ask it, the gate's approval; none *)
(* after it is over; one report at most (each discover, orchestrator.py     *)
(* _run_check, _validate_one).                                              *)
KeepsContract == Contract!Spec
=============================================================================
