---------------------------- MODULE ProbeSeries ----------------------------
(***************************************************************************)
(* A custom probe: the request is checked, its payloads become a list of   *)
(* sends over a client of its own with a budget, and what came back is     *)
(* stored as a completed scan with one finding.                            *)
(***************************************************************************)
EXTENDS Naturals, Sequences

CONSTANTS
  BudgetCap,     \* 500: the largest budget of a probe
  ProbeBodies    \* the requests

ASSUME ProbeAssumption ==
  /\ BudgetCap \in Nat \ {0}
  /\ \A b \in ProbeBodies : b.payloads \in Nat \ {0} /\ b.payloads2 \in Nat

VARIABLES
  probePc,       \* "off", "check", "run", "store" or "done"
  body,          \* ProbeRunIn, and what of it passes the checks
  status,        \* of the response, 0 before
  budget,        \* requests the client has counted
  run,           \* ProbeRunResult: its counters and the fate of each send
  row            \* total_requests of the scan row and the evidence ids, if stored

probeVars == <<probePc, body, status, budget, run, row>>

NoRow == [requests |-> 0, evidence |-> {}]
FreshRun == [requested |-> 0, next |-> 0, skipped |-> 0, rejected |-> 0, fates |-> <<>>]

ProbeOff ==
  /\ probePc = "off" /\ body = [method |-> "off"] /\ status = 0 /\ budget = 0
  /\ run = FreshRun /\ row = NoRow

ProbeInit ==
  /\ probePc = "check" /\ body \in ProbeBodies /\ status = 0 /\ budget = 0
  /\ run = FreshRun /\ row = NoRow

Least(a, b) == IF a < b THEN a ELSE b

(* _build_limits: the payload count is the budget, up to the cap; and      *)
(* payloads past the budget are cut off.                                   *)
BudgetOf(b) == Least(b.payloads, BudgetCap)

Taken(b) == Least(b.payloads, BudgetOf(b))

(* Faulty form. *)
RefusalUnconfirmed(b) ==
  IF ~b.authenticated THEN 401
  ELSE IF ~b.target THEN 404
  ELSE IF ~b.valid THEN 422
  ELSE IF b.preset = "singles" THEN 500
  ELSE 200

(* A preset whose entries are not pairs has no second element to send.     *)
Refusal(b) ==
  IF ~b.authenticated THEN 401
  ELSE IF ~b.dwyor THEN 403
  ELSE IF ~b.target THEN 404
  ELSE IF ~b.valid THEN 422        \* payloads, or indices into the preset
  ELSE IF b.preset = "singles" THEN 500
  ELSE 200

Pairs(b) == b.mode \in {"pitchfork", "cluster_bomb"}

(* How many sends the mode makes of the payloads. *)
Series(b) ==
  CASE b.mode = "pitchfork"    -> Least(Taken(b), b.payloads2)
    [] b.mode = "cluster_bomb" -> Taken(b) * b.payloads2
    [] OTHER                   -> Taken(b)

Answer(code) == status' = code /\ probePc' = "done"

(* Checks before the first send: those of the route, then that a mode of   *)
(* two lists has a second one.                                             *)
ProbeRefuse ==
  /\ probePc = "check"
  /\ \/ Refusal(body) # 200 /\ Answer(Refusal(body))
     \/ Refusal(body) = 200 /\ Pairs(body) /\ body.payloads2 = 0 /\ Answer(500)
  /\ UNCHANGED <<body, budget, run, row>>

ProbeBegin ==
  /\ probePc = "check" /\ Refusal(body) = 200
  /\ Pairs(body) => body.payloads2 > 0
  /\ probePc' = "run" /\ run' = [run EXCEPT !.requested = Series(body)]
  /\ UNCHANGED <<body, status, budget, row>>

Executed == Len(run.fates)
Pending == probePc = "run" /\ run.next < run.requested

(* The payload has no place in the request: unknown position, or no        *)
(* {payload} in the template.                                              *)
SkipPayload ==
  /\ Pending /\ ~body.placed
  /\ run' = [run EXCEPT !.next = @ + 1, !.skipped = @ + 1]
  /\ UNCHANGED <<probePc, body, status, budget, row>>

(* Whatever raises becomes a sample, and is counted as a scope rejection.  *)
Rejected(fate) ==
  [run EXCEPT !.next = @ + 1, !.rejected = @ + 1, !.fates = Append(@, fate)]

Raises(fate) ==
  run' = Rejected(fate) /\ UNCHANGED budget

SendPayload ==
  /\ Pending /\ body.placed
  /\ \/ Raises("scope")
     \/ budget = BudgetOf(body) /\ Raises("budget")
     \/ /\ budget < BudgetOf(body) /\ budget' = budget + 1
        /\ \/ run' = [run EXCEPT !.next = @ + 1, !.fates = Append(@, "answered")]
           \/ run' = Rejected("redirect")   \* a hop out of scope
  /\ UNCHANGED <<probePc, body, status, row>>

SeriesEnds ==
  /\ probePc = "run" /\ ~Pending /\ probePc' = "store"
  /\ UNCHANGED <<body, status, budget, run, row>>

StoredProbe == [requests |-> Executed, evidence |-> 1..Executed]

PersistProbe ==
  /\ probePc = "store"
  /\ \/ row' = StoredProbe /\ Answer(200)
     \/ UNCHANGED row /\ Answer(500)        \* the commit fails
  /\ UNCHANGED <<body, budget, run>>

ProbeNext ==
  ProbeRefuse \/ ProbeBegin \/ SkipPayload \/ SendPayload \/ SeriesEnds \/ PersistProbe

ProbeSpec == ProbeInit /\ [][ProbeNext]_probeVars

-----------------------------------------------------------------------------
(* What is answered and stored adds up: every send of the series has a     *)
(* sample or was skipped, the row counts the samples and each sample has   *)
(* its evidence id, whichever of the sends raised (runner.py run,          *)
(* probes.py _persist_probe).                                              *)
ProbeAccounts ==
  status = 200 =>
    /\ run.requested = Executed + run.skipped
    /\ run.rejected <= Executed
    /\ row.requests = Executed /\ row.evidence = DOMAIN run.fates

(* The budget is fitted to the payloads: it refuses none of them, unless   *)
(* two lists are multiplied (probes.py _build_limits, run_custom_probe).   *)
BudgetFits ==
  \A i \in DOMAIN run.fates :
    run.fates[i] = "budget" => body.mode = "cluster_bomb"

(* Nothing leaves that the operator did not confirm, and what has left is  *)
(* in the database unless its commit failed (probes.py run_custom_probe).  *)
ProbeRecorded ==
  /\ budget > 0 => body.dwyor /\ body.authenticated /\ body.target
  /\ probePc = "done" /\ budget > 0 => row.requests >= budget \/ status = 500

(* The numbers of a probe can be trusted: what was allowed, what was sent  *)
(* and what is stored agree, in every mode and wherever a send raises.     *)
ProbeTruthful == ProbeAccounts /\ BudgetFits /\ ProbeRecorded
=============================================================================
