--------------------------- MODULE MutationChecks ---------------------------
(***************************************************************************)
(* mass-assignment and http-methods: two checks of the passive profile     *)
(* that send requests which may change the target, the first when active    *)
(* testing is on, the second always.                                        *)
(***************************************************************************)
EXTENDS CheckRun

-----------------------------------------------------------------------------
(* mass-assignment: sensitive names among the fields of profile answers,   *)
(* and a write of a canary to each when active testing is on.              *)
FieldSeverity == [is_admin |-> "high", balance |-> "medium", mfa_enabled |-> "low"]

MassBegin == Begin("mass", FALSE, "mass_read", [todo |-> Paths])

Field(f, mutation) ==
  [path |-> Head(loc.todo), field |-> f, severity |-> FieldSeverity[f],
   mutation |-> mutation]

(* A path that raises, is no 200 or no JSON is skipped.                     *)
MassRead ==
  /\ At("mass", "mass_read")
  /\ \E fields \in SUBSET DOMAIN FieldSeverity :
       LET get  == <<[path |-> Head(loc.todo), method |-> "GET"]>>
           rest == [todo |-> Tail(loc.todo)]
       IN  IF fields # {} /\ env.active
           THEN Probe("mass_write", [todo |-> loc.todo, fields |-> fields], get, {})
           ELSE Probe(IF rest.todo = <<>> THEN "judge" ELSE "mass_read", rest, get,
                      {Field(f, None) : f \in fields})

Write == [status : {200, 401, 403, 429, 500}, canary : BOOLEAN]

MutationOutcome(w) ==
  IF w.status \in 200..299
  THEN IF w.canary THEN "confirmed" ELSE "likely"
  ELSE "inconclusive"

(* _attempt_mutation: a write that raises leaves the candidate as read.    *)
MassWrite ==
  /\ At("mass", "mass_write")
  /\ \E f \in loc.fields :
       LET left == loc.fields \ {f}
           rest == Tail(loc.todo)
           post == <<[path |-> Head(loc.todo), method |-> "POST"]>>
           Go(mutation) ==
             IF left # {} THEN Probe("mass_write", [loc EXCEPT !.fields = left], post,
                                     {Field(f, mutation)})
             ELSE Probe(IF rest = <<>> THEN "judge" ELSE "mass_read", [todo |-> rest],
                        post, {Field(f, mutation)})
       IN  Go(None) \/ \E w \in Write : Go(w)

MassOutcome(c) == IF c.mutation = None THEN "likely" ELSE MutationOutcome(c.mutation)

MassValidate(c) ==
  LET o == MassOutcome(c) IN
  [outcome |-> o,
   confidence |-> CASE o = "confirmed" -> "high"
                    [] o = "likely" /\ c.severity = "high" -> "medium"
                    [] OTHER -> "low"]

MassEvidence(c) ==
  LET o == MassOutcome(c) IN
  [outcome |-> o,
   confidence |-> CASE o = "confirmed" -> "high" [] o = "inconclusive" -> "low"
                    [] OTHER -> "medium",
   uncertainty |-> IF c.mutation = None THEN 40 ELSE IF o = "confirmed" THEN 10 ELSE 60,
   waf |-> c.mutation # None /\ c.mutation.status \in {403, 406, 419, 501},
   rate |-> c.mutation # None /\ c.mutation.status \in {429, 503}]

MassAssess(c) ==
  [severity |-> c.severity, status |-> MassOutcome(c),
   confidence |-> MassEvidence(c).confidence, parameter |-> c.field]

MassNext ==
  \/ MassBegin \/ MassRead \/ MassWrite
  \/ Judge("mass", Reported(MassValidate(cand), MassEvidence(cand), MassAssess(cand)))

-----------------------------------------------------------------------------
(* http-methods: OPTIONS and then every dangerous method on every path.    *)
(* No request is guarded: one that raises ends the check.                  *)
ProbeMethods == <<"PUT", "DELETE", "PATCH", "CONNECT", "TRACE">>

MethodsBegin == Begin("methods", FALSE, "options", [todo |-> Paths])

Use(method) == <<[path |-> Head(loc.todo), method |-> method]>>

(* The Allow header of the answer. *)
MethodsOptions ==
  /\ At("methods", "options")
  /\ \/ Raised(Use("OPTIONS"))
     \/ \E allow \in SUBSET {"PUT", "TRACE"} :
          Probe("methods", [todo |-> loc.todo, allow |-> allow, methods |-> ProbeMethods],
                Use("OPTIONS"), {})

(* None is no issue. *)
ASSUME IssueAssumption ==
  None \notin {"trace_enabled", "connect_enabled", "method_allowed_without_auth"}

Classify(method, status) ==
  IF status \notin 200..299 THEN None
  ELSE CASE method = "TRACE"   -> "trace_enabled"
         [] method = "CONNECT" -> "connect_enabled"
         [] OTHER              -> "method_allowed_without_auth"

(* _upsert: what the probe shows replaces what Allow advertised.           *)
Issue(method, status, allow) ==
  IF Classify(method, status) # None THEN Classify(method, status)
  ELSE IF method \in allow THEN "method_advertised_in_allow" ELSE None

MethodsProbe ==
  /\ At("methods", "methods")
  /\ LET method == Head(loc.methods)
         rest   == Tail(loc.todo)
         Go(found) ==
           IF Len(loc.methods) > 1
           THEN Probe("methods", [loc EXCEPT !.methods = Tail(@)], Use(method), found)
           ELSE Probe(IF rest = <<>> THEN "judge" ELSE "options",
                      [todo |-> rest], Use(method), found)
     IN  \/ Raised(Use(method))
         \/ \E status \in {200, 302, 401, 405} :
              LET issue == Issue(method, status, loc.allow) IN
              Go(IF issue = None THEN {}
                 ELSE {[path |-> Head(loc.todo), method |-> method,
                        issue |-> issue, probed |-> status]})

MethodsValidate(c) == [outcome |-> "confirmed", confidence |-> "high"]
MethodsEvidence(c) == [method |-> c.method, status |-> c.probed]
MethodsAssess(c) ==
  [severity |-> IF c.method = "TRACE" THEN "medium" ELSE "high",
   confidence |-> "high", status |-> "discovered"]

MethodsNext ==
  \/ MethodsBegin \/ MethodsOptions \/ MethodsProbe
  \/ Judge("methods",
           Reported(MethodsValidate(cand), MethodsEvidence(cand), MethodsAssess(cand)))

-----------------------------------------------------------------------------
(* A field is reported as writable only where a write of it was accepted    *)
(* and came back; a write that was refused, blocked or limited withdraws   *)
(* to inconclusive what the read alone had made likely, and the evidence   *)
(* says the same (mass_assignment.py:19-29).                               *)
MassWritable ==
  Reports("mass") =>
    LET f == result.finding m == cand.mutation IN
    /\ f.status = "confirmed" <=> m # None /\ m.status = 200 /\ m.canary
    /\ f.status = "inconclusive" <=> m # None /\ m.status # 200
    /\ result.evidence.outcome = f.status
    /\ m # None => [path |-> cand.path, method |-> "POST"] \in Range(wire)

(* What is reported of a method is what the method itself answered, where  *)
(* it was accepted; only then is it reported as usable without             *)
(* authentication, and nothing is reported when a later request fails      *)
(* (http_methods.py discover, _upsert).                                    *)
MethodsShown ==
  Reports("methods") =>
    /\ cand.issue = "method_advertised_in_allow" <=> cand.probed \notin 200..299
    /\ \A p \in Range(Paths) :
         {wire[i].method : i \in {j \in DOMAIN wire : wire[j].path = p}}
           = Range(ProbeMethods) \cup {"OPTIONS"}
=============================================================================
