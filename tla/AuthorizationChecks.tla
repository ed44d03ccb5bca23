------------------------ MODULE AuthorizationChecks ------------------------
(***************************************************************************)
(* bfla, bfla-behavior and session-invalidation: what an account of the     *)
(* operator reaches that it should not.  The identities of the second and   *)
(* third come from the attack surface mapper.                               *)
(***************************************************************************)
EXTENDS CheckRun

CONSTANT Accounts    \* the names an operator may give to test accounts

(* AttackSurfaceMapper: a role from the name; the authentication method of *)
(* an identity is never set.                                               *)
RoleFromName(name) ==
  CASE name \in {"admin"} -> "admin" [] name \in {"tenant"} -> "tenant"
    [] OTHER -> "user"
Identity(name) == [name |-> name, role |-> RoleFromName(name), auth |-> None]
IsAuthenticated(i) == i.auth # None

(* Whose session a request carries: an account of its own, or whoever the  *)
(* scan is logged in as.                                                    *)
Default == "scan"
Get(p)  == <<[path |-> Head(loc.todo), as |-> p]>>

Onward(stage) ==
  [pc |-> IF Len(loc.todo) = 1 THEN "judge" ELSE stage,
   loc |-> [loc EXCEPT !.todo = Tail(@)]]

-----------------------------------------------------------------------------
(* bfla: admin paths as the first account; an answer 200 or 201 with two   *)
(* words that admin pages have is a candidate.                              *)
BflaBegin ==
  \E who \in Accounts \cup {None} :
    IF who = None THEN Begin("bfla", TRUE, "done", loc)
    ELSE Begin("bfla", TRUE, "bfla_path", [todo |-> Paths, who |-> who])

BflaPath ==
  /\ At("bfla", "bfla_path")
  /\ LET next == Onward("bfla_path") IN
     \/ Probe(next.pc, next.loc, Get(loc.who), {})
     \/ \E markers \in 0..4, status \in {200, 201} :
          Probe(next.pc, next.loc, Get(loc.who),
            IF markers < 2 THEN {}
            ELSE {[path |-> Head(loc.todo), principal |-> loc.who, markers |-> markers,
                   status |-> status]})

BflaValidate(c) ==
  IF c.markers >= 3 THEN [outcome |-> "confirmed", confidence |-> "high"]
  ELSE [outcome |-> "likely", confidence |-> "medium"]

(* Evidence of an answer that is a success: never of a WAF, never limited. *)
BflaEvidence(c) == [outcome |-> "likely", confidence |-> "high", uncertainty |-> 10]
BflaAssess(c)   == [severity |-> "high", confidence |-> "high", status |-> "confirmed"]

-----------------------------------------------------------------------------
(* bfla-behavior: admin paths for the first identity that is no admin.     *)
(* The request names no principal.                                          *)
BehaviorPlan == [risk |-> 2, destructive |-> FALSE, level |-> None, word |-> None]

NonAdmin(identities) ==
  LET others == SelectSeq(identities, LAMBDA i : i.role # "admin") IN
  IF others = <<>> THEN None ELSE Head(others).name

(* The gate is asked before a non-admin identity is looked for. *)
BehaviorBegin ==
  \E names \in SetToSeqs({"admin", "alice"}) \cup {<<>>, <<"admin">>, <<"tenant">>} :
    LET ids == [i \in DOMAIN names |-> Identity(names[i])] IN
    IF ids = <<>> THEN Begin("behavior", TRUE, "done", loc)
    ELSE IF NonAdmin(ids) = None
         THEN BeginGated("behavior", BehaviorPlan, "done", loc)
         ELSE BeginGated("behavior", BehaviorPlan, "behavior_path",
                         [todo |-> Paths, who |-> NonAdmin(ids)])

BehaviorPath ==
  /\ At("behavior", "behavior_path")
  /\ LET next == Onward("behavior_path") IN
     \/ Probe(next.pc, next.loc, Get(Default), {})
     \/ \E status \in {200, 201, 202} :
          Probe(next.pc, next.loc, Get(Default),
                {[path |-> Head(loc.todo), principal |-> loc.who, status |-> status]})

BehaviorValidate(c) == [outcome |-> "confirmed", confidence |-> "high"]
BehaviorEvidence(c) == [outcome |-> "likely", confidence |-> "medium", uncertainty |-> 20]
BehaviorAssess(c)   == [severity |-> "high", confidence |-> "high", status |-> "confirmed"]

-----------------------------------------------------------------------------
(* session-invalidation: an identity that is authenticated would be visited, *)
(* logged out and visited again.  None ever is (IsAuthenticated, Identity):  *)
(* the check always ends here, and what would follow is not modelled.        *)
InvalidationBegin ==
  /\ At("invalidation", "start")
  /\ \E names \in SUBSET Accounts :
       Step(IF env.active /\ (\E n \in names : IsAuthenticated(Identity(n)))
            THEN "visit" ELSE "done", [names |-> names])
  /\ UNCHANGED <<cand, wire>> /\ Keeps

AuthorizationNext ==
  \/ BflaBegin \/ BflaPath
  \/ Judge("bfla", Reported(BflaValidate(cand), BflaEvidence(cand), BflaAssess(cand)))
  \/ BehaviorBegin \/ BehaviorPath
  \/ Judge("behavior",
           Reported(BehaviorValidate(cand), BehaviorEvidence(cand), BehaviorAssess(cand)))
  \/ InvalidationBegin

-----------------------------------------------------------------------------
(* bfla: each admin path is asked once and only as the account the finding *)
(* names; two admin words make it likely, three confirmed, although assess  *)
(* always says confirmed (bfla.py discover, validate, assess).              *)
BflaAsLowPrivilege ==
  Is("bfla") =>
    /\ \A i, j \in DOMAIN wire : i # j => wire[i].path # wire[j].path
    /\ Reports("bfla") =>
         /\ [path |-> cand.path, as |-> cand.principal] \in Range(wire)
         /\ result.finding.status = "confirmed" <=> cand.markers > 2
         /\ result.finding.confidence = "high" <=> result.finding.status = "confirmed"
=============================================================================
