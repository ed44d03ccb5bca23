------------------------------ MODULE BolaCheck -----------------------------
(***************************************************************************)
(* bola-idor: every resource is asked for as the first principal, and where *)
(* it is there, as each of the others.  Of a body the model keeps its shape *)
(* (length and first characters) and what comes after.                      *)
(***************************************************************************)
EXTENDS CheckRun

CONSTANT MaxPrincipals   \* the operator's accounts, at most

Owner     == 1
Body      == [shape : 1..2, rest : 1..2]
Asked     == [status : {200, 302, 403, 404, 429, 500}, body : Body]

BolaPlan == [risk |-> 2, destructive |-> FALSE, level |-> None, word |-> None]

(* Fewer than two accounts: nothing to compare. *)
BolaBegin ==
  \E n \in 1..MaxPrincipals :
    IF n < 2 THEN Begin("bola", TRUE, "done", loc)
    ELSE BeginGated("bola", BolaPlan, "bola_owner",
                    [todo |-> Paths, n |-> n, who |-> Owner])

As(p) == [resource |-> Head(loc.todo), as |-> p]

(* The next account for this resource, or the next resource. *)
NextBola ==
  IF loc.who < loc.n
  THEN [pc |-> "bola_other", loc |-> [loc EXCEPT !.who = @ + 1]]
  ELSE [pc |-> IF Len(loc.todo) = 1 THEN "judge" ELSE "bola_owner",
        loc |-> [loc EXCEPT !.who = Owner, !.todo = Tail(@)]]

SkipResource ==
  [pc |-> IF Len(loc.todo) = 1 THEN "judge" ELSE "bola_owner",
   loc |-> [loc EXCEPT !.todo = Tail(@)]]

(* A request that raises, or any answer but 200: the resource is skipped.  *)
BolaOwner ==
  /\ At("bola", "bola_owner")
  /\ \/ Probe(SkipResource.pc, SkipResource.loc, <<As(Owner)>>, {})
     \/ \E b \in Body :
          Probe("bola_other",
                [todo |-> loc.todo, n |-> loc.n, who |-> Owner + 1, body |-> b],
                <<As(Owner)>>, {})

Refused(a) == a.status \notin 200..399

(* Faulty form. *)
BolaVerdictLax(own, other) == "confirmed"

(* The same body, or one of the same shape. *)
BolaVerdict(own, other) ==
  IF own = other \/ own.shape = other.shape THEN "confirmed" ELSE "likely"

BolaOther ==
  /\ At("bola", "bola_other")
  /\ LET new  == NextBola
         left == IF new.pc = "bola_other" THEN new.loc
                 ELSE [todo |-> new.loc.todo, n |-> loc.n, who |-> Owner]
     IN  \/ Probe(new.pc, left, <<As(loc.who)>>, {})
         \/ \E a \in Asked :
              Probe(new.pc, left, <<As(loc.who)>>,
                IF Refused(a) THEN {}
                ELSE {[resource |-> Head(loc.todo), as |-> loc.who,
                       status |-> a.status, own |-> loc.body, other |-> a.body,
                       verdict |-> BolaVerdict(loc.body, a.body)]})

BolaValidate(c) ==
  [outcome |-> c.verdict, confidence |-> IF c.verdict = "confirmed" THEN "high" ELSE "medium"]

(* The evidence claims a confirmed violation whatever the verdict.         *)
BolaEvidence(c) ==
  [outcome |-> "confirmed", confidence |-> "high",
   uncertainty |-> IF c.status \in {429, 503} THEN 80
                   ELSE IF c.status \in {403, 406, 419, 501} THEN 70 ELSE 0]

BolaAssess(c) ==
  [severity |-> "high", confidence |-> BolaValidate(c).confidence,
   status |-> c.verdict, parameter |-> c.resource]

BolaNext ==
  \/ BolaBegin \/ BolaOwner \/ BolaOther
  \/ Judge("bola", Reported(BolaValidate(cand), BolaEvidence(cand), BolaAssess(cand)))

-----------------------------------------------------------------------------
(* A finding says that another account was given, with a success or a      *)
(* redirect, a resource the owner had just been given: the owner is asked  *)
(* first, nobody else about what the owner does not get, and a finding is  *)
(* never blurred by a WAF or a rate limiter (bola.py _probe_path_id,       *)
(* _evaluate, collect_evidence).                                           *)
BolaOwnerFirst ==
  Is("bola") =>
    /\ \A i \in DOMAIN wire : wire[i].as # Owner =>
         \E j \in 1..(i - 1) : wire[j] = [wire[i] EXCEPT !.as = Owner]
    /\ Reports("bola") =>
         /\ [resource |-> cand.resource, as |-> cand.as] \in Range(wire)
         /\ cand.as # Owner /\ result.evidence.uncertainty = 0
         /\ result.finding.status = "confirmed" <=> cand.own.shape = cand.other.shape
=============================================================================
