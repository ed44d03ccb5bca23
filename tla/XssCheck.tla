------------------------------ MODULE XssCheck ------------------------------
(***************************************************************************)
(* xss-reflected: a harmless canary in every parameter of the home page    *)
(* and in JSON bodies; where it comes back, in which context, and what     *)
(* that makes of the finding.                                              *)
(*                                                                         *)
(* Of a page that holds the canary the model keeps the constructs around   *)
(* the first occurrence, whether the application encodes what it embeds,   *)
(* and whether "&quot;" occurs anywhere.  The canary has nothing in it     *)
(* that encoding changes, so it comes back the same either way.            *)
(***************************************************************************)
EXTENDS CheckRun

Enclosing == {"script", "style", "url", "attribute"}
Page == [within : SUBSET Enclosing, encodes : BOOLEAN, entity : BOOLEAN]

(* The order in which the constructs are looked for decides. *)
DetectReflectionContext(within) ==
  IF "script" \in within THEN "script"
  ELSE IF "style" \in within THEN "style"
  ELSE IF "url" \in within THEN "url"
  ELSE IF "attribute" \in within THEN "attribute" ELSE "html_text"

(* escaped: "&quot;" occurs and without it the canary is gone.  The canary *)
(* is alphanumeric, no entity is part of it: it never is.                  *)
CanaryLostWith(page) == FALSE
Escaped(page) == page.entity /\ CanaryLostWith(page)

(* Faulty form. *)
ContextLikely(context, encoded)  == IF encoded THEN "false_positive" ELSE "likely"

OutcomeForContext(context, encoded) ==
  IF encoded THEN "false_positive"
  ELSE IF context \in Enclosing THEN "confirmed" ELSE "likely"

ConfidenceForContext(context, encoded) ==
  IF encoded \/ context \in Enclosing \ {"style"} THEN "high" ELSE "medium"

XssSeverity(context) ==
  CASE context \in {"script", "url"} -> "critical"
    [] context = "style" -> "medium"
    [] OTHER -> "high"

XssBegin == BeginGated("xss", CanaryPlan, "xss_home", <<>>)

(* The home page: its parameters join the common ones.                     *)
XssHome ==
  /\ At("xss", "xss_home")
  /\ \/ Probe("done", <<>>, <<"home">>, {})
     \/ \E linked \in SUBSET {"linked"} :
          Probe("xss_param", [todo |-> <<"q">> \o SetToSeq(linked)],
                <<"home">>, {})

(* GET with the canary: a request that raises, an answer other than 200,   *)
(* and a page without the canary give no candidate.                        *)
XssParam ==
  /\ At("xss", "xss_param")
  /\ LET param == Head(loc.todo)
         rest  == Tail(loc.todo)
         next  == IF rest = <<>> THEN "xss_json" ELSE "xss_param"
         left  == IF rest = <<>> THEN [todo |-> <<"/api", "/api/v1">>]
                                 ELSE [todo |-> rest]
     IN  \/ Probe(next, left, <<param>>, {})
         \/ \E page \in Page :
              Probe(next, left, <<param>>,
                {[parameter |-> param, page |-> page, escaped |-> Escaped(page),
                   context |-> DetectReflectionContext(page.within)]})

(* POST of the canary as JSON: what is not HTML counts as encoded.         *)
XssJson ==
  /\ At("xss", "xss_json")
  /\ LET path == Head(loc.todo)
         rest == [todo |-> Tail(loc.todo)]
         next == IF rest.todo # <<>> THEN "xss_json" ELSE "judge"
     IN  \/ Probe(next, rest, <<path>>, {})
         \/ \E html \in BOOLEAN :
              Probe(next, rest, <<path>>,
                {[parameter |-> "(json body)", escaped |-> ~html,
                  page |-> [within |-> {}, encodes |-> ~html, entity |-> FALSE],
                  context |-> IF html THEN "html_text" ELSE "unknown"]})

XssValidate(c) ==
  [outcome    |-> OutcomeForContext(c.context, c.escaped),
   confidence |-> ConfidenceForContext(c.context, c.escaped)]

XssEvidence(c) ==
  [outcome |-> OutcomeForContext(c.context, c.escaped),
   confidence |-> IF OutcomeForContext(c.context, c.escaped) = "confirmed"
                  THEN "high" ELSE "medium",
   uncertainty |-> IF c.escaped THEN 0
                   ELSE CASE c.context \in {"script", "url"} -> 10
                          [] c.context = "attribute" -> 20
                          [] OTHER -> 40]

XssAssess(c) ==
  IF OutcomeForContext(c.context, c.escaped) = "false_positive" THEN Nothing
  ELSE [severity |-> XssSeverity(c.context), parameter |-> c.parameter,
        confidence |-> IF c.context \in {"script", "url", "attribute"}
                       THEN "high" ELSE "medium",
        status |-> IF OutcomeForContext(c.context, c.escaped) = "confirmed"
                   THEN "confirmed" ELSE "likely"]

XssNext ==
  \/ XssBegin \/ XssHome \/ XssParam \/ XssJson
  \/ Judge("xss", Reported(XssValidate(cand), XssEvidence(cand), XssAssess(cand)))

-----------------------------------------------------------------------------
(* What comes back outside of HTML is no finding; a finding is confirmed   *)
(* only where the canary lies in a construct it can break out of, and what *)
(* comes back raw in one is confirmed; the worst ones are those a browser  *)
(* runs at once.  Five computations of the context in xss.py (discover,    *)
(* validate, evidence twice, assess) must agree on it.                     *)
(*                                                                         *)
(* That a page which encodes what it embeds gives no finding (xss.py:9-12) *)
(* is not part of it: the code cannot tell, the canary comes back the same.*)
XssContextHonoured ==
  Reports("xss") =>
    LET c == cand f == result.finding IN
    /\ c.parameter = "(json body)" => ~c.page.encodes /\ f.status = "likely"
    /\ f.status = "confirmed" => c.page.within # {}
    /\ ~c.page.encodes /\ c.page.within # {} => f.status = "confirmed"
    /\ f.severity = "critical" =>
         f.status = "confirmed" /\ c.page.within \cap {"script", "url"} # {}
    /\ result.evidence.outcome = f.status
    /\ f.confidence = result.assessed.confidence
    /\ f.status = result.assessed.status
=============================================================================
