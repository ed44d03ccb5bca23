------------------------- MODULE SessionCookieCheck -------------------------
(***************************************************************************)
(* session-cookie: the session cookies of the home page, what exposes them *)
(* in the browser, on the network and on the server, and tokens in the     *)
(* page itself.  Cookies do not depend on one another: one is followed.    *)
(***************************************************************************)
EXTENDS ControlProbe

(* What a cookie's value is like: numbers or too short to judge, few       *)
(* different characters, 8 to 15 characters, long and random.              *)
Value == {"plain", "repetitive", "short", "strong"}
Cookie == [httponly : BOOLEAN, samesite : BOOLEAN, secure : BOOLEAN, value : Value]

CanaryParams == <<"q", "search", "query", "id", "name", "input">>

(* Passive: no authorisation is asked for. *)
SessionBegin == Begin("session", FALSE, "session_home", <<>>)

(* Without a session cookie only tokens in the page are looked for.        *)
SessionHome ==
  /\ At("session", "session_home")
  /\ \/ Probe("done", <<>>, <<"home">>, {})
     \/ \E leaks \in BOOLEAN, https \in BOOLEAN, cookie \in Cookie \cup {None} :
          LET page == [leaks |-> leaks, https |-> https, cookie |-> cookie,
                       todo |-> CanaryParams]
          IN  Probe(IF cookie = None THEN "session_vectors" ELSE "session_canary",
                    [page EXCEPT !.todo = IF cookie = None THEN <<>> ELSE @],
                    <<"home">>, {})

(* _quick_xss_probe: until a parameter sends the canary back with a 200.   *)
SessionCanary ==
  /\ At("session", "session_canary")
  /\ \E reflected \in BOOLEAN :
       LET rest == Tail(loc.todo) IN
       Probe(IF reflected \/ rest = <<>> THEN "session_vectors" ELSE "session_canary",
             [loc EXCEPT !.todo = IF reflected THEN <<Head(@)>> ELSE rest],
             <<"canary">>, {})

Xss == loc.todo # <<>>

(* _check_browser_vector, _check_network_vector, _check_server_vector. *)
BrowserVector(k) ==
  (IF ~k.httponly
   THEN {IF Xss THEN "xss_steals_session" ELSE "httponly_missing_no_xss"} ELSE {})
  \cup
  (IF ~k.samesite THEN {IF Xss THEN "csrf_via_xss" ELSE "samesite_missing"} ELSE {})
NetworkVector(k) ==
  IF loc.https /\ ~k.secure THEN {"secure_missing_over_https"} ELSE {}
ServerVector(k) ==
  IF k.value \in {"repetitive", "short"} THEN {"weak_token"} ELSE {}

SessionVectors ==
  /\ At("session", "session_vectors")
  /\ LET kinds == (IF loc.cookie = None THEN {} ELSE
                     BrowserVector(loc.cookie) \cup NetworkVector(loc.cookie)
                       \cup ServerVector(loc.cookie))
                  \cup (IF loc.leaks THEN {"token_in_response_body"} ELSE {})
     IN  Probe("judge", loc, <<>>,
               {[kind |-> k, cookie |-> IF k = "token_in_response_body" THEN None
                                        ELSE loc.cookie] : k \in kinds})

Hardening == {"httponly_missing_no_xss", "samesite_missing"}

SessionValidate(c) ==
  IF c.kind \in Hardening THEN [outcome |-> "likely", confidence |-> "low"]
  ELSE IF c.kind = "weak_token" /\ c.cookie.value = "short"
       THEN [outcome |-> "likely", confidence |-> "medium"]
       ELSE [outcome |-> "confirmed", confidence |-> "high"]

SessionEvidence(c) ==
  [kind |-> IF c.kind = "token_in_response_body" THEN "error_disclosure" ELSE "cookie_flag"]

SessionOracle(kind) ==
  IF kind \in {"xss_steals_session", "csrf_via_xss"} THEN 4
  ELSE IF kind \in Hardening THEN 1 ELSE 2

(* The largest weight per dimension. *)
SessionWeights(c) ==
  CASE c.kind = "weak_token" ->
         [behavior |-> IF c.cookie.value = "repetitive" THEN 100 ELSE 50]
    [] c.kind \in Hardening -> [response |-> 40]
    [] OTHER -> [response |-> 100]

RootCause(kind) ==
  CASE kind \in {"xss_steals_session", "httponly_missing_no_xss"} -> "httponly"
    [] kind \in {"csrf_via_xss", "samesite_missing"} -> "samesite"
    [] OTHER -> kind

SessionAssess(c) ==
  [severity |-> IF c.kind = "xss_steals_session" THEN "critical"
                ELSE IF c.kind \in Hardening THEN "low" ELSE "high",
   confidence |-> Graded(Score(SessionOracle(c.kind), SessionWeights(c), 0)),
   status |-> IF c.kind \in Hardening \cup {"weak_token"} THEN "likely" ELSE "confirmed",
   cause |-> RootCause(c.kind)]

SessionNext ==
  \/ SessionBegin \/ SessionHome \/ SessionCanary \/ SessionVectors
  \/ Judge("session",
           Reported(SessionValidate(cand), SessionEvidence(cand), SessionAssess(cand)))

-----------------------------------------------------------------------------
(* "The vector-based design only escalates severity when the missing flag  *)
(* aligns with a reachable attack path" (session_cookie.py:21-24): a       *)
(* stolen or forged session is reported only after a canary of this very   *)
(* check came back, a missing flag alone stays low and likely, and both    *)
(* share their root cause.                                                 *)
SessionEscalation ==
  Reports("session") =>
    LET f == result.finding IN
    /\ f.severity = "critical" =>
         Xss /\ "canary" \in Range(wire) /\ ~cand.cookie.httponly
    /\ f.severity = "low" <=> f.confidence = "low"
    /\ f.severity = "low" => f.status = "likely" /\ ~Xss
    /\ f.cause \in {"httponly", "samesite"} /\ f.status = "confirmed" => Xss
=============================================================================
