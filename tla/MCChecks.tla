------------------------------ MODULE MCChecks ------------------------------
(* All checks in one instance: a behaviour is the life of one of them. *)
EXTENDS XssCheck, SqliCheck, CommandInjectionCheck, SsrfCheck,
        PathTraversalCheck, BolaCheck, SessionCookieCheck,
        GraphqlCheck, MutationChecks, AuthorizationChecks,
        ObservationChecks

MCConsents ==
  [active : {TRUE}, terms : BOOLEAN, allow : {FALSE}, oob : {"outside"}]
  \cup [active : {FALSE}, terms : {TRUE}, allow : {FALSE}, oob : {"outside"}]
  \cup [active : {TRUE}, terms : {FALSE}, allow : {FALSE}, oob : {None, "internal"}]
GateQuestions ==
  [risk : {0, 2, 4}, destructive : {FALSE}, level : {None}, word : {None}]
  \cup [risk : {2}, destructive : {TRUE}, level : {None, 2, 5}, word : {None, "rm-rf"}]
Typed == {"", "y", "rm-rf", "CONFIRM-LEVEL-5"}

MCPaths == <<"/api/users/1", "/api/orders/1">>
MCPayloads == <<"; sleep 3", "| sleep 3">>

(* The gate by itself, asked several questions. *)
GateAlone ==
  /\ Is("gate") /\ GateAsk
  /\ UNCHANGED <<check, pc, env, loc, cand, wire, result>>

(* The mode of the gate matters to the checks whose plan it may refuse: the *)
(* plan of the others is of low risk, or they have none.                    *)
Init ==
  /\ RunInit
  /\ check \in {"sqli", "cmdi"} => mode = "interactive"
  /\ check \in {"ssrf", "traversal"} => mode \in {"strict", None}
  /\ check \notin Gated => mode = IF Is("gate") THEN mode ELSE None
  /\ Is("gate") => mode # None /\ env = CHOOSE e \in Consents : TRUE
Next ==
  \/ GateAlone
  \/ XssNext \/ SqliNext \/ CmdiNext \/ SsrfNext \/ TraversalNext
  \/ BolaNext \/ SessionNext \/ GraphqlNext \/ MassNext \/ MethodsNext
  \/ AuthorizationNext \/ ObservationNext
Spec == Init /\ [][Next]_runVars /\ WF_runVars(Next)

(* A delay convicts only against a steady baseline and undisturbed probes, *)
(* what disturbs them is told, and the payloads stop when the answer is    *)
(* settled (control_probe.py, sqli.py validate, command_injection.py       *)
(* discover).                                                              *)
DelayEarned == DelayConfirmed /\ InterferenceTold /\ CmdiStopsWhenSettled

(* A strength above the plain one is given only to what was seen in the    *)
(* answers, by validate, evidence and assessment alike (xss.py,            *)
(* session_cookie.py, graphql.py).                                         *)
EscalationEarned == XssContextHonoured /\ SessionEscalation /\ GraphqlEscalation

(* Whatever convicts differs from the answer it is compared with, and both *)
(* belong to one question (path_traversal.py, disclosure.py, cors.py,      *)
(* mass_assignment.py).                                                    *)
ComparisonsMatched ==
  TraversalConfirmed /\ DisclosureNotSoft404 /\ CorsSameAnswer /\ MassWritable

(* A finding about a principal, a method or a callback rests on a request  *)
(* made as that principal, with that method, to that domain (bola.py,      *)
(* bfla.py, http_methods.py, ssrf.py).                                     *)
AskedAsClaimed ==
  /\ BolaOwnerFirst /\ BflaAsLowPrivilege /\ MethodsShown
  /\ SsrfCallbackDecides /\ SsrfNeedsDomain
=============================================================================
