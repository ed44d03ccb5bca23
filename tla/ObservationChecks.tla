------------------------- MODULE ObservationChecks --------------------------
(***************************************************************************)
(* The checks that only look: security-headers, cors-policy,                *)
(* open-redirect-indicator, source-map-exposure, information-disclosure.    *)
(***************************************************************************)
EXTENDS CheckRun

Always == [outcome |-> "confirmed", confidence |-> "high"]
Url(what) == <<[path |-> Head(loc.todo), what |-> what]>>
Following(stage, after) ==
  [pc |-> IF Len(loc.todo) = 1 THEN after ELSE stage,
   loc |-> [loc EXCEPT !.todo = Tail(@)]]

-----------------------------------------------------------------------------
(* security-headers: of each header whether it is there and what its value *)
(* is like: "bad" as the evaluator of the header says.                      *)
HeaderRules ==
  [csp |-> "medium", frame |-> "medium", hsts |-> "medium", ctype |-> "low",
   referrer |-> "low", permissions |-> "low"]

(* Any permissions policy is fine; a loose CSP is worse than none, a short  *)
(* HSTS age better than none.                                               *)
HeaderIssue(h, value) ==
  IF value = "missing" THEN [issue |-> "missing", severity |-> HeaderRules[h]]
  ELSE IF value = "good" \/ h = "permissions" THEN Nothing
  ELSE [issue |-> value,
        severity |-> CASE h = "csp" -> "high" [] h = "hsts" -> "low"
                       [] OTHER -> HeaderRules[h]]

HeadersBegin == Begin("headers", FALSE, "headers", <<>>)

HeadersGet ==
  /\ At("headers", "headers")
  /\ \/ Probe("done", loc, <<"home">>, {})
     \/ \E h \in DOMAIN HeaderRules, value \in {"missing", "bad", "good"} :
          Probe("judge", loc, <<"home">>,
            IF HeaderIssue(h, value) = Nothing THEN {}
            ELSE {HeaderIssue(h, value) @@ [header |-> h, value |-> value]})

HeadersValidate(c) == Always
HeadersEvidence(c) ==
  [kind |-> IF c.issue = "missing" THEN "header_missing" ELSE "header_present"]
HeadersAssess(c) == [severity |-> c.severity, confidence |-> "high", status |-> "confirmed"]

-----------------------------------------------------------------------------
(* cors-policy: a preflight and a GET with a foreign origin on every path; *)
(* nothing guards them, one that raises ends the check.                     *)
CorsAnswer == [origin : {None, "*", "evil", "own"}, credentials : BOOLEAN]

Analyze(a) ==
  CASE a.origin = "*" -> IF a.credentials THEN "wildcard_with_credentials" ELSE "wildcard_origin"
    [] a.origin = "evil" -> "reflected_origin"
    [] OTHER -> None

CorsBegin == Begin("cors", FALSE, "preflight", [todo |-> Paths])

CorsPreflight ==
  /\ At("cors", "preflight")
  /\ \/ Raised(Url("OPTIONS"))
     \/ \E a \in CorsAnswer :
          Probe("cors_get", [todo |-> loc.todo, first |-> a], Url("OPTIONS"), {})

(* Both answers are analysed; an issue seen twice is one candidate.         *)
CorsGet ==
  /\ At("cors", "cors_get")
  /\ \/ Raised(Url("GET"))
     \/ \E a \in CorsAnswer :
          LET seen == <<loc.first, a>>
              rest == Tail(loc.todo)
              Source(issue) == IF Analyze(loc.first) = issue THEN "preflight" ELSE "get"
          IN  Probe(IF rest = <<>> THEN "judge" ELSE "preflight", [todo |-> rest],
                    Url("GET"),
                    {[path |-> Head(loc.todo), issue |-> i, source |-> Source(i),
                      seen |-> seen] : i \in {Analyze(loc.first), Analyze(a)} \ {None}})

CorsValidate(c) == Always
CorsEvidence(c) == [answers |-> c.seen]
CorsAssess(c) ==
  [severity |-> CASE c.issue = "wildcard_with_credentials" -> "critical"
                  [] c.issue = "reflected_origin" -> "high" [] OTHER -> "low",
   confidence |-> "high", status |-> "discovered"]

-----------------------------------------------------------------------------
(* open-redirect-indicator: parameters named like a redirect target in the *)
(* links of the home page, and a same-origin probe of four paths.           *)
RedirectBegin == Begin("redirect", FALSE, "redirect_home", [todo |-> Paths])

RedirectHome ==
  /\ At("redirect", "redirect_home")
  /\ \/ Probe("done", loc, <<[path |-> "/", what |-> "GET"]>>, {})
     \/ \E named \in BOOLEAN :
          Probe("redirect_probe", loc, <<[path |-> "/", what |-> "GET"]>>,
                IF named THEN {[path |-> "/", kind |-> "redirect_param"]} ELSE {})

RedirectProbe ==
  /\ At("redirect", "redirect_probe")
  /\ \E moved \in BOOLEAN :
       LET next == Following("redirect_probe", "judge") IN
       Probe(next.pc, next.loc, Url("next"),
             IF moved THEN {[path |-> Head(loc.todo), kind |-> "redirect_param_confirmed"]}
             ELSE {})

RedirectValidate(c) ==
  [outcome |-> "likely",
   confidence |-> IF c.kind = "redirect_param_confirmed" THEN "medium" ELSE "low"]
RedirectEvidence(c) == [kind |-> "redirect_target"]
RedirectAssess(c) ==
  [severity |-> "low", confidence |-> RedirectValidate(c).confidence, status |-> "suspected"]

-----------------------------------------------------------------------------
(* source-map-exposure: the scripts of the page, their maps, common maps.  *)
SourceMapBegin == Begin("sourcemap", FALSE, "map_home", <<>>)

SourceMapHome ==
  /\ At("sourcemap", "map_home")
  /\ \/ Probe("done", loc, <<[path |-> "/", what |-> "GET"]>>, {})
     \/ \E scripts \in {<<>>, <<"a.js">>} :
          Probe(IF scripts = <<>> THEN "map_common" ELSE "map_script",
                [todo |-> IF scripts = <<>> THEN Paths ELSE scripts, scripts |-> scripts],
                <<[path |-> "/", what |-> "GET"]>>, {})

SourceMapScript ==
  /\ At("sourcemap", "map_script")
  /\ \E ref \in BOOLEAN :
       Probe("map_of_script", loc, Url("script"),
             IF ref THEN {[path |-> Head(loc.todo), kind |-> "inline_source_map_ref"]} ELSE {})

(* A map is there when a 200 starts like a JSON object. *)
MapAnswer == [status : {200, 404}, json : BOOLEAN]
ExposedMap(a) ==
  IF a.status = 200 /\ a.json
  THEN {[path |-> Head(loc.todo), kind |-> "exposed_source_map"]} ELSE {}

SourceMapOfScript ==
  /\ At("sourcemap", "map_of_script")
  /\ \E a \in MapAnswer :
       Probe("map_common", [loc EXCEPT !.todo = Paths], Url("map"), ExposedMap(a))

SourceMapCommon ==
  /\ At("sourcemap", "map_common")
  /\ \E a \in MapAnswer :
       LET next == Following("map_common", "judge") IN
       Probe(next.pc, next.loc, Url("map"), ExposedMap(a))

SourceMapValidate(c) ==
  IF c.kind = "exposed_source_map" THEN Always
  ELSE [outcome |-> "likely", confidence |-> "medium"]
SourceMapEvidence(c) == [kind |-> "file_existence"]
SourceMapAssess(c) ==
  [severity |-> "medium", confidence |-> SourceMapValidate(c).confidence,
   status |-> SourceMapValidate(c).outcome]

-----------------------------------------------------------------------------
(* information-disclosure: banners, traces, errors and comments of the      *)
(* home page, debug paths compared with the page of a path that does not    *)
(* exist, backup files.                                                     *)
HomeFindings ==
  [version_banner |-> "medium", info_header |-> "low", stack_trace |-> "high",
   db_error |-> "high", html_comment |-> "low"]

DisclosureBegin == Begin("disclosure", FALSE, "disc_home", <<>>)

DisclosureHome ==
  /\ At("disclosure", "disc_home")
  /\ \/ Probe("done", loc, <<"home">>, {})
     \/ \E kinds \in SUBSET DOMAIN HomeFindings :
          Probe("disc_missing", loc, <<"home">>,
                {[kind |-> k, severity |-> HomeFindings[k], page |-> None] : k \in kinds})

(* The pages of the server: one for what does not exist, one with the words *)
(* of such a page and about its length, a real one, an empty one.           *)
Pages == {"missing", "like_missing", "real", "empty"}

DisclosureMissing ==
  /\ At("disclosure", "disc_missing")
  /\ \E baseline \in {None, "missing"} :
       Probe("disc_debug", [todo |-> Paths, baseline |-> baseline], <<"random">>, {})

IsSoft404(page) == loc.baseline # None /\ page \in {"missing", "like_missing"}

DisclosureDebug ==
  /\ At("disclosure", "disc_debug")
  /\ \E status \in {200, 404}, page \in Pages :
       LET next == Following("disc_debug", "disc_backup") IN
       Probe(next.pc, IF next.pc = "disc_backup" THEN [next.loc EXCEPT !.todo = Paths]
                      ELSE next.loc,
             <<"debug">>,
             IF status = 200 /\ page # "empty" /\ ~IsSoft404(page)
             THEN {[kind |-> "exposed", severity |-> "medium", status |-> status, page |-> page]}
             ELSE {})

(* Backup files are not compared with the page of a missing path.           *)
DisclosureBackup ==
  /\ At("disclosure", "disc_backup")
  /\ \E status \in {200, 404}, page \in Pages :
       LET next == Following("disc_backup", "judge") IN
       Probe(next.pc, next.loc, <<"backup">>,
             IF status = 200 /\ page # "empty"
             THEN {[kind |-> "backup_file", severity |-> "high", status |-> status, page |-> page]}
             ELSE {})

DisclosureValidate(c) == Always
DisclosureEvidence(c) ==
  [kind |-> IF c.kind \in {"exposed", "backup_file"} THEN "file_existence"
            ELSE IF c.kind \in {"version_banner", "info_header"} THEN "header_present"
            ELSE "error_disclosure"]
DisclosureAssess(c) == [severity |-> c.severity, confidence |-> "high", status |-> "confirmed"]

ObservationNext ==
  \/ HeadersBegin \/ HeadersGet
  \/ Judge("headers",
           Reported(HeadersValidate(cand), HeadersEvidence(cand), HeadersAssess(cand)))
  \/ CorsBegin \/ CorsPreflight \/ CorsGet
  \/ Judge("cors", Reported(CorsValidate(cand), CorsEvidence(cand), CorsAssess(cand)))
  \/ RedirectBegin \/ RedirectHome \/ RedirectProbe
  \/ Judge("redirect",
           Reported(RedirectValidate(cand), RedirectEvidence(cand), RedirectAssess(cand)))
  \/ SourceMapBegin \/ SourceMapHome \/ SourceMapScript \/ SourceMapOfScript
  \/ SourceMapCommon
  \/ Judge("sourcemap",
           Reported(SourceMapValidate(cand), SourceMapEvidence(cand), SourceMapAssess(cand)))
  \/ DisclosureBegin \/ DisclosureHome \/ DisclosureMissing \/ DisclosureDebug
  \/ DisclosureBackup
  \/ Judge("disclosure",
           Reported(DisclosureValidate(cand), DisclosureEvidence(cand), DisclosureAssess(cand)))

-----------------------------------------------------------------------------
(* A critical CORS finding means that one single answer gave the wildcard  *)
(* together with credentials, a high one that the foreign origin came      *)
(* back; a wildcard in one answer and credentials in the other are none,    *)
(* and a request that fails later takes the finding with it (cors.py        *)
(* discover, _analyze).                                                     *)
CorsSameAnswer ==
  Reports("cors") =>
    LET f == result.finding
        Has(origin, cred) == \E a \in Range(cand.seen) :
                               a.origin = origin /\ (cred => a.credentials)
    IN  /\ f.severity = "critical" => Has("*", TRUE)
        /\ f.severity = "high" => Has("evil", FALSE)
        /\ f.severity = "low" => Has("*", FALSE)
        /\ \A i \in 1..Len(Paths) : wire[2 * i - 1].what = "OPTIONS" /\ wire[2 * i].what = "GET"

(* A debug path is reported as exposed only when its page differs from     *)
(* what the server shows for a path that does not exist, if that page is   *)
(* known (disclosure.py discover, WordlistManager.is_soft_404); of a       *)
(* backup file all that is known is a 200 that is not empty (disclosure.py *)
(* :196-209), so a server that shows one page for everything has them all. *)
DisclosureNotSoft404 ==
  Reports("disclosure") /\ cand.kind \in {"exposed", "backup_file"} =>
    /\ cand.status = 200 /\ cand.page # "empty"
    /\ cand.kind = "exposed" /\ loc.baseline # None => cand.page = "real"
=============================================================================
